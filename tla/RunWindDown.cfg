\* A script with a successor beside a gate with a deadline: a failure cancels the
\* gate, the gate is answered or outwaited, and the run is cancelled.  Ports that know.
SPECIFICATION FairSpec
CONSTANTS
    left = left
    right = right
    tail = tail
    gate = gate
    ask = ask
    alice = alice
    bob = bob
    bot = bot
    Interactions <- OneInteraction
    Timed <- OneInteraction
    Answerable <- OneInteraction
    Calls = {alice}
    WindowsExpire = FALSE
    Agents = {}
    AgentMay = {}
    Ops <- ChainOps
    Entry <- Beside
    After <- ChainAfter
    MaxAttempts = 1
    MaxCrashes = 0
    PortMay = {}
    Cancellable = TRUE
    Endings = {"succeeded", "failed"}
CHECK_DEADLOCK FALSE
PROPERTIES
    CancellationEnds
    AcceptedCallsResolve
