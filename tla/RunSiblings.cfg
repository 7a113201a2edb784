\* Two operations in parallel, one attempt each, one crash, a cancellation.
SPECIFICATION Spec
CONSTANTS
    left = left
    right = right
    tail = tail
    gate = gate
    ask = ask
    alice = alice
    bob = bob
    bot = bot
    Interactions = {}
    Timed = {}
    Answerable = {}
    Calls = {}
    WindowsExpire = FALSE
    Agents = {}
    AgentMay = {}
    Ops <- TwoOps
    Entry <- Parallel
    After <- TwoAfter
    MaxAttempts = 1
    MaxCrashes = 1
    PortMay = {"doubt"}
    Cancellable = TRUE
    Endings = {"succeeded", "failed"}
CHECK_DEADLOCK FALSE
INVARIANTS
    TerminalRunIsSettled
    NothingIsForgotten
PROPERTIES
    OutcomeIsFinal
