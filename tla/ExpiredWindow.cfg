\* A signal wait whose receive window ends before the signal is sent.
SPECIFICATION FairSpec
CONSTANTS
    left = left
    right = right
    tail = tail
    gate = gate
    ask = ask
    alice = alice
    bob = bob
    bot = bot
    Interactions <- OnlyAsk
    Timed = {}
    Answerable <- OnlyAsk
    Calls = {alice}
    WindowsExpire = TRUE
    Agents = {}
    AgentMay = {}
    Ops <- NoOps
    Entry <- Asked
    After <- AskedAfter
    MaxAttempts = 1
    MaxCrashes = 0
    PortMay = {}
    Cancellable = FALSE
    Endings = {"succeeded"}
CHECK_DEADLOCK FALSE
PROPERTIES
    AcceptedCallsResolve
