\* A script outcome stays unknown after a crash while a sibling succeeds.
SPECIFICATION Spec
CONSTANTS
    left = left
    right = right
    tail = tail
    gate = gate
    ask = ask
    alice = alice
    bob = bob
    bot = bot
    Interactions = {}
    Timed = {}
    Answerable = {}
    Calls = {}
    WindowsExpire = FALSE
    Agents = {}
    AgentMay = {}
    Ops <- TwoOps
    Entry <- Parallel
    After <- TwoAfter
    MaxAttempts = 1
    MaxCrashes = 1
    PortMay = {}
    Cancellable = FALSE
    Endings = {"succeeded"}
CHECK_DEADLOCK FALSE
PROPERTIES
    NoAdvanceAroundUnknown
