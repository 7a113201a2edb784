\* One operation, three attempts, one crash, live events, a cancellation, every ending.
SPECIFICATION FairSpec
CONSTANTS
    left = left
    right = right
    tail = tail
    gate = gate
    ask = ask
    alice = alice
    bob = bob
    bot = bot
    Interactions = {}
    Timed = {}
    Answerable = {}
    Calls = {}
    WindowsExpire = FALSE
    Agents = {}
    AgentMay = {}
    Ops <- OneOp
    Entry <- Single
    After <- OneAfter
    MaxAttempts = 3
    MaxCrashes = 1
    PortMay = {"doubt", "emit"}
    Cancellable = TRUE
    Endings = {"succeeded", "failed", "retryable", "cancelled"}
CHECK_DEADLOCK FALSE
INVARIANTS
    LiveEventsAreTaken
PROPERTIES
    EveryRunReturns
    HostsScriptLanes
