\* A script beside an agent, one crash, a cancellation, every ending of both.
SPECIFICATION FairSpec
CONSTANTS
    left = left
    right = right
    tail = tail
    gate = gate
    ask = ask
    alice = alice
    bob = bob
    bot = bot
    Interactions = {}
    Timed = {}
    Answerable = {}
    Calls = {}
    WindowsExpire = FALSE
    Agents <- OneAgent
    AgentMay = {"doubt", "reject"}
    Ops <- OneOp
    Entry <- BesideAgent
    After <- AgentAfter
    MaxAttempts = 1
    MaxCrashes = 1
    PortMay = {}
    Cancellable = TRUE
    Endings = {"succeeded", "failed"}
CHECK_DEADLOCK FALSE
INVARIANTS
    TypeOK
    JournalIsTruthful
    ActiveIsAnswered
    AgentIsLaunchedOnce
    NoAgentOutlivesItsRun
PROPERTIES
    CancellationStopsAgents
