\* A cancellation meets an attempt that has failed and is to be retried.
SPECIFICATION Spec
CONSTANTS
    left = left
    right = right
    tail = tail
    gate = gate
    ask = ask
    alice = alice
    bob = bob
    bot = bot
    Interactions = {}
    Timed = {}
    Answerable = {}
    Calls = {}
    WindowsExpire = FALSE
    Agents = {}
    AgentMay = {}
    Ops <- TwoOps
    Entry <- Parallel
    After <- TwoAfter
    MaxAttempts = 2
    MaxCrashes = 0
    PortMay = {}
    Cancellable = TRUE
    Endings = {"succeeded", "retryable"}
CHECK_DEADLOCK FALSE
INVARIANTS
    RetryStartIsExpected
