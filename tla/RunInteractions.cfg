\* A script beside a gate that a signal wait follows, two calls, a
\* cancellation, ports that know, and windows that may expire.
SPECIFICATION Spec
CONSTANTS
    left = left
    right = right
    tail = tail
    gate = gate
    ask = ask
    alice = alice
    bob = bob
    bot = bot
    Interactions <- TwoInteractions
    Timed <- OneInteraction
    Answerable <- TwoInteractions
    Calls = {alice, bob}
    WindowsExpire = TRUE
    Agents = {}
    AgentMay = {}
    Ops <- OneOp
    Entry <- Beside
    After <- AskAfterGate
    MaxAttempts = 1
    MaxCrashes = 0
    PortMay = {}
    Cancellable = TRUE
    Endings = {"succeeded", "failed"}
CHECK_DEADLOCK FALSE
INVARIANTS
    ResolutionIsTruthful
    OneAnswerIsDelivered
    ActiveIsAnswered
