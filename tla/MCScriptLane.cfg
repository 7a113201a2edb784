\* One operation, two attempts, two crashes, every answer of the ports.
SPECIFICATION FairSpec
CONSTANTS
    Ops <- MCOps
    op1 = op1
    Agents = {}
    Interactions = {}
    Calls = {}
    MaxAttempts = 2
    MaxCrashes = 2
    Endings = {"succeeded", "retryable", "cancelled"}
    PortMay = {"doubt", "reject", "emit"}
CHECK_DEADLOCK FALSE
INVARIANTS
    TypeOK
    AtMostOneExecution
    CancelledNeverExecutes
    SerialAttempts
    ObservationsAreTrue
    OneReportPerReceipt
PROPERTIES
    ImplementsContract
    EveryLaneConcludes
