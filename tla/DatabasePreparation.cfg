\* Two hosts prepare one database: aborts, lost sessions, failing commands.
SPECIFICATION Spec
CONSTANTS
    Preparers = {p1, p2}
    NoPreparer = NoPreparer
    Latest = 1
CHECK_DEADLOCK FALSE
INVARIANTS
    TypeOK
    ChildRunsUnderLock
    OutcomeIsTruthful
PROPERTIES
    FirstFailureIsThrown
    CancelledCallReturns
