\* Two calls of createRun with one run id, two starts, two stops, one child
\* that is recovered whenever DBOS is launched: of an agent, dispatched before or not.
SPECIFICATION AdmissionSpec
CONSTANTS
    MaxStarts = 2
    Stops = {t1, t2}
    Calls = {c1, c2}
    Children = {w1}
    Agents = {w1}
CHECK_DEADLOCK FALSE
INVARIANTS
    AdmissionTypeOK
    CallsAreHosted
    AdmissionIsTruthful
PROPERTIES
    HostIsReachedWhenReady
    StopReturns
