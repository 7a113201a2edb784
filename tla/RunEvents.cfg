\* One reader that pages and subscribes at will, five events, pages of two.
\* Readers share nothing they write, so one shows what several would.
SPECIFICATION FairSpec
CONSTANTS
    Readers = {r1}
    MaxEvents = 5
    Limit = 2
CHECK_DEADLOCK FALSE
INVARIANTS
    TypeOK
    NothingSkippedOrRepeated
    PagesAreBacked
PROPERTIES
    LastPageIsComplete
    ClosedStreamsDeliver
