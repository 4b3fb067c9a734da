\* The components that translate and account, one small instance of each.
SPECIFICATION Spec
CONSTANTS
    None = None
    Missing = Missing
CHECK_DEADLOCK FALSE
INVARIANTS
    TypeOK
    StreamsAreWhole
    RecordsAreSound
    HistoryIsKept
