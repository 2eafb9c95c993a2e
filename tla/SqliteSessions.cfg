SPECIFICATION FairSpec
CONSTANTS
    Sessions = {s1}
    MaxSessions = 1
    MaxActive = 1
    MaxChanges = 2
INVARIANT
    NoOrphan
PROPERTIES
    StopsUnused
    QueriesEnd
CHECK_DEADLOCK FALSE
