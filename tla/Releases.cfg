SPECIFICATION FairSpec
CONSTANTS
    Handlers = {r1}
    MaxDeployments = 3
    MaxFailures = 1
INVARIANTS
    TypeOK
    LiveIsNewest
    DeletedIsGone
    UnstampedOnlyByFailure
PROPERTIES
    TerminalStays
    DeletionCompletes
