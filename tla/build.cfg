CONSTANTS
    Configs <- MCConfigs
    ExitCodes <- MCExitCodes

SPECIFICATION FairSpec

INVARIANTS
    TypeOK
    PublishedIsComplete
    EmptyRootBootstrap
    NilMeansEverywhere
    LitterOnlyIfRmFailed
    HostTmpRemoved
    PruneCompletes

PROPERTIES
    CancelEnds
    ImplementsContract
