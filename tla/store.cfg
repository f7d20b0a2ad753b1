CONSTANTS
    b1 = b1
    b2 = b2
    i1 = i1
    i2 = i2
    Host = Host
    None = None
    Builds <- MCBuilds
    Pruning <- MCPruning
    Images <- MCImages
    MaxMounts <- MCMaxMounts
    Ref <- MCRef

SPECIFICATION Spec

INVARIANTS
    TypeOK
    PruneLeavesNothing
    LeaksAreReported

PROPERTY
    PriorImagesStay
