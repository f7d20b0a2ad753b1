CONSTANTS
    a1 = a1
    a2 = a2
    rel1 = rel1
    rel2 = rel2
    dir1 = dir1
    None = None
    Jobs = {j1, j2}
    Refs <- MCRefs
    Dirs <- MCDirs
    Builds = {1}
    Inputs <- MCInputs

SPECIFICATION Spec

INVARIANTS
    TypeOK
    NilMeansReleased
    EveryTargetTried
    ResolveBeforeWrite
    OneArchPerRef
    ReleasedFromSource
    ReleasesStay
