CONSTANTS
    a = a
    b = b
    c = c
    x = x
    y = y
    u = u
    os = os
    cli = cli
    file = file
    SelfTagSentinel = self
    Names <- MCAllNames
    Manifests <- MCAllManifests
    HostArch <- MCHostArch
    Underscored <- MCUnderscored
    CallsFor <- MCCallsFor
    VarsOf <- MCVarsOf

SPECIFICATION CommandsSpec

INVARIANTS
    CommandsTypeOK
    AcceptsExactlyDags
    ParentsAreSameArch
    BulkCoversAll
    EveryExpansionResolves
    CommandsAgree
    PinsParentTag
