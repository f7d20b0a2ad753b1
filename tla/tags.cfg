CONSTANTS
    os = os
    compute = compute
    node = node
    j1 = j1
    j2 = j2
    None = None
    Layers <- MCLayers
    DependsOn <- MCDependsOn
    Jobs = {j1, j2}
    Inputs = {1, 2}
    MaxEdits = 1
    MaxRuns = 3

SPECIFICATION Spec

INVARIANTS
    TypeOK
    TagMeansCheckout

PROPERTIES
    TagsNeverMove
