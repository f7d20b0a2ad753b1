CONSTANTS
    a = a
    b = b
    c = c
    x = x
    y = y
    Names <- MCNames
    Manifests <- Hyphenated

SPECIFICATION Spec

INVARIANT
    EveryExpansionResolves
