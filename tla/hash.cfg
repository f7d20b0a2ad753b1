CONSTANTS
    s1 = s1
    s2 = s2
    gone = gone
    linked = linked
    None = None
    Sources <- MCSources
    RootOf <- MCRootOf
    BaseName <- MCBaseName
    Git <- MCGit
    Layers <- MCLayers
    Trees <- MCTrees
    Writes <- MCWrites
    MaxEdits = 2

SPECIFICATION Spec

INVARIANTS
    StaleOnlyByKnownGap
    GitBookkeepingInvisible
