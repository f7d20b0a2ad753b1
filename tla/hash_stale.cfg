CONSTANTS
    s1 = s1
    s2 = s2
    gone = gone
    linked = linked
    None = None
    Sources <- MCSources
    RootOf <- MCRootOf
    BaseName <- MCBaseName
    Git <- MCGit
    Layers <- Negated
    Trees <- MCTrees
    Writes <- ContentWrites
    MaxEdits = 2

SPECIFICATION Spec

INVARIANT
    NeverStale
