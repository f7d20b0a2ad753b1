CONSTANTS
    MaxCompressed = 4
    MaxDecompressed = 6
    MaxBodyBytes = 4
    Bodies <- MCBodies
    RepoLists <- MCRepoLists
    Backends = {"apt", "rpm"}
    Clean <- MCClean
    Trimmed <- MCTrimmed
    Repo = 10
    Outputs <- MCOutputs
    Formats = {"textblock", "json"}
    LF = LF
    CR = CR
    Blank = Blank
    Quiet = Quiet
    Char = Char

SPECIFICATION HelpersSpec

INVARIANTS
    TypeOK
    WholeOrError
    TruncationIsNotBlamed
    SharedNamesStayApart
    StreamMatchesBlock
