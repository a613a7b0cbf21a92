CONSTANTS
    c1 = c1
    c2 = c2
    t1 = t1
    Commits <- MCCommits
    MaxBlocks = 2
    MaxOutputs = 1
    MaxInputs = 1
    ChunkSize = 2
    GenesisOutputs <- MCGenesisOutputs
    TokenTypes <- MCTokenTypes
    MaxTokenOutputs = 1
    MaxTokenInputs = 0
    Nil = Nil
    Faults = {"sync_error"}
    MaxCrashes = 1

SPECIFICATION FSpec
SYMMETRY MCSymmetry
INVARIANT CommitOrRollback
