\* The token rangeproof backend is compacted with the token output backend.
CONSTANTS
    c1 = c1
    c2 = c2
    t1 = t1
    Commits <- MCCommits
    MaxBlocks = 2
    MaxOutputs = 0
    MaxInputs = 0
    ChunkSize = 2
    GenesisOutputs <- MCGenesisOutputs
    TokenTypes <- MCTokenTypes
    MaxTokenOutputs = 1
    MaxTokenInputs = 1
    Nil = Nil

SPECIFICATION CSpec
SYMMETRY MCSymmetry

INVARIANT TokenRproofCompactedWithOutputs
