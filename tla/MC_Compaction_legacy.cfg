\* Each block's input bitmap and token input bitmap in the store are its spent positions.
CONSTANTS
    c1 = c1
    c2 = c2
    t1 = t1
    Commits <- MCCommits
    MaxBlocks = 2
    MaxOutputs = 1
    MaxInputs = 1
    ChunkSize = 2
    GenesisOutputs <- MCGenesisOutputs
    TokenTypes <- MCTokenTypes
    MaxTokenOutputs = 1
    MaxTokenInputs = 1
    Nil = Nil

SPECIFICATION CSpec
SYMMETRY MCSymmetry

INVARIANT CompactedNeverUnspent
