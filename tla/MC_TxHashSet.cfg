CONSTANTS
    c1 = c1
    c2 = c2
    Commits <- MCCommits
    MaxBlocks = 3
    MaxOutputs = 1
    MaxInputs = 1
    ChunkSize = 2
    GenesisOutputs <- MCGenesisOutputs
    TokenTypes = {}
    MaxTokenOutputs = 0
    MaxTokenInputs = 0
    Nil = Nil

SPECIFICATION Spec
SYMMETRY MCSymmetry

INVARIANT TypeOK
INVARIANT RproofPaired
INVARIANT StateMatchesChain
INVARIANT IndexComplete
INVARIANT AccumulatorInSync
INVARIANT NoBufferedStateWhenIdle
