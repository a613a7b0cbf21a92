CONSTANTS
    c1 = c1
    c2 = c2
    t1 = t1
    Commits <- MCCommits
    MaxBlocks = 2
    MaxOutputs = 2
    MaxInputs = 1
    ChunkSize = 2
    GenesisOutputs <- MCGenesisOutput
    TokenTypes = {}
    MaxTokenOutputs = 0
    MaxTokenInputs = 0
    Nil = Nil

SPECIFICATION RSpec


INVARIANT RebuildRestoresIndex
