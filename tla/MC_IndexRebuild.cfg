\* init_output_pos_index, on chains of blocks of up to two outputs and one input.
CONSTANTS
    c1 = c1
    c2 = c2
    t1 = t1
    Commits <- MCCommits
    MaxBlocks = 2
    MaxOutputs = 2
    MaxInputs = 1
    ChunkSize = 2
    GenesisOutputs <- MCNoGenesisOutputs
    TokenTypes <- MCTokenTypes
    MaxTokenOutputs = 0
    MaxTokenInputs = 0
    Nil = Nil

SPECIFICATION RSpec
SYMMETRY MCSymmetry

INVARIANT RebuildRestoresIndex
