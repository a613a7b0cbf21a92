\* Token outputs, issues and inputs on every chain of two blocks, with
\* init_token_output_pos_index run on any state at rest.
CONSTANTS
    c1 = c1
    c2 = c2
    t1 = t1
    t2 = t2
    Commits <- MCCommits
    MaxBlocks = 2
    MaxOutputs = 0
    MaxInputs = 0
    ChunkSize = 2
    GenesisOutputs <- MCGenesisOutputs
    TokenTypes <- MCTokenTypes
    MaxTokenOutputs = 1
    MaxTokenInputs = 1
    Nil = Nil

SPECIFICATION RSpec
SYMMETRY MCSymmetry

INVARIANT RproofPaired
INVARIANT StateMatchesChain
INVARIANT IndexComplete
INVARIANT KnownBlocksReapply
INVARIANT RebuildRestoresTokenIndex
PROPERTY LedgerRefinement
