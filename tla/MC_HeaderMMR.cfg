CONSTANTS
    DefaultTipV = DefaultTipV
    Headers <- MCHeaders
    Parent <- MCParent
    HGenesis = 0
    DefaultTip <- DefaultTipV

SPECIFICATION HSpec

INVARIANT HTypeOK
INVARIANT HeaderMMRIsChain
INVARIANT OnCurrentChainIsAncestry
INVARIANT HeadHashIsCommittedHead
PROPERTY HeaderChainRefinement
