------------------------- MODULE MC_ValidationLoops -------------------------
EXTENDS ValidationLoops, TLC

CONSTANTS e1, e2

MCExcesses == {e1, e2}

MCSymmetry == Permutations(MCExcesses)
=============================================================================
