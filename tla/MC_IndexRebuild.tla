---------------------------- MODULE MC_IndexRebuild ----------------------------
(* Model-checking instances of IndexRebuild: two commitments, two blocks   *)
(* of up to two outputs and one input, with or without a genesis output.  *)
(* The token rebuild is checked by MC_TokenTxHashSet.                     *)
EXTENDS IndexRebuild

CONSTANTS c1, c2, t1

MCCommits == {c1, c2}

MCTokenTypes == {t1}

MCNoGenesisOutputs == <<>>

MCGenesisOutput == <<c1>>

MCSymmetry == Permutations(MCCommits)
=============================================================================
