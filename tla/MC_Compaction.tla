---------------------------- MODULE MC_Compaction ----------------------------
(* Model-checking instances of Compaction: two commitments, one token     *)
(* type, blocks of one output, one input, one token output (plain or      *)
(* issue) and one token input, accumulator chunks of two leaves.          *)
EXTENDS Compaction

CONSTANTS c1, c2, t1

MCCommits == {c1, c2}

MCTokenTypes == {t1}

MCGenesisOutputs == <<>>

MCSymmetry == Permutations(MCCommits)
=============================================================================
