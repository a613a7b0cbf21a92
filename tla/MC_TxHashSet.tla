---------------------------- MODULE MC_TxHashSet ----------------------------
(* Model-checking instance of TxHashSet: two commitments, three blocks of  *)
(* one output and one input, accumulator chunks of two leaves.            *)
EXTENDS TxHashSet

CONSTANTS c1, c2

MCCommits == {c1, c2}

MCGenesisOutputs == <<>>

MCSymmetry == Permutations(MCCommits)
=============================================================================
