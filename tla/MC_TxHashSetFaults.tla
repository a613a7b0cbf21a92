------------------------- MODULE MC_TxHashSetFaults -------------------------
(* Model-checking instance of TxHashSetFaults: two commitments, two blocks *)
(* of one output and one input (and, in one instance, one token output of *)
(* one token type), accumulator chunks of two leaves.                     *)
EXTENDS TxHashSetFaults

CONSTANTS c1, c2, t1

MCCommits == {c1, c2}

MCTokenTypes == {t1}

MCGenesisOutputs == <<>>

MCSymmetry == Permutations(MCCommits)
=============================================================================
