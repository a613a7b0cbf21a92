------------------------- MODULE MC_TokenTxHashSet -------------------------
(* Model-checking instance of TxHashSet and the token index rebuild: two *)
(* commitments, two token types, blocks of one token output (plain or      *)
(* issue) and one token input and no plain outputs.                        *)
EXTENDS IndexRebuild

CONSTANTS c1, c2, t1, t2

MCCommits == {c1, c2}

MCTokenTypes == {t1, t2}

MCGenesisOutputs == <<>>

MCSymmetry == {p @@ q : p \in Permutations(MCCommits), q \in Permutations(MCTokenTypes)}
=============================================================================
