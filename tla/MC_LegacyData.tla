---------------------------- MODULE MC_LegacyData ----------------------------
(* Model-checking instance of LegacyData: two commitments, a genesis       *)
(* output c1, blocks of one output and one input.                          *)
EXTENDS LegacyData

CONSTANTS c1, c2

MCCommits == {c1, c2}

MCGenesisOutputs == <<c1>>
=============================================================================
