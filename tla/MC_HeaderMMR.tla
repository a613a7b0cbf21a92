---------------------------- MODULE MC_HeaderMMR ----------------------------
(* Model-checking instance of HeaderMMR: five headers, a chain 0-1-2 and a *)
(* fork 1-3-4 one header longer, so that a reorg rewinds past a header.    *)
EXTENDS HeaderMMR

CONSTANTS DefaultTipV

MCHeaders == 0..4

MCParent == (0 :> 0) @@ (1 :> 0) @@ (2 :> 1) @@ (3 :> 1) @@ (4 :> 3)
=============================================================================
