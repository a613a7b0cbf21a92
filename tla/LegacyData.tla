----------------------------- MODULE LegacyData -----------------------------
(***************************************************************************)
(* A node whose store holds chain data written by an older version: the    *)
(* block on top of genesis was applied with a per-block input bitmap       *)
(* (block_input_bitmap) and no spent index.  rewind_single_block falls     *)
(* back to that bitmap to unspend the block's inputs (1754-1774) and, with *)
(* no spent index, re-saves no index entry for them (1832-1842).           *)
(*                                                                         *)
(* The extension of TxHashSet then runs unchanged on that state.  Block 1  *)
(* is any body applicable on genesis.                                      *)
(***************************************************************************)
EXTENDS TxHashSet

\* The store left by the older version after applying block 1: the same
\* MMRs and index as apply_block, the spends recorded as input bitmaps.
LInit ==
    \E body \in Bodies :
        LET b == NewBlock(Genesis, 0, body)
            w == ApplyBlock(GenesisState, b, 1)
        IN  /\ ~w.err
            /\ blocks = (1 :> WithHeader(b, w)) @@ (Genesis :> GenesisBlock)
            /\ disk = Backends(w)
            /\ mem = disk
            /\ lastPos = Sizes(disk)
            /\ acc = AccInit(disk.out)
            /\ extAcc = acc
            /\ db = [idx |-> w.idx, spent |-> GenesisState.spent, tidx |-> w.tidx,
                     tissIdx |-> w.tissIdx, tspent |-> GenesisState.tspent,
                     bitmap |-> (1 :> PosSet(w.spentList)),
                     tbitmap |-> (1 :> PosSet(w.tspentList)), head |-> 1]
            /\ child = db
            /\ extHead = 1
            /\ phase = "idle"
            /\ rollback = FALSE
            /\ readonly = FALSE

LSpec == LInit /\ [][Next]_vars

=============================================================================
