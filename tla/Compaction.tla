----------------------------- MODULE Compaction -----------------------------
(***************************************************************************)
(* TxHashSet::compact (txhashset.rs 568-588) and input_pos_to_rewind       *)
(* (2491-2505), composed with the extension of TxHashSet.                  *)
(*                                                                         *)
(* compact walks the headers from the body head down to the horizon,       *)
(* OR-ing each block's input bitmap (token_input_pos_to_rewind, 2512-2526, *)
(* the token input bitmaps), and calls check_compact on the output and     *)
(* rangeproof backends with the horizon's output_mmr_size, on the token    *)
(* output backend with its token_output_mmr_size and on the token          *)
(* rangeproof backend with its token_issue_proof_mmr_size.                 *)
(* check_compact (backend, outside this file) removes the data of every    *)
(* pruned leaf up to the cutoff that is not in the rewind bitmap; such a  *)
(* leaf can never be unpruned again.  `compacted` holds, per backend, that *)
(* set of leaves.                                                          *)
(*                                                                         *)
(* The block input bitmap is the chain store's per-block cache of the     *)
(* positions a block spent (comment at 2489); it is taken here to be the  *)
(* positions of the spent index apply_block saves for the block (1383).   *)
(*                                                                         *)
(* The chain compacts to a horizon that only moves up and only rewinds to *)
(* a fork point at or above it; the model's compactions and the           *)
(* extension's rewinds are restricted accordingly.                        *)
(***************************************************************************)
EXTENDS TxHashSet

VARIABLES
    compacted,  \* per backend, the leaves whose data check_compact removed
    horizon     \* the horizon header of the last compaction

cvars == <<vars, compacted, horizon>>

\* The compacted backends.
Compacted == {"out", "rp", "tout", "trp"}

-----------------------------------------------------------------------------
\* batch.get_block_input_bitmap(h): the positions block h spent; Err for a
\* block without one (genesis), which the walk skips.
BlockInputBitmap(h) ==
    IF h \in DOMAIN db.spent
    THEN {db.spent[h][i].pos : i \in DOMAIN db.spent[h]}
    ELSE {}

\* batch.get_block_token_input_bitmap(h), the same for token inputs.
BlockTokenInputBitmap(h) ==
    IF h \in DOMAIN db.tspent
    THEN {db.tspent[h][i].pos : i \in DOMAIN db.tspent[h]}
    ELSE {}

\* input_pos_to_rewind: OR the input bitmaps of the blocks from the head
\* down to, and excluding, the horizon.
\* Mutant: the walk starts at the head's parent.
InputPosToRewindSkipsHead(hz, head) ==
    UNION {BlockInputBitmap(h) :
             h \in {h \in Range(Path(head)) :
                      blocks[h].height > blocks[hz].height /\ h # head}}

InputPosToRewind(hz, head) ==
    UNION {BlockInputBitmap(h) :
             h \in {h \in Range(Path(head)) : blocks[h].height > blocks[hz].height}}

\* PMMRBackend::check_compact(cutoff, rewind_rm_pos): the pruned leaves up
\* to the cutoff, with the rewind bitmap's positions counted as unpruned.
\* token_input_pos_to_rewind: the same walk over the token input bitmaps.
\* Mutant: the walk stops one block above the horizon.
TokenInputPosToRewindStopsEarly(hz, head) ==
    UNION {BlockTokenInputBitmap(h) :
             h \in {h \in Range(Path(head)) : blocks[h].height > blocks[hz].height + 1}}

TokenInputPosToRewind(hz, head) ==
    UNION {BlockTokenInputBitmap(h) :
             h \in {h \in Range(Path(head)) : blocks[h].height > blocks[hz].height}}

RemovedPreCutoff(m, cutoff, rewindRm) ==
    {p \in 1..cutoff : p \notin m.leafset \cup rewindRm}

\* compact(horizon_header, batch): head_header from the batch, the two
\* rewind bitmaps, then check_compact on the four backends in turn,
\* outside any extension.
Compact(hz) ==
    LET rewindRm  == InputPosToRewind(hz, db.head)
        tRewindRm == TokenInputPosToRewind(hz, db.head)
        h         == blocks[hz]
        removed   == [out  |-> RemovedPreCutoff(mem.out, h.outputSize, rewindRm),
                      rp   |-> RemovedPreCutoff(mem.rp, h.outputSize, rewindRm),
                      tout |-> RemovedPreCutoff(mem.tout, h.tokenOutputSize, tRewindRm),
                      trp  |-> RemovedPreCutoff(mem.trp, h.tokenIssueSize, tRewindRm)]
    IN  /\ phase = "idle"
        /\ IsAncestor(hz, db.head)
        /\ h.height >= blocks[horizon].height
        /\ compacted' = [k \in Compacted |-> compacted[k] \cup removed[k]]
        /\ horizon' = hz
        /\ UNCHANGED vars

CInit ==
    /\ Init
    /\ compacted = [k \in Compacted |-> {}]
    /\ horizon = Genesis

\* The extension's steps, rewinds only to a fork point at or above the
\* horizon.
ExtensionStep ==
    /\ \/ BeginExtending
       \/ BeginReadonly
       \/ \E body \in Bodies : ApplyNewBlock(body)
       \/ \E id \in DOMAIN blocks : ApplyKnownBlock(id)
       \/ \E t \in DOMAIN blocks :
             blocks[t].height >= blocks[horizon].height /\ RewindTo(t)
       \/ ValidateRoots
       \/ ValidateSizes
       \/ ForceRollback
       \/ ClosureOk
       \/ ClosureErr
       \/ Discard
       \/ DiscardReadonly
       \/ Commit
    /\ UNCHANGED <<compacted, horizon>>

CNext ==
    \/ ExtensionStep
    \/ \E hz \in DOMAIN blocks : Compact(hz)

CSpec == CInit /\ [][CNext]_cvars

-----------------------------------------------------------------------------
(* Spec 1: positions are stable after compaction; a rewind restores       *)
(* outputs spent after the target.  Whatever extensions run after any      *)
(* compaction, rewinding to fork points at or above the horizon and        *)
(* applying blocks again, no leaf whose data check_compact removed from    *)
(* the output, rangeproof, token output or token rangeproof backend is     *)
(* ever unspent again in that backend: every unspent output can still be  *)
(* read, spent and verified.                                               *)
CompactedNeverUnspent ==
    \A k \in Compacted : compacted[k] \cap mem[k].leafset = {}

(* apply_token_output keeps the token output and token rangeproof MMRs     *)
(* leaf for leaf (1561-1574), and spec 4.7 compacts both backends to the  *)
(* horizon: after any compaction the two backends hold data for the same  *)
(* token leaves, so a token output that can be read has a rangeproof and  *)
(* a removed one has none.                                                 *)
TokenRproofCompactedWithOutputs ==
    compacted.tout = compacted.trp

=============================================================================
