----------------------------- MODULE IndexRebuild -----------------------------
(***************************************************************************)
(* TxHashSet::init_output_pos_index (txhashset.rs 609-689): rebuild the    *)
(* commitment index from the output MMR.  It removes the entries that do   *)
(* not point at a leaf holding their commitment, collects the unspent      *)
(* leaves without an entry in position order, and gives them heights by   *)
(* walking the headers from height 1 to the head, saving every queued      *)
(* output whose position is within the header's output_mmr_size.           *)
(*                                                                         *)
(* The header at a height is read from the header MMR; on a node whose     *)
(* header and body chains agree up to the head it is the block of that     *)
(* height on the head's chain.                                             *)
(*                                                                         *)
(* init_token_output_pos_index (694-769) is the same algorithm over the    *)
(* token output MMR and the token index, stopping at the header's          *)
(* token_output_mmr_size; the operators take the header's size field.      *)
(***************************************************************************)
EXTENDS TxHashSet

\* The header of height h on the chain ending at head.
HeaderAt(head, h) == blocks[Path(head)[h + 1]]

\* First loop: keep an entry iff the leaf at its position exists, holds a
\* commitment whose indexed position is that position, and the key is that
\* commitment.
StaleRemoved(idx, out) ==
    [c \in Commits |->
        IF idx[c] # Nil
           /\ LET d == GetData(out, idx[c].pos)
              IN  d # Nil /\ idx[d] # Nil /\ idx[d].pos = idx[c].pos /\ d = c
        THEN idx[c] ELSE Nil]

\* outputs_pos after retain: the unspent leaves without an index entry, in
\* leaf_pos_iter order.
MissingOutputs(idx, out) ==
    LET ps == SetToSortSeq({p \in out.leafset : idx[out.elems[p]] = Nil}, <)
    IN  [i \in DOMAIN ps |-> [commit |-> out.elems[ps[i]], pos |-> ps[i]]]

\* The number of queued outputs, from the i-th on, with pos <= size: the
\* while loop that breaks at the first pos > output_mmr_size.
\* Mutant: the loop breaks at pos >= output_mmr_size.
TakenAtOrBeyond(q, i, size) ==
    Cardinality({k \in i..Len(q) : \A j \in i..k : q[j].pos < size})

Taken(q, i, size) ==
    Cardinality({k \in i..Len(q) : \A j \in i..k : q[j].pos <= size})

\* for search_height in 0..max_height: the header of height search_height + 1
\* takes the next queued outputs and saves them with its height.  size is
\* the header field the loop compares positions with.
AssignHeights(idx, q, head, size) ==
    LET Step(st, sh) ==
            LET h     == HeaderAt(head, sh + 1)
                taken == st.i..(st.i + Taken(q, st.i, h[size]) - 1)
            IN  [idx |-> [c \in Commits |->
                            IF \E k \in taken : q[k].commit = c
                            THEN [pos |-> q[CHOOSE k \in taken : q[k].commit = c].pos,
                                  height |-> h.height]
                            ELSE st.idx[c]],
                 i |-> st.i + Cardinality(taken)]
    IN  FoldLeft(Step, [idx |-> idx, i |-> 1],
                 [k \in 1..blocks[head].height |-> k - 1]).idx

RebuildPosIndex(idx, out, head, size) ==
    LET pruned == StaleRemoved(idx, out)
        q      == MissingOutputs(pruned, out)
    IN  IF q = <<>> THEN pruned ELSE AssignHeights(pruned, q, head, size)

\* init_output_pos_index: over the output MMR, against output_mmr_size.
\* Mutant: the loop compares positions with token_output_mmr_size.
InitOutputPosIndexTokenSize(idx, out, head) ==
    RebuildPosIndex(idx, out, head, "tokenOutputSize")

InitOutputPosIndex(idx, out, head) == RebuildPosIndex(idx, out, head, "outputSize")

\* init_token_output_pos_index: the same over the token output MMR.
InitTokenOutputPosIndex(tidx, tout, head) ==
    RebuildPosIndex(tidx, tout, head, "tokenOutputSize")

\* The node rebuilds the index of its batch from the output MMR at rest.
RebuildOutputPosIndex ==
    /\ phase = "idle"
    /\ db' = [db EXCEPT !.idx = InitOutputPosIndex(db.idx, disk.out, db.head)]
    /\ UNCHANGED <<blocks, disk, mem, lastPos, acc, extAcc, child, extHead,
                   phase, rollback, readonly>>

\* The node rebuilds the token index of its batch from the token output MMR.
RebuildTokenOutputPosIndex ==
    /\ phase = "idle"
    /\ db' = [db EXCEPT !.tidx = InitTokenOutputPosIndex(db.tidx, disk.tout, db.head)]
    /\ UNCHANGED <<blocks, disk, mem, lastPos, acc, extAcc, child, extHead,
                   phase, rollback, readonly>>

RNext == Next \/ RebuildOutputPosIndex \/ RebuildTokenOutputPosIndex

RSpec == Init /\ [][RNext]_vars

-----------------------------------------------------------------------------
\* The index apply_block builds for the chain ending at head; created gives
\* the height of the block that pushed a leaf.
AppliedIndex(out, head, created(_, _)) ==
    [c \in Commits |->
        IF \E p \in out.leafset : out.elems[p] = c
        THEN LET p == CHOOSE p \in out.leafset : out.elems[p] = c
             IN  [pos |-> p, height |-> created(head, p)]
        ELSE Nil]

\* The indexes the rebuild may start from: every entry is either the right
\* one, absent, or stale (its position does not hold its commitment), as
\* left by spends, rewinds and a replaced txhashset.
StartIndexes(out, right, entries) ==
    {i \in [Commits -> entries \cup {Nil}] :
        \A c \in Commits : i[c] \in {Nil, right[c]} \/ GetData(out, i[c].pos) # c}

(* init_output_pos_index, from any index it may find, rebuilds exactly the *)
(* index that apply_block wrote for the unspent outputs: the same position *)
(* and the height of the block that created each output (spec invariant 3: *)
(* the index maps the commitments of unspent outputs to (pos, height)).   *)
RebuildRestoresIndex ==
    LET right == AppliedIndex(disk.out, db.head, CreatedAt)
    IN  phase = "idle" =>
            \A i \in StartIndexes(disk.out, right, CommitPos) :
                InitOutputPosIndex(i, disk.out, db.head) = right

(* init_token_output_pos_index, from any token index it may find, rebuilds *)
(* exactly the token index apply_block wrote: for every unspent token      *)
(* output, its position and the height of the block that created it,      *)
(* found by comparing positions with each header's token_output_mmr_size. *)
RebuildRestoresTokenIndex ==
    LET right == AppliedIndex(disk.tout, db.head, TokenCreatedAt)
    IN  phase = "idle" =>
            \A i \in StartIndexes(disk.tout, right, TCommitPos) :
                InitTokenOutputPosIndex(i, disk.tout, db.head) = right

=============================================================================
