--------------------------- MODULE ValidationLoops ---------------------------
(***************************************************************************)
(* The loops of txhashset.rs that walk an MMR position by position:        *)
(* find_kernel (450-470) and find_token_kernel (473-496), the reverse scan *)
(* for a kernel excess, and the batching loops of verify_kernel_signatures *)
(* (2115-2151) and verify_rangeproofs (2192-2250).                         *)
(*                                                                         *)
(* Each loop is an operator over the MMR it reads; the state machine only  *)
(* grows the MMRs (apply_kernel, apply_output, apply_input) so that the    *)
(* operators are checked, against reference definitions, on every MMR of  *)
(* up to MaxKernels kernels and MaxOutputLeaves outputs.  Positions are    *)
(* real MMR positions (1-based, parents included), since the loops count  *)
(* over positions and stop at sizes.                                       *)
(***************************************************************************)
EXTENDS Naturals, Sequences, SequencesExt, FiniteSetsExt

CONSTANTS
    Excesses,          \* kernel excess commitments
    NoKernel,          \* get_data of a position that holds no kernel
    KernelBatchSize,   \* KERNEL_BATCH_SIZE (5_000)
    RproofBatchSize,   \* the rangeproof batch (1_000)
    MaxKernels,        \* bound on kernel leaves
    MaxOutputLeaves    \* bound on output leaves

ASSUME /\ NoKernel \notin Excesses
       /\ KernelBatchSize \in Nat \ {0} /\ RproofBatchSize \in Nat \ {0}

VARIABLES
    kernels,    \* the kernel MMR's leaves in insertion order (never pruned)
    outLeaves,  \* number of output MMR leaves
    outPruned   \* the pruned (spent) output leaves

vars == <<kernels, outLeaves, outPruned>>

-----------------------------------------------------------------------------
\* MMR shape (core pmmr, outside this file).
RECURSIVE PopCount(_)
PopCount(n) == IF n = 0 THEN 0 ELSE (n % 2) + PopCount(n \div 2)

\* pmmr::insertion_to_pmmr_index: the position of leaf k (1-based).
LeafPos(k) == 2 * (k - 1) + 1 - PopCount(k - 1)

\* unpruned_size of an MMR of n leaves.
MmrSize(n) == 2 * n - PopCount(n)

\* pmmr::is_leaf, within an MMR of n leaves.
IsLeaf(pos, n) == \E k \in 1..n : LeafPos(k) = pos

\* ReadonlyPMMR::at(backend, last_pos).get_data(pos) on the kernel MMR.
KernelAt(ks, lastPos, pos) ==
    IF pos <= lastPos /\ \E k \in 1..Len(ks) : LeafPos(k) = pos
    THEN ks[CHOOSE k \in 1..Len(ks) : LeafPos(k) = pos]
    ELSE NoKernel

\* find_kernel: index = max_index + 1; while index > min_index { index -= 1;
\* return index if the kernel at index has the excess }; None (0 here).
\* Mutant: the loop stops before examining min_index.
FindKernelSkipsMin(ks, lastPos, e, min, max) ==
    LET RECURSIVE Scan(_)
        Scan(index) ==
            IF index <= min + 1 THEN 0
            ELSE IF KernelAt(ks, lastPos, index - 1) = e THEN index - 1
            ELSE Scan(index - 1)
    IN  Scan(max + 1)

FindKernel(ks, lastPos, e, min, max) ==
    LET RECURSIVE Scan(_)
        Scan(index) ==
            IF index <= min THEN 0
            ELSE IF KernelAt(ks, lastPos, index - 1) = e THEN index - 1
            ELSE Scan(index - 1)
    IN  Scan(max + 1)

\* find_token_kernel: the same scan over the token kernel MMR.
FindTokenKernel(ks, lastPos, e, min, max) == FindKernel(ks, lastPos, e, min, max)

\* verify_kernel_signatures: for n in 1..=size, push the leaf at n; verify
\* and report when the batch is full or n is the last position.  Returns
\* the batches passed to batch_sig_verify and the counts reported.
\* Mutant: the flush is inside the is_leaf branch, so a last position that
\* is a parent never flushes the partial batch.
VerifyKernelsFlushAtLeafOnly(size, batch) ==
    LET Step(st, n) ==
            LET b == IF IsLeaf(n, size) THEN Append(st.batch, n) ELSE st.batch
            IN  IF IsLeaf(n, size) /\ (Len(b) >= batch \/ n >= size)
                THEN [batch |-> <<>>, calls |-> Append(st.calls, b),
                      reports |-> Append(st.reports, st.count + Len(b)),
                      count |-> st.count + Len(b)]
                ELSE [st EXCEPT !.batch = b]
    IN  FoldLeft(Step, [batch |-> <<>>, calls |-> <<>>, reports |-> <<>>, count |-> 0],
                 [n \in 1..size |-> n])

VerifyKernelSignatures(size, batch) ==
    LET Step(st, n) ==
            LET b == IF IsLeaf(n, size) THEN Append(st.batch, n) ELSE st.batch
            IN  IF Len(b) >= batch \/ n >= size
                THEN [batch |-> <<>>, calls |-> Append(st.calls, b),
                      reports |-> Append(st.reports, st.count + Len(b)),
                      count |-> st.count + Len(b)]
                ELSE [st EXCEPT !.batch = b]
    IN  FoldLeft(Step, [batch |-> <<>>, calls |-> <<>>, reports |-> <<>>, count |-> 0],
                 [n \in 1..size |-> n])

\* verify_token_kernel_signatures: the same loop over the token kernel MMR.
VerifyTokenKernelSignatures(size, batch) == VerifyKernelSignatures(size, batch)

\* Mutant: the batch left after the loop is never verified.
VerifyRangeproofsNoRemainder(leafPositions, batch) ==
    LET Step(st, pos) ==
            LET b == Append(st.batch, pos)
            IN  IF Len(b) >= batch
                THEN [batch |-> <<>>, calls |-> Append(st.calls, b)]
                ELSE [st EXCEPT !.batch = b]
    IN  FoldLeft(Step, [batch |-> <<>>, calls |-> <<>>], leafPositions).calls

\* verify_rangeproofs: for pos in leaf_pos_iter, push; verify when the
\* batch reaches 1_000; after the loop verify the rest if non-empty.
VerifyRangeproofs(leafPositions, batch) ==
    LET Step(st, pos) ==
            LET b == Append(st.batch, pos)
            IN  IF Len(b) >= batch
                THEN [batch |-> <<>>, calls |-> Append(st.calls, b)]
                ELSE [st EXCEPT !.batch = b]
        last == FoldLeft(Step, [batch |-> <<>>, calls |-> <<>>], leafPositions)
    IN  IF last.batch # <<>> THEN Append(last.calls, last.batch) ELSE last.calls

\* verify_token_rangeproofs: the same loop over the token output and token
\* rangeproof MMRs.
VerifyTokenRangeproofs(leafPositions, batch) == VerifyRangeproofs(leafPositions, batch)

\* leaf_pos_iter of the output MMR: the positions of unpruned leaves, in order.
OutputLeafPositions ==
    SetToSortSeq({LeafPos(k) : k \in (1..outLeaves) \ outPruned}, <)

-----------------------------------------------------------------------------
Init ==
    /\ kernels = <<>>
    /\ outLeaves = 0
    /\ outPruned = {}

\* Extension::apply_kernel: push onto the kernel MMR.
ApplyKernel(e) ==
    /\ Len(kernels) < MaxKernels
    /\ kernels' = Append(kernels, e)
    /\ UNCHANGED <<outLeaves, outPruned>>

\* Extension::apply_output: push onto the output MMR.
ApplyOutput ==
    /\ outLeaves < MaxOutputLeaves
    /\ outLeaves' = outLeaves + 1
    /\ UNCHANGED <<kernels, outPruned>>

\* Mutant: a position beyond the MMR's size is pruned.
ApplyInputBeyondSize(k) ==
    /\ k \notin outPruned
    /\ outPruned' = outPruned \cup {k}
    /\ UNCHANGED <<kernels, outLeaves>>

\* Extension::apply_input: prune an unspent output leaf.
ApplyInput(k) ==
    /\ k \in (1..outLeaves) \ outPruned
    /\ outPruned' = outPruned \cup {k}
    /\ UNCHANGED <<kernels, outLeaves>>

\* Extension::rewind_mmrs_to_pos: the kernel MMR is truncated to an earlier
\* size, the output MMR too, with the outputs spent since then unpruned.
RewindMmrs(nk, no, pruned) ==
    /\ kernels' = SubSeq(kernels, 1, nk)
    /\ outLeaves' = no
    /\ outPruned' = pruned

Next ==
    \/ \E e \in Excesses : ApplyKernel(e)
    \/ ApplyOutput
    \/ \E k \in 1..MaxOutputLeaves : ApplyInput(k)
    \/ \E nk \in 0..Len(kernels), no \in 0..outLeaves :
          \E pruned \in SUBSET (outPruned \cap 1..no) :
              /\ nk + no < Len(kernels) + outLeaves
              /\ RewindMmrs(nk, no, pruned)

Spec == Init /\ [][Next]_vars

-----------------------------------------------------------------------------
TypeOK ==
    /\ kernels \in Seq(Excesses) /\ Len(kernels) <= MaxKernels
    /\ outLeaves \in 0..MaxOutputLeaves
    /\ outPruned \subseteq 1..outLeaves

\* The reference: the kernel leaf with the highest position in
\* [min, max] within last_pos whose excess is e (0 when there is none).
LatestKernelPos(ks, lastPos, e, min, max) ==
    LET found == {LeafPos(k) : k \in {k \in DOMAIN ks :
                     ks[k] = e /\ LeafPos(k) \in min..max /\ LeafPos(k) <= lastPos}}
    IN  IF found = {} THEN 0 ELSE Max(found)

(* find_kernel and find_token_kernel return the most recent kernel with    *)
(* the excess whose position lies in [min_index, max_index], both ends     *)
(* included, for every window from position 1, past last_pos included, and *)
(* for every last_pos of an earlier size of the MMR (the view of a rewound *)
(* extension over a backend that still holds later kernels): the reverse  *)
(* scan over MMR positions (parents included) neither misses the first or *)
(* last kernel of the window nor returns a kernel beyond last_pos.         *)
FindKernelIsLatest ==
    \A j \in 0..Len(kernels) :
        LET last == MmrSize(j)
        IN  \A e \in Excesses, min \in 1..MmrSize(Len(kernels)) + 1,
                max \in 0..MmrSize(Len(kernels)) + 1 :
                /\ FindKernel(kernels, last, e, min, max)
                       = LatestKernelPos(kernels, last, e, min, max)
                /\ FindTokenKernel(kernels, last, e, min, max)
                       = LatestKernelPos(kernels, last, e, min, max)

(* verify_kernel_signatures and verify_token_kernel_signatures hand every *)
(* kernel leaf to batch_sig_verify exactly once and in position order.     *)
(* Every call but the last holds exactly KERNEL_BATCH_SIZE kernels, so no  *)
(* partial batch is flushed early; the last holds the rest, which is empty *)
(* when a full batch was flushed before trailing parent positions.  Each   *)
(* progress report is the running count and the last is total_kernels.    *)
(* The cases include a last partial batch whose flush happens at a parent *)
(* position (n >= size while is_leaf(n) is false).                         *)
KernelsVerifiedOnce ==
    LET size == MmrSize(Len(kernels))
    IN  \A r \in {VerifyKernelSignatures(size, KernelBatchSize),
                  VerifyTokenKernelSignatures(size, KernelBatchSize)} :
        /\ FlattenSeq(r.calls) = [k \in 1..Len(kernels) |-> LeafPos(k)]
        /\ \A i \in 1..Len(r.calls) - 1 : Len(r.calls[i]) = KernelBatchSize
        /\ \A i \in DOMAIN r.calls : Len(r.calls[i]) <= KernelBatchSize
        /\ \A i \in DOMAIN r.reports :
              r.reports[i] = Len(FlattenSeq(SubSeq(r.calls, 1, i)))
        /\ size > 0 => r.reports[Len(r.reports)] = Len(kernels)

(* verify_rangeproofs and verify_token_rangeproofs hand every unspent     *)
(* output's rangeproof to batch_verify_proofs exactly once, in position    *)
(* order, in non-empty batches of at most 1_000, the remainder after the   *)
(* loop included.                                                          *)
RangeproofsVerifiedOnce ==
    \A calls \in {VerifyRangeproofs(OutputLeafPositions, RproofBatchSize),
                  VerifyTokenRangeproofs(OutputLeafPositions, RproofBatchSize)} :
        /\ FlattenSeq(calls) = OutputLeafPositions
        /\ \A i \in DOMAIN calls : Len(calls[i]) \in 1..RproofBatchSize

=============================================================================
