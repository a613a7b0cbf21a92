------------------------------ MODULE TxHashSet ------------------------------
(***************************************************************************)
(* The transactional UTXO-set engine of src/chain/src/txhashset/           *)
(* txhashset.rs: the output, rangeproof and kernel MMRs, the commitment    *)
(* index (output_pos), the per-block spent index, the bitmap accumulator,  *)
(* Extension::apply_block / Extension::rewind, and the `extending` and     *)
(* `extending_readonly` drivers that commit or discard a unit of work.     *)
(*                                                                         *)
(* Abstractions.  An MMR position is the leaf number (1-based): the MMR    *)
(* maps leaf k to a position monotonically, so every comparison the code   *)
(* makes between positions and header sizes is preserved.  A rangeproof    *)
(* leaf is represented by the commitment of the output it proves.  The     *)
(* kernel MMR only matters through its size.  A database batch is a copy   *)
(* of the index state; a child batch starts as a copy of its parent.       *)
(* The PMMR backend and the bitmap accumulator are collaborators outside   *)
(* this file; their operators follow the specification's description.     *)
(***************************************************************************)
EXTENDS Naturals, Sequences, FiniteSets, SequencesExt, TLC

CONSTANTS
    Commits,      \* output commitments
    MaxBlocks,    \* bound on the number of blocks ever created (besides genesis)
    MaxOutputs,   \* bound on outputs per block
    MaxInputs,    \* bound on inputs per block
    ChunkSize,    \* leaves per bitmap-accumulator chunk (1024 in the code)
    GenesisOutputs, \* the outputs of the genesis block
    TokenTypes,   \* token types (token_type of a token output, the issue key)
    MaxTokenOutputs, \* bound on token outputs per block
    MaxTokenInputs,  \* bound on token inputs per block
    Nil           \* "no entry": absent index entry, pruned or missing leaf

ASSUME /\ Nil \notin Commits /\ Nil \notin TokenTypes /\ ChunkSize \in Nat \ {0}
       /\ GenesisOutputs \in Seq(Commits)

Genesis   == 0
BlockIds  == 0..MaxBlocks
Heights   == 0..MaxBlocks
Pos       == 1..(Len(GenesisOutputs) + MaxBlocks * MaxOutputs)
CommitPos == [pos: Pos, height: Heights]
TPos      == 1..(MaxBlocks * MaxTokenOutputs)
TCommitPos == [pos: TPos, height: Heights]

\* A token output: its commitment, token type, and whether it is a token
\* issue (is_tokenissue) rather than a plain token output.
TokenOutputs == [commit: Commits, type: TokenTypes, issue: BOOLEAN]

VARIABLES
    blocks,   \* chain store: block id -> header and body (never deleted)
    disk,     \* MMR backend files as of the last sync: [out, rp, ker, tout, trp, tiss, tker]
    mem,      \* MMR backends including unsynced changes (what PMMR::at sees)
    lastPos,  \* PMMRHandle.last_pos of the output, rangeproof, kernel handles
    acc,      \* TxHashSet.bitmap_accumulator
    extAcc,   \* Extension.bitmap_accumulator (the clone being worked on)
    db,       \* the caller's batch: [idx, spent, tidx, tissIdx, tspent, bitmap,
              \* tbitmap, head]; bitmap and tbitmap are the legacy per-block input
              \* bitmaps of blocks an older version applied (no spent index)
    child,    \* the child batch of the current extension
    extHead,  \* Extension.head
    phase,    \* "idle" | "open" (closure running) | "ok" / "err" (closure returned)
    rollback, \* Extension.rollback
    readonly  \* TRUE inside extending_readonly

vars == <<blocks, disk, mem, lastPos, acc, extAcc, db, child, extHead,
          phase, rollback, readonly>>

-----------------------------------------------------------------------------
(* PMMR backend (spec section 4.1 / 6): elements by position and the leaf  *)
(* set of unpruned positions.  get_data yields Nil for a pruned leaf.      *)

EmptyMMR == [elems |-> <<>>, leafset |-> {}]

MmrPush(m, c) == [elems |-> Append(m.elems, c),
                  leafset |-> m.leafset \cup {Len(m.elems) + 1}]

GetData(m, p) == IF p \in m.leafset THEN m.elems[p] ELSE Nil

\* rewind(pos, bitmap): truncate to pos and put the bitmap's positions back
\* into the leaf set.
MmrRewind(m, n, bm) ==
    LET k == IF n <= Len(m.elems) THEN n ELSE Len(m.elems)
    IN  [elems |-> SubSeq(m.elems, 1, k), leafset |-> {p \in m.leafset \cup bm : p <= k}]

UnspentIdx(m) == {p - 1 : p \in m.leafset}

(* BitmapAccumulator::apply: with a non-empty set of invalidated leaf       *)
(* indices, rebuild every chunk from the chunk of the smallest one to the   *)
(* end from the leaf iterator; with none, nothing is rebuilt.              *)
ChunkStart(i) == (i \div ChunkSize) * ChunkSize

AccApply(a, idxs, m) ==
    IF idxs = {} THEN a
    ELSE LET from == ChunkStart(Min(idxs))
         IN  [size |-> Len(m.elems),
              bits |-> {i \in a.bits : i < from} \cup {i \in UnspentIdx(m) : i >= from}]

AccInit(m) == [size |-> Len(m.elems), bits |-> UnspentIdx(m)]

-----------------------------------------------------------------------------
(* The working state of an Extension: its MMR views, the batch it writes   *)
(* the index through, its accumulator and head, and the scratch values     *)
(* apply_block accumulates (affected positions, spent list, error).        *)

ExtView == [out |-> mem.out, rp |-> mem.rp, ker |-> mem.ker,
            tout |-> mem.tout, trp |-> mem.trp, tiss |-> mem.tiss, tker |-> mem.tker,
            idx |-> child.idx, spent |-> child.spent, tidx |-> child.tidx,
            tissIdx |-> child.tissIdx, tspent |-> child.tspent,
            bitmap |-> child.bitmap, tbitmap |-> child.tbitmap, acc |-> extAcc,
            head |-> extHead, aff |-> {}, spentList |-> <<>>, tspentList |-> <<>>,
            err |-> FALSE]

\* The backends of an extension state, and the batch fields it writes.
Backends(w) == [out |-> w.out, rp |-> w.rp, ker |-> w.ker, tout |-> w.tout,
                trp |-> w.trp, tiss |-> w.tiss, tker |-> w.tker]

Fail(w) == [w EXCEPT !.err = TRUE]

\* n_leaves(pos).saturating_sub(1)
LeafIdx(p) == IF p = 0 THEN 0 ELSE p - 1

ApplyToBitmapAccumulator(w) ==
    [w EXCEPT !.acc = AccApply(@, {LeafIdx(p) : p \in w.aff}, w.out)]

\* Mutant: the index records the 0-based leaf number as the position.
ApplyOutputZeroBasedPos(w, c, height) ==
    LET e == w.idx[c]
        p == Len(w.out.elems)
    IN  IF e # Nil /\ GetData(w.out, e.pos) = c
        THEN Fail(w)
        ELSE [w EXCEPT !.out = MmrPush(@, c), !.rp = MmrPush(@, c),
                       !.idx[c] = [pos |-> p, height |-> height],
                       !.aff = @ \cup {p + 1}]

ApplyOutput(w, c, height) ==
    LET e == w.idx[c]
        p == Len(w.out.elems) + 1
    IN  IF e # Nil /\ GetData(w.out, e.pos) = c
        THEN Fail(w)                                       \* DuplicateCommitment
        ELSE [w EXCEPT !.out = MmrPush(@, c), !.rp = MmrPush(@, c),
                       !.idx[c] = [pos |-> p, height |-> height],
                       !.aff = @ \cup {p}]

ApplyInput(w, c) ==
    LET e == w.idx[c]
    IN  IF e = Nil THEN Fail(w)                            \* AlreadySpent
        ELSE IF GetData(w.out, e.pos) \notin {Nil, c}
        THEN Fail(w)                                       \* output pmmr mismatch
        ELSE IF e.pos \notin w.out.leafset THEN Fail(w)    \* prune false: AlreadySpent
        ELSE [w EXCEPT !.out.leafset = @ \ {e.pos}, !.rp.leafset = @ \ {e.pos},
                       !.idx[c] = Nil, !.spentList = Append(@, e),
                       !.aff = @ \cup {e.pos}]

\* Extension::apply_token_output: the duplicate check against the token
\* index, then the token output and token rangeproof pushes; apply_block
\* saves the token index entry.
ApplyTokenOutput(w, c, height) ==
    LET e == w.tidx[c]
        p == Len(w.tout.elems) + 1
    IN  IF e # Nil /\ GetData(w.tout, e.pos) = c
        THEN Fail(w)                                       \* DuplicateCommitment
        ELSE [w EXCEPT !.tout = MmrPush(@, c), !.trp = MmrPush(@, c),
                       !.tidx[c] = [pos |-> p, height |-> height]]

\* Mutant: a token issue is never checked for a duplicate.
ApplyTokenIssueOutputNoCheck(w, t) ==
    [w EXCEPT !.tiss = MmrPush(@, t), !.tissIdx[t] = Len(w.tiss.elems) + 1]

\* Mutant: the duplicate-issue check trusts the index entry without
\* reading the issue proof it points at.
ApplyTokenIssueOutputIndexOnly(w, t) ==
    IF w.tissIdx[t] # Nil
    THEN Fail(w)
    ELSE [w EXCEPT !.tiss = MmrPush(@, t), !.tissIdx[t] = Len(w.tiss.elems) + 1]

\* Extension::apply_token_issue_output: DuplicateTokenKey when the issue
\* index entry of the token type points at an issue proof of that type;
\* else push the issue proof; apply_block saves its position.
ApplyTokenIssueOutput(w, t) ==
    LET e == w.tissIdx[t]
    IN  IF e # Nil /\ GetData(w.tiss, e) = t
        THEN Fail(w)                                       \* DuplicateTokenKey
        ELSE [w EXCEPT !.tiss = MmrPush(@, t), !.tissIdx[t] = Len(w.tiss.elems) + 1]

\* One token output of apply_block: apply_token_output, then, for a token
\* issue, apply_token_issue_output.
ApplyTokenOutputOf(w, o, height) ==
    LET w1 == ApplyTokenOutput(w, o.commit, height)
    IN  IF w1.err \/ ~o.issue THEN w1 ELSE ApplyTokenIssueOutput(w1, o.type)

\* Extension::apply_token_input, with apply_block's index delete.
ApplyTokenInput(w, c) ==
    LET e == w.tidx[c]
    IN  IF e = Nil THEN Fail(w)                            \* AlreadySpent
        ELSE IF GetData(w.tout, e.pos) \notin {Nil, c}
        THEN Fail(w)                                       \* token output pmmr mismatch
        ELSE IF e.pos \notin w.tout.leafset THEN Fail(w)   \* prune false: AlreadySpent
        ELSE [w EXCEPT !.tout.leafset = @ \ {e.pos}, !.trp.leafset = @ \ {e.pos},
                       !.tidx[c] = Nil, !.tspentList = Append(@, e)]

\* Extension::apply_block: outputs, inputs and the spent index; token
\* outputs (and issues), token inputs and the token spent index; kernels
\* and token kernels; the accumulator; the head.  The first error ends it.
ApplyBlock(w, b, id) ==
    LET w0 == [w EXCEPT !.aff = {}, !.spentList = <<>>, !.tspentList = <<>>]
        w1 == FoldLeft(LAMBDA x, c : IF x.err THEN x ELSE ApplyOutput(x, c, b.height),
                       w0, b.outputs)
        w2 == FoldLeft(LAMBDA x, c : IF x.err THEN x ELSE ApplyInput(x, c),
                       w1, b.inputs)
        w3 == FoldLeft(LAMBDA x, o : IF x.err THEN x ELSE ApplyTokenOutputOf(x, o, b.height),
                       w2, b.tokenOutputs)
        w4 == FoldLeft(LAMBDA x, c : IF x.err THEN x ELSE ApplyTokenInput(x, c),
                       w3, b.tokenInputs)
    IN  IF w4.err THEN w4
        ELSE ApplyToBitmapAccumulator(
               [w4 EXCEPT !.spent = (id :> w4.spentList) @@ @,
                          !.tspent = (id :> w4.tspentList) @@ @,
                          !.ker = @ + b.kernels, !.tker = @ + b.tokenKernels,
                          !.head = id])

\* A header's MMR sizes, and those rewind_single_block rewinds a block to:
\* its previous header's, or all zero for the genesis block.
BlockSizes(hdr) == [out |-> hdr.outputSize, ker |-> hdr.kernelSize,
                    tout |-> hdr.tokenOutputSize, tiss |-> hdr.tokenIssueSize,
                    tker |-> hdr.tokenKernelSize]

PrevSizes(blk) ==
    IF blk.height = 0 THEN [out |-> 0, ker |-> 0, tout |-> 0, tiss |-> 0, tker |-> 0]
    ELSE BlockSizes(blocks[blk.parent])

\* Mutant: the rangeproof MMR is rewound with an empty bitmap.
RewindMmrsRproofNoUnspend(w, sz, spentPos, tspentPos) ==
    [w EXCEPT !.out = MmrRewind(@, sz.out, spentPos),
              !.rp = MmrRewind(@, sz.out, {}),
              !.ker = IF sz.ker <= @ THEN sz.ker ELSE @,
              !.tout = MmrRewind(@, sz.tout, tspentPos),
              !.trp = MmrRewind(@, sz.tout, {}),
              !.tiss = MmrRewind(@, sz.tiss, {}),
              !.tker = IF sz.tker <= @ THEN sz.tker ELSE @]

\* Extension::rewind_mmrs_to_pos: the spent positions are un-pruned in the
\* output and rangeproof MMRs, the token spent positions in the token
\* output and token rangeproof MMRs; the kernel, issue-proof and token
\* kernel MMRs are truncated with an empty bitmap.
RewindMmrs(w, sz, spentPos, tspentPos) ==
    [w EXCEPT !.out = MmrRewind(@, sz.out, spentPos),
              !.rp = MmrRewind(@, sz.out, spentPos),
              !.ker = IF sz.ker <= @ THEN sz.ker ELSE @,
              !.tout = MmrRewind(@, sz.tout, tspentPos),
              !.trp = MmrRewind(@, sz.tout, tspentPos),
              !.tiss = MmrRewind(@, sz.tiss, {}),
              !.tker = IF sz.tker <= @ THEN sz.tker ELSE @]

PosSet(sp) == {sp[i].pos : i \in DOMAIN sp}

\* spent_pos and token_spent_pos: the block's spent index if the batch has
\* one, else the legacy input bitmap (1754-1774).
SpentPos(w, h) == IF h \in DOMAIN w.spent THEN PosSet(w.spent[h]) ELSE w.bitmap[h]

TokenSpentPos(w, h) == IF h \in DOMAIN w.tspent THEN PosSet(w.tspent[h]) ELSE w.tbitmap[h]

\* Mutant: the index entries of the outputs the block spent are not restored.
RestoreIndexNoReinsert(idx, blk, h, spent) ==
    [c \in Commits |-> IF c \in Range(blk.outputs) THEN Nil ELSE idx[c]]

\* rewind_single_block on the index: delete the entries of the block's
\* outputs, then, if the block has a spent index, re-save each input's
\* spent entry (zip of inputs and spent index).
RestoreIndex(idx, blk, h, spent) ==
    LET idx1 == [c \in Commits |-> IF c \in Range(blk.outputs) THEN Nil ELSE idx[c]]
    IN  IF h \in DOMAIN spent
        THEN FoldLeft(LAMBDA f, pr : [f EXCEPT ![pr[1]] = pr[2]], idx1, Zip(blk.inputs, spent[h]))
        ELSE idx1

\* Mutant: the token inputs' spent entries are not re-saved.
RestoreTokenIndexNoReinsert(tidx, blk, h, tspent) ==
    [c \in Commits |-> IF c \in {o.commit : o \in Range(blk.tokenOutputs)} THEN Nil ELSE tidx[c]]

\* The same on the token index, with the token spent index.
RestoreTokenIndex(tidx, blk, h, tspent) ==
    LET created == {o.commit : o \in Range(blk.tokenOutputs)}
        tidx1   == [c \in Commits |-> IF c \in created THEN Nil ELSE tidx[c]]
    IN  IF h \in DOMAIN tspent
        THEN FoldLeft(LAMBDA f, pr : [f EXCEPT ![pr[1]] = pr[2]], tidx1, Zip(blk.tokenInputs, tspent[h]))
        ELSE tidx1

\* Mutant: the MMRs are truncated to the rewound block's own sizes.
RewindSingleBlockOwnSizes(w, h) ==
    LET blk == blocks[h]
        w1  == RewindMmrs(w, BlockSizes(blk), SpentPos(w, h), TokenSpentPos(w, h))
    IN  [w1 EXCEPT !.idx = RestoreIndex(w.idx, blk, h, w.spent),
                   !.tidx = RestoreTokenIndex(w.tidx, blk, h, w.tspent),
                   !.aff = @ \cup SpentPos(w, h) \cup {Len(w1.out.elems)}]

\* Mutant: the new output tail is not counted as an affected position.
RewindSingleBlockNoTail(w, h) ==
    LET blk == blocks[h]
        w1  == RewindMmrs(w, PrevSizes(blk), SpentPos(w, h), TokenSpentPos(w, h))
    IN  [w1 EXCEPT !.idx = RestoreIndex(w.idx, blk, h, w.spent),
                   !.tidx = RestoreTokenIndex(w.tidx, blk, h, w.tspent),
                   !.aff = @ \cup SpentPos(w, h)]

\* Extension::rewind_single_block: rewind the MMRs with the block's spent
\* and token spent positions, restore the index and the token index; the
\* affected positions are the spent ones and the new output tail.  (A
\* block with neither a spent index nor a legacy bitmap makes the `?` on
\* get_block_input_bitmap fail; every block of the model has one.)
RewindSingleBlock(w, h) ==
    LET blk == blocks[h]
        w1  == RewindMmrs(w, PrevSizes(blk), SpentPos(w, h), TokenSpentPos(w, h))
    IN  [w1 EXCEPT !.idx = RestoreIndex(w.idx, blk, h, w.spent),
                   !.tidx = RestoreTokenIndex(w.tidx, blk, h, w.tspent),
                   !.aff = @ \cup SpentPos(w, h) \cup {Len(w1.out.elems)}]

RECURSIVE RewindBlocks(_, _, _)
RewindBlocks(w, cur, targetHeight) ==
    IF targetHeight < blocks[cur].height
    THEN RewindBlocks(RewindSingleBlock(w, cur), blocks[cur].parent, targetHeight)
    ELSE w

Rewind(w, t) ==
    LET hdr == blocks[t]
        w0  == [w EXCEPT !.aff = {}]
        w1  == IF blocks[w.head].height <= hdr.height
               THEN [RewindMmrs(w0, BlockSizes(hdr), {}, {})
                       EXCEPT !.aff = {hdr.outputSize}]
               ELSE RewindBlocks(w0, w.head, hdr.height)
    IN  [ApplyToBitmapAccumulator(w1) EXCEPT !.head = t]

Sizes(m) == [out |-> Len(m.out.elems), rp |-> Len(m.rp.elems), ker |-> m.ker,
             tout |-> Len(m.tout.elems), trp |-> Len(m.trp.elems),
             tiss |-> Len(m.tiss.elems), tker |-> m.tker]

(* Extension::roots.  An MMR root commits to every leaf ever appended,     *)
(* pruned or not, so it is abstracted by the element sequence; spentness   *)
(* is committed to by the bitmap accumulator's root.                       *)
Roots(w) == [output |-> w.out.elems, bitmap |-> w.acc, rproof |-> w.rp.elems,
             kernel |-> w.ker, tokenOutput |-> w.tout.elems,
             tokenRproof |-> w.trp.elems, tokenIssueProof |-> w.tiss.elems,
             tokenKernel |-> w.tker]

\* Extension::validate_roots: skipped at genesis, else InvalidRoot on mismatch.
ValidateRootsOk(w, hdr) == hdr.height = 0 \/ Roots(w) = hdr.roots

\* Extension::validate_sizes: the header's sizes against sizes().
ValidateSizesOk(w, hdr) ==
    \/ hdr.height = 0
    \/ <<hdr.outputSize, hdr.outputSize, hdr.kernelSize, hdr.tokenOutputSize,
          hdr.tokenOutputSize, hdr.tokenIssueSize, hdr.tokenKernelSize>>
          = <<Len(w.out.elems), Len(w.rp.elems), w.ker, Len(w.tout.elems),
              Len(w.trp.elems), Len(w.tiss.elems), w.tker>>

\* TxHashSet::get_unspent over a batch index and an output MMR.
GetUnspent(idx, out, c) ==
    IF idx[c] # Nil /\ GetData(out, idx[c].pos) = c THEN idx[c] ELSE Nil

\* TxHashSet::get_token_unspent: the same lookup in the token index and the
\* token output MMR.
GetTokenUnspent(tidx, tout, c) == GetUnspent(tidx, tout, c)

-----------------------------------------------------------------------------
(* The chain seen from a block: the path from genesis, ancestry, and the   *)
(* reference UTXO semantics a chain of blocks defines.                     *)

RECURSIVE Path(_)
Path(b) == IF b = Genesis THEN <<Genesis>> ELSE Append(Path(blocks[b].parent), b)

IsAncestor(a, b) == a \in Range(Path(b))

AbsAddOutput(u, c) ==
    IF \E p \in u.unspent : u.elems[p] = c
    THEN [u EXCEPT !.ok = FALSE]
    ELSE [u EXCEPT !.elems = Append(@, c), !.unspent = @ \cup {Len(u.elems) + 1}]

AbsSpend(u, c) ==
    IF \E p \in u.unspent : u.elems[p] = c
    THEN [u EXCEPT !.unspent = @ \ {CHOOSE p \in u.unspent : u.elems[p] = c}]
    ELSE [u EXCEPT !.ok = FALSE]

\* A token output; a token issue is refused when its type was issued before
\* on the chain.
AbsAddTokenOutput(t, o) ==
    LET t1 == AbsAddOutput(t, o.commit)
    IN  IF ~o.issue THEN t1
        ELSE IF o.type \in Range(t1.issued) THEN [t1 EXCEPT !.ok = FALSE]
        ELSE [t1 EXCEPT !.issued = Append(@, o.type)]

AbsApply(u, b) ==
    LET u1 == FoldLeft(AbsAddOutput, u, b.outputs)
        u2 == FoldLeft(AbsSpend, u1, b.inputs)
        t1 == FoldLeft(AbsAddTokenOutput, u.tok, b.tokenOutputs)
        t2 == FoldLeft(AbsSpend, t1, b.tokenInputs)
    IN  [u2 EXCEPT !.ker = @ + b.kernels, !.ok = @ /\ t2.ok,
                   !.tok = [t2 EXCEPT !.ker = @ + b.tokenKernels]]

\* The UTXO and token state the chain ending at b defines, replayed from
\* genesis.
Replay(b) ==
    FoldLeft(LAMBDA u, id : AbsApply(u, blocks[id]),
             [elems |-> <<>>, unspent |-> {}, ker |-> 0, ok |-> TRUE,
              tok |-> [elems |-> <<>>, unspent |-> {}, issued |-> <<>>, ker |-> 0,
                       ok |-> TRUE]], Path(b))

\* Height of the block on the chain ending at b that created position p.
RECURSIVE CreatedAt(_, _)
CreatedAt(b, p) ==
    IF b = Genesis \/ blocks[blocks[b].parent].outputSize < p
    THEN blocks[b].height
    ELSE CreatedAt(blocks[b].parent, p)

\* The same for position p of the token output MMR.
RECURSIVE TokenCreatedAt(_, _)
TokenCreatedAt(b, p) ==
    IF b = Genesis \/ blocks[blocks[b].parent].tokenOutputSize < p
    THEN blocks[b].height
    ELSE TokenCreatedAt(blocks[b].parent, p)

-----------------------------------------------------------------------------
GenesisBlock == [parent |-> Genesis, height |-> 0, outputs |-> GenesisOutputs,
                 inputs |-> <<>>, kernels |-> 0, tokenOutputs |-> <<>>,
                 tokenInputs |-> <<>>, tokenKernels |-> 0,
                 outputSize |-> Len(GenesisOutputs), kernelSize |-> 0,
                 tokenOutputSize |-> 0, tokenIssueSize |-> 0, tokenKernelSize |-> 0,
                 roots |-> Nil]

\* The genesis block applied by `extending` to the empty MMRs of a fresh node.
GenesisState ==
    ApplyBlock([out |-> EmptyMMR, rp |-> EmptyMMR, ker |-> 0,
                tout |-> EmptyMMR, trp |-> EmptyMMR, tiss |-> EmptyMMR, tker |-> 0,
                idx |-> [c \in Commits |-> Nil], spent |-> <<>>,
                tidx |-> [c \in Commits |-> Nil], tissIdx |-> [t \in TokenTypes |-> Nil],
                tspent |-> <<>>, bitmap |-> <<>>, tbitmap |-> <<>>,
                acc |-> AccInit(EmptyMMR), head |-> Genesis,
                aff |-> {}, spentList |-> <<>>, tspentList |-> <<>>, err |-> FALSE],
               GenesisBlock, Genesis)

\* TxHashSet::open on the files of that state, with the batch it committed.
Init ==
    /\ blocks = (Genesis :> GenesisBlock)
    /\ disk = Backends(GenesisState)
    /\ mem = disk
    /\ lastPos = Sizes(disk)
    /\ acc = AccInit(disk.out)
    /\ extAcc = acc
    /\ db = [idx |-> GenesisState.idx, spent |-> GenesisState.spent,
             tidx |-> GenesisState.tidx, tissIdx |-> GenesisState.tissIdx,
             tspent |-> GenesisState.tspent, bitmap |-> <<>>, tbitmap |-> <<>>,
             head |-> Genesis]
    /\ child = db
    /\ extHead = Genesis
    /\ phase = "idle"
    /\ rollback = FALSE
    /\ readonly = FALSE

Bodies == [outputs: SeqOf(Commits, MaxOutputs), inputs: SeqOf(Commits, MaxInputs),
           tokenOutputs: SeqOf(TokenOutputs, MaxTokenOutputs),
           tokenInputs: SeqOf(Commits, MaxTokenInputs)]

WriteBack(w) ==
    /\ mem' = Backends(w)
    /\ child' = [child EXCEPT !.idx = w.idx, !.spent = w.spent, !.tidx = w.tidx,
                              !.tissIdx = w.tissIdx, !.tspent = w.tspent]
    /\ extAcc' = w.acc
    /\ extHead' = w.head
    /\ phase' = IF w.err THEN "err" ELSE "open"

\* extending: build the Extension over the handles and a child batch of the
\* caller's batch, then run the closure.
BeginExtending ==
    /\ phase = "idle"
    /\ child' = db
    /\ extAcc' = acc
    /\ extHead' = db.head
    /\ phase' = "open"
    /\ rollback' = FALSE
    /\ readonly' = FALSE
    /\ UNCHANGED <<blocks, disk, mem, lastPos, acc, db>>

\* extending_readonly: the same Extension over a fresh batch of the store,
\* which is never committed.
BeginReadonly ==
    /\ phase = "idle"
    /\ child' = db
    /\ extAcc' = acc
    /\ extHead' = db.head
    /\ phase' = "open"
    /\ rollback' = FALSE
    /\ readonly' = TRUE
    /\ UNCHANGED <<blocks, disk, mem, lastPos, acc, db>>

\* A block received on top of parent, of height parentHeight: one kernel,
\* and one token kernel if it has token parts.
NewBlock(parent, parentHeight, body) ==
    [parent |-> parent, height |-> parentHeight + 1,
     outputs |-> body.outputs, inputs |-> body.inputs, kernels |-> 1,
     tokenOutputs |-> body.tokenOutputs, tokenInputs |-> body.tokenInputs,
     tokenKernels |-> IF body.tokenOutputs = <<>> /\ body.tokenInputs = <<>> THEN 0 ELSE 1,
     outputSize |-> 0, kernelSize |-> 0, tokenOutputSize |-> 0,
     tokenIssueSize |-> 0, tokenKernelSize |-> 0, roots |-> Nil]

\* The block as stored: its header carries the MMR sizes and roots after it.
WithHeader(b, w) ==
    [b EXCEPT !.outputSize = Len(w.out.elems), !.kernelSize = w.ker,
              !.tokenOutputSize = Len(w.tout.elems), !.tokenIssueSize = Len(w.tiss.elems),
              !.tokenKernelSize = w.tker, !.roots = Roots(w)]

\* The closure applies a block received on top of the extension head.
ApplyNewBlock(body) ==
    LET id  == Cardinality(DOMAIN blocks)
        b   == NewBlock(extHead, blocks[extHead].height, body)
        w   == ApplyBlock(ExtView, b, id)
    IN  /\ phase = "open"
        /\ id <= MaxBlocks
        /\ WriteBack(w)
        /\ blocks' = IF w.err THEN blocks ELSE (id :> WithHeader(b, w)) @@ blocks
        /\ UNCHANGED <<disk, lastPos, acc, db, rollback, readonly>>

\* The closure re-applies a stored block whose parent is the extension head.
ApplyKnownBlock(id) ==
    /\ phase = "open"
    /\ id # Genesis
    /\ blocks[id].parent = extHead
    /\ WriteBack(ApplyBlock(ExtView, blocks[id], id))
    /\ UNCHANGED <<blocks, disk, lastPos, acc, db, rollback, readonly>>

\* The closure rewinds the extension to a block on its chain.
RewindTo(t) ==
    /\ phase = "open"
    /\ IsAncestor(t, extHead)
    /\ WriteBack(Rewind(ExtView, t))
    /\ UNCHANGED <<blocks, disk, lastPos, acc, db, rollback, readonly>>

\* The closure checks the extension against the header of its head block.
ValidateRoots ==
    /\ phase = "open"
    /\ phase' = IF ValidateRootsOk(ExtView, blocks[extHead]) THEN "open" ELSE "err"
    /\ UNCHANGED <<blocks, disk, mem, lastPos, acc, extAcc, db, child, extHead,
                   rollback, readonly>>

ValidateSizes ==
    /\ phase = "open"
    /\ phase' = IF ValidateSizesOk(ExtView, blocks[extHead]) THEN "open" ELSE "err"
    /\ UNCHANGED <<blocks, disk, mem, lastPos, acc, extAcc, db, child, extHead,
                   rollback, readonly>>

ForceRollback ==
    /\ phase = "open"
    /\ rollback' = TRUE
    /\ UNCHANGED <<blocks, disk, mem, lastPos, acc, extAcc, db, child, extHead,
                   phase, readonly>>

\* The closure returns Ok; its caller records the new body head in the same
\* batch as the index writes.
ClosureOk ==
    /\ phase = "open"
    /\ phase' = "ok"
    /\ child' = [child EXCEPT !.head = extHead]
    /\ UNCHANGED <<blocks, disk, mem, lastPos, acc, extAcc, db, extHead,
                   rollback, readonly>>

ClosureErr ==
    /\ phase = "open"
    /\ phase' = "err"
    /\ UNCHANGED <<blocks, disk, mem, lastPos, acc, extAcc, db, child, extHead,
                   rollback, readonly>>

\* The driver drops the child batch, the cloned accumulator and every
\* backend's unsynced changes.
\* Mutant: the error path forgets to discard the kernel backend.
DiscardKeepsKernel ==
    /\ ~readonly
    /\ \/ phase = "err"
       \/ phase = "ok" /\ rollback
    /\ mem' = [disk EXCEPT !.ker = IF phase = "err" THEN mem.ker ELSE disk.ker]
    /\ child' = db
    /\ extAcc' = acc
    /\ extHead' = db.head
    /\ phase' = "idle"
    /\ UNCHANGED <<blocks, disk, lastPos, acc, db, rollback, readonly>>

Discard ==
    /\ ~readonly
    /\ \/ phase = "err"
       \/ phase = "ok" /\ rollback
    /\ mem' = disk
    /\ child' = db
    /\ extAcc' = acc
    /\ extHead' = db.head
    /\ phase' = "idle"
    /\ UNCHANGED <<blocks, disk, lastPos, acc, db, rollback, readonly>>

\* extending_readonly always discards, whatever the closure returned.
DiscardReadonly ==
    /\ readonly
    /\ phase \in {"ok", "err"}
    /\ mem' = disk
    /\ child' = db
    /\ extAcc' = acc
    /\ extHead' = db.head
    /\ phase' = "idle"
    /\ UNCHANGED <<blocks, disk, lastPos, acc, db, rollback, readonly>>

\* Mutant: the Ok path commits although the closure called force_rollback.
CommitIgnoresRollback ==
    /\ phase = "ok"
    /\ ~readonly
    /\ db' = child
    /\ disk' = mem
    /\ lastPos' = Sizes(mem)
    /\ acc' = extAcc
    /\ phase' = "idle"
    /\ UNCHANGED <<blocks, mem, extAcc, child, extHead, rollback, readonly>>

\* The driver commits the child batch, syncs every backend, advances the
\* handles' last_pos and replaces the accumulator.
Commit ==
    /\ phase = "ok"
    /\ ~rollback /\ ~readonly
    /\ db' = child
    /\ disk' = mem
    /\ lastPos' = Sizes(mem)
    /\ acc' = extAcc
    /\ phase' = "idle"
    /\ UNCHANGED <<blocks, mem, extAcc, child, extHead, rollback, readonly>>

Next ==
    \/ BeginExtending
    \/ BeginReadonly
    \/ \E body \in Bodies : ApplyNewBlock(body)
    \/ \E id \in DOMAIN blocks : ApplyKnownBlock(id)
    \/ \E t \in DOMAIN blocks : RewindTo(t)
    \/ ValidateRoots
    \/ ValidateSizes
    \/ ForceRollback
    \/ ClosureOk
    \/ ClosureErr
    \/ Discard
    \/ DiscardReadonly
    \/ Commit

Spec == Init /\ [][Next]_vars

-----------------------------------------------------------------------------
(* Properties.  "Settled" states are those in which the extension's view   *)
(* is meaningful: the closure is running or has returned Ok.               *)

Settled == phase \in {"open", "ok"}

TypeOK ==
    /\ \A b \in DOMAIN blocks : blocks[b].height \in Heights
    /\ \A m \in {disk, mem} :
         /\ \A k \in {"out", "rp"} : m[k].elems \in Seq(Commits) /\ m[k].leafset \subseteq Pos
         /\ \A k \in {"tout", "trp"} : m[k].elems \in Seq(Commits) /\ m[k].leafset \subseteq TPos
         /\ m.tiss.elems \in Seq(TokenTypes)
         /\ m.ker \in Nat /\ m.tker \in Nat
    /\ \A x \in {db, child} :
         /\ x.idx \in [Commits -> CommitPos \cup {Nil}]
         /\ x.tidx \in [Commits -> TCommitPos \cup {Nil}]
         /\ x.tissIdx \in [TokenTypes -> TPos \cup {Nil}]
         /\ DOMAIN x.spent \subseteq BlockIds /\ DOMAIN x.tspent \subseteq BlockIds
         /\ DOMAIN x.bitmap \subseteq BlockIds /\ DOMAIN x.tbitmap \subseteq BlockIds
         /\ \A b \in DOMAIN x.spent : x.spent[b] \in Seq(CommitPos)
         /\ \A b \in DOMAIN x.tspent : x.tspent[b] \in Seq(TCommitPos)
         /\ x.head \in BlockIds
    /\ phase \in {"idle", "open", "ok", "err"}
    /\ rollback \in BOOLEAN /\ readonly \in BOOLEAN

(* Spec invariant 1 / property 2: apply_output, apply_input and            *)
(* rewind_mmrs_to_pos keep the rangeproof MMR leaf-for-leaf in step with   *)
(* the output MMR: same positions, same proofs, same unpruned leaves, both *)
(* in the backends' working state and in the synced files; and the same   *)
(* for the token rangeproof and token output MMRs.                        *)
RproofPaired ==
    \A m \in {disk, mem} : m.rp = m.out /\ m.trp = m.tout

(* Spec properties 1 and 4: the MMRs an extension holds are exactly the    *)
(* UTXO state obtained by replaying its chain from genesis, however it got *)
(* there (apply_block, rewind over several blocks, re-apply after a        *)
(* fork); after a commit the synced MMRs are that of the committed head.   *)
(* For tokens this includes the issue-proof MMR holding each issued token  *)
(* type once (DuplicateTokenKey), whatever stale issue index entries       *)
(* rewinds leave behind.                                                   *)
StateMatchesChain ==
    LET Matches(m, h) ==
            LET u == Replay(h)
            IN  /\ u.ok
                /\ m.out.elems = u.elems
                /\ m.out.leafset = u.unspent
                /\ m.ker = u.ker
                /\ m.tout.elems = u.tok.elems
                /\ m.tout.leafset = u.tok.unspent
                /\ m.tiss.elems = u.tok.issued
                /\ m.tker = u.tok.ker
    IN  /\ Settled => Matches(mem, extHead)
        /\ phase = "idle" => Matches(disk, db.head)

(* The commitment index is complete: get_unspent finds every unspent       *)
(* output at its position and with the height of the block that created    *)
(* it, after any sequence of apply_block and rewind (rewind_single_block   *)
(* must undo the index writes of the blocks it rewinds, in reverse).       *)
IndexComplete ==
    LET Complete(m, x, h) ==
            /\ \A p \in m.out.leafset :
                  GetUnspent(x.idx, m.out, m.out.elems[p]) = [pos |-> p, height |-> CreatedAt(h, p)]
            /\ \A p \in m.tout.leafset :
                  GetTokenUnspent(x.tidx, m.tout, m.tout.elems[p])
                      = [pos |-> p, height |-> TokenCreatedAt(h, p)]
    IN  /\ Settled => Complete(mem, child, extHead)
        /\ phase = "idle" => Complete(disk, db, db.head)

(* Spec invariant 6 / property 3: the bitmap accumulator marks exactly the *)
(* unspent output leaves, for the extension's clone after every            *)
(* apply_block and rewind and for the TxHashSet's copy after a commit.     *)
AccumulatorInSync ==
    /\ Settled => extAcc = AccInit(mem.out)
    /\ phase = "idle" => acc = AccInit(disk.out)

(* Every stored block applies again without error on top of its parent:   *)
(* after any rewinds and forks, the duplicate-commitment and               *)
(* duplicate-issue checks, which read possibly stale index entries         *)
(* (rewind never deletes an issue index entry), never refuse a block the   *)
(* chain already accepted on that parent.                                  *)
KnownBlocksReapply ==
    phase = "open" =>
        \A id \in DOMAIN blocks \ {Genesis} :
            blocks[id].parent = extHead => ~ApplyBlock(ExtView, blocks[id], id).err

(* Spec property 6: once the driver has returned, no backend holds         *)
(* changes that were neither synced nor discarded, and every handle's      *)
(* last_pos is its backend's size.                                         *)
NoBufferedStateWhenIdle ==
    phase = "idle" => (mem = disk /\ lastPos = Sizes(disk))


-----------------------------------------------------------------------------
(* Refinement.  The ledger an MMR state holds is the set of commitments at *)
(* its unpruned leaves; the chain of a head is the contents of the blocks  *)
(* on its path.  The committed ledger is that of the synced files and the *)
(* body head, the work that of the backends' working state and            *)
(* Extension.head.                                                         *)

UtxoOf(m) == [utxo |-> {m.out.elems[p] : p \in m.out.leafset},
              tutxo |-> {m.tout.elems[p] : p \in m.tout.leafset},
              issued |-> Range(m.tiss.elems), ker |-> m.ker, tker |-> m.tker,
              ok |-> TRUE]

Body(b) == [outputs |-> b.outputs, inputs |-> b.inputs, kernels |-> b.kernels,
            tokenOutputs |-> b.tokenOutputs, tokenInputs |-> b.tokenInputs,
            tokenKernels |-> b.tokenKernels]

ChainOf(h) == [i \in DOMAIN Path(h) |-> Body(blocks[Path(h)[i]])]

Ledger == INSTANCE UtxoLedger WITH
              GenesisBody <- Body(GenesisBlock),
              Blocks <- {Body(NewBlock(Genesis, 0, bd)) : bd \in Bodies},
              ledger <- UtxoOf(disk), chain <- ChainOf(db.head),
              work <- UtxoOf(mem), wchain <- ChainOf(extHead),
              status <- phase, rollback <- rollback, readonly <- readonly

(* Spec sections 1-2: the engine implements the UTXO ledger.  Every        *)
(* apply_block that succeeds is a valid block applied to the working set,  *)
(* every rewind returns it to the set of a prefix of its chain, and the    *)
(* committed set changes only when `extending` commits a closure that      *)
(* returned Ok without force_rollback, never inside extending_readonly; a  *)
(* closure that returned Ok without force_rollback is never discarded.    *)
LedgerRefinement == Ledger!Spec

=============================================================================
