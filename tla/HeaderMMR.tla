------------------------------ MODULE HeaderMMR ------------------------------
(***************************************************************************)
(* The header MMR of src/chain/src/txhashset/txhashset.rs: its handle      *)
(* (PMMRHandle<BlockHeader>::head_hash, get_header_hash_by_height), the    *)
(* `header_extending` driver and HeaderExtension (apply_header, rewind,    *)
(* is_on_current_chain, get_header_by_height, validate_root,              *)
(* force_rollback).                                                        *)
(*                                                                         *)
(* Headers form a fixed tree given by Parent.  The header MMR leaf of      *)
(* height h is at insertion index h + 1; a position is that leaf number.  *)
(* A root is the sequence of leaves, so validate_root's comparison with    *)
(* prev_root is the comparison with the sequence of the parent's chain.   *)
(*                                                                         *)
(* The closure is the header pipeline's use of the extension: a header is  *)
(* applied after validate_root accepted it, the extension is rewound to a  *)
(* header is_on_current_chain accepted, and the genesis header is applied  *)
(* to an empty header MMR only.                                            *)
(***************************************************************************)
EXTENDS Naturals, Sequences, SequencesExt

CONSTANTS
    Headers,      \* block headers
    Parent,       \* Parent[h]: the previous header of h
    HGenesis,     \* the genesis header, its own parent
    DefaultTip    \* Tip::default(): height 0 and a hash no header has

ASSUME /\ HGenesis \in Headers /\ DefaultTip \notin Headers
       /\ Parent \in [Headers -> Headers] /\ Parent[HGenesis] = HGenesis

RECURSIVE Height(_)
Height(h) == IF h = HGenesis THEN 0 ELSE Height(Parent[h]) + 1

\* The headers of the chain ending at h, by height: leaf i is height i - 1.
RECURSIVE Chain(_)
Chain(h) == IF h = HGenesis THEN <<h>> ELSE Append(Chain(Parent[h]), h)

\* header.prev_root: the header MMR root before h was appended.
PrevRoot(h) == IF h = HGenesis THEN <<>> ELSE Chain(Parent[h])

TipHeight(t) == IF t = DefaultTip THEN 0 ELSE Height(t)

VARIABLES
    hdisk,      \* header MMR backend files as of the last sync
    hmem,       \* header MMR backend including unsynced changes
    hlastPos,   \* PMMRHandle<BlockHeader>.last_pos (in leaves)
    head,       \* HeaderExtension.head
    hphase,     \* "idle" | "open" | "ok" | "err"
    hrollback,  \* HeaderExtension.rollback
    committed   \* history: the head of the last committed header extension

hvars == <<hdisk, hmem, hlastPos, head, hphase, hrollback, committed>>

-----------------------------------------------------------------------------
\* PMMR::get_data through a view of last_pos leaves (None beyond last_pos).
ViewData(m, last, pos) == IF pos \in 1..last /\ pos <= Len(m) THEN m[pos] ELSE DefaultTip

\* PMMRHandle::head_hash: the rightmost leaf of the MMR of last_pos; Err when
\* last_pos is 0, represented by DefaultTip.
HeadHash(m, last) == IF last = 0 THEN DefaultTip ELSE ViewData(m, last, last)

\* HeaderExtension::get_header_by_height: leaf height + 1, or Err.
\* Mutant: the leaf is looked up at insertion index height.
GetHeaderByHeightNoOffset(m, height) == ViewData(m, Len(m), height)

GetHeaderByHeight(m, height) == ViewData(m, Len(m), height + 1)

\* HeaderExtension::is_on_current_chain: Ok when the header is not beyond
\* the head and is the header of its height in the MMR.
IsOnCurrentChain(m, t, h) ==
    Height(h) <= TipHeight(t) /\ GetHeaderByHeight(m, Height(h)) = h

\* HeaderExtension::validate_root: skipped at genesis.
ValidateRootOk(m, h) == h = HGenesis \/ m = PrevRoot(h)

\* HeaderExtension::rewind: truncate to insertion_to_pmmr_index(height + 1).
\* Mutant: truncate to insertion index height, dropping the target itself.
HeaderRewindDropsTarget(m, h) == SubSeq(m, 1, Height(h))

HeaderRewind(m, h) == SubSeq(m, 1, Height(h) + 1)

-----------------------------------------------------------------------------
\* A fresh node: empty header MMR files.
HInit ==
    /\ hdisk = <<>>
    /\ hmem = <<>>
    /\ hlastPos = 0
    /\ head = DefaultTip
    /\ hphase = "idle"
    /\ hrollback = FALSE
    /\ committed = DefaultTip

\* header_extending: a child batch, the head from head_hash or Tip::default()
\* when the MMR is empty, and an extension over PMMR::at(backend, last_pos).
BeginHeaderExtending ==
    /\ hphase = "idle"
    /\ head' = HeadHash(hmem, hlastPos)
    /\ hphase' = "open"
    /\ hrollback' = FALSE
    /\ UNCHANGED <<hdisk, hmem, hlastPos, committed>>

\* validate_root(header)? then apply_header(header): push and advance head.
ApplyHeader(h) ==
    /\ hphase = "open"
    /\ h = HGenesis => hmem = <<>>
    /\ IF ValidateRootOk(hmem, h)
       THEN /\ hmem' = Append(hmem, h)
            /\ head' = h
            /\ UNCHANGED hphase
       ELSE /\ hphase' = "err"
            /\ UNCHANGED <<hmem, head>>
    /\ UNCHANGED <<hdisk, hlastPos, hrollback, committed>>

\* rewind(header) to a header that is_on_current_chain accepted.
RewindHeader(h) ==
    /\ hphase = "open"
    /\ IsOnCurrentChain(hmem, head, h)
    /\ hmem' = HeaderRewind(hmem, h)
    /\ head' = h
    /\ UNCHANGED <<hdisk, hlastPos, hphase, hrollback, committed>>

HForceRollback ==
    /\ hphase = "open"
    /\ hrollback' = TRUE
    /\ UNCHANGED <<hdisk, hmem, hlastPos, head, hphase, committed>>

HClosureOk ==
    /\ hphase = "open"
    /\ hphase' = "ok"
    /\ UNCHANGED <<hdisk, hmem, hlastPos, head, hrollback, committed>>

HClosureErr ==
    /\ hphase = "open"
    /\ hphase' = "err"
    /\ UNCHANGED <<hdisk, hmem, hlastPos, head, hrollback, committed>>

\* Err or rollback: handle.backend.discard().
HDiscard ==
    /\ \/ hphase = "err"
       \/ hphase = "ok" /\ hrollback
    /\ hmem' = hdisk
    /\ hphase' = "idle"
    /\ UNCHANGED <<hdisk, hlastPos, head, hrollback, committed>>

\* Ok: child_batch.commit()?, handle.backend.sync()?, last_pos = size.
\* Mutant: last_pos is left where it was.
HCommitKeepsLastPos ==
    /\ hphase = "ok" /\ ~hrollback
    /\ hdisk' = hmem
    /\ hphase' = "idle"
    /\ committed' = head
    /\ UNCHANGED <<hmem, hlastPos, head, hrollback>>

\* Mutant: last_pos is advanced without the backend being synced.
HCommitNoSync ==
    /\ hphase = "ok" /\ ~hrollback
    /\ hlastPos' = Len(hmem)
    /\ hphase' = "idle"
    /\ committed' = head
    /\ UNCHANGED <<hdisk, hmem, head, hrollback>>

\* Mutant: the Ok path commits although the closure called force_rollback.
HCommitIgnoresRollback ==
    /\ hphase = "ok"
    /\ hdisk' = hmem
    /\ hlastPos' = Len(hmem)
    /\ hphase' = "idle"
    /\ committed' = head
    /\ UNCHANGED <<hmem, head, hrollback>>

HCommit ==
    /\ hphase = "ok" /\ ~hrollback
    /\ hdisk' = hmem
    /\ hlastPos' = Len(hmem)
    /\ hphase' = "idle"
    /\ committed' = head
    /\ UNCHANGED <<hmem, head, hrollback>>

HNext ==
    \/ BeginHeaderExtending
    \/ \E h \in Headers : ApplyHeader(h)
    \/ \E h \in Headers : RewindHeader(h)
    \/ HForceRollback
    \/ HClosureOk
    \/ HClosureErr
    \/ HDiscard
    \/ HCommit

HSpec == HInit /\ [][HNext]_hvars

-----------------------------------------------------------------------------
HTypeOK ==
    /\ hdisk \in Seq(Headers) /\ hmem \in Seq(Headers)
    /\ hlastPos \in 0..Len(hdisk)
    /\ head \in Headers \cup {DefaultTip}
    /\ committed \in Headers \cup {DefaultTip}
    /\ hphase \in {"idle", "open", "ok", "err"}
    /\ hrollback \in BOOLEAN

(* While a header extension is open, after any sequence of apply_header    *)
(* and rewind (forks included), the header MMR holds at leaf h + 1 the     *)
(* header of height h on the chain of the extension's head, and nothing    *)
(* beyond the head: get_header_by_height answers for the head's chain.     *)
HeaderMMRIsChain ==
    hphase \in {"open", "ok"} =>
        hmem = IF head = DefaultTip THEN <<>> ELSE Chain(head)

(* is_on_current_chain accepts exactly the ancestors of the head (itself   *)
(* included), for every header of the tree and every state the header      *)
(* pipeline drives the extension into.                                    *)
OnCurrentChainIsAncestry ==
    hphase = "open" =>
        \A h \in Headers :
            IsOnCurrentChain(hmem, head, h)
                <=> (head # DefaultTip /\ h \in Range(Chain(head)))

(* After header_extending returns, head_hash() of the handle, which the    *)
(* next header_extending and extending start from, is the head of the last *)
(* committed extension, and no header change is left unsynced.            *)
HeadHashIsCommittedHead ==
    hphase = "idle" =>
        /\ HeadHash(hdisk, hlastPos) = committed
        /\ hmem = hdisk

-----------------------------------------------------------------------------
(* Refinement.  The committed chain is what the handle shows: the leaves   *)
(* of the synced file up to last_pos; the work is the backend's working    *)
(* state.                                                                  *)

HandleView(m, last) == [i \in 1..last |-> ViewData(m, last, i)]

HChain == INSTANCE HeaderChain WITH
              chain <- HandleView(hdisk, hlastPos), wchain <- hmem,
              status <- hphase, rollback <- hrollback

(* header_extending implements the header chain: apply_header only appends *)
(* a child of the last header (genesis only to an empty MMR), rewind only  *)
(* cuts back to a non-empty prefix, and the chain the handle shows changes *)
(* only by a commit, when the closure returned Ok without force_rollback,  *)
(* to exactly the extension's chain.                                       *)
HeaderChainRefinement == HChain!Spec

=============================================================================
