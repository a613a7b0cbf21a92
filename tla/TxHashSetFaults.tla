--------------------------- MODULE TxHashSetFaults ---------------------------
(***************************************************************************)
(* The commit path of `extending` (txhashset.rs 989-1017) step by step,    *)
(* with the faults it meets: a backend sync() that returns an error, and a *)
(* crash of the process followed by TxHashSet::open.                       *)
(*                                                                         *)
(* child_batch.commit() commits into the caller's batch (db); that batch   *)
(* only becomes durable when the caller commits it after `extending` has   *)
(* returned.  The durable key/value store is `store`.  A crash loses every *)
(* in-memory value: the caller's batch, the backends' unsynced changes,    *)
(* the handles' last_pos and the accumulator.                              *)
(***************************************************************************)
EXTENDS TxHashSet

CONSTANTS
    Faults,      \* subset of {"sync_error", "crash"}
    MaxCrashes   \* bound on crashes in one behaviour

VARIABLES
    store,    \* the durable chain store: [idx, spent, head]
    synced,   \* number of backends synced so far by the current commit
    crashes   \* crashes so far

fvars == <<vars, store, synced, crashes>>

\* The order of the backend sync() calls in `extending` (992-1001).
SyncOrder == <<"out", "rp", "ker", "tout", "trp", "tiss", "tker">>

\* The handles whose last_pos `extending` sets right after the third sync
\* (995-997), before the token backends are synced.
BaseBackends == {"out", "rp", "ker"}

-----------------------------------------------------------------------------
FInit ==
    /\ Init
    /\ store = db
    /\ synced = 0
    /\ crashes = 0

\* child_batch.commit()?: the index writes reach the caller's batch.
CommitBatch ==
    /\ phase = "ok"
    /\ ~rollback /\ ~readonly
    /\ db' = child
    /\ phase' = "sync"
    /\ synced' = 0
    /\ UNCHANGED <<blocks, disk, mem, lastPos, acc, extAcc, child, extHead,
                   rollback, readonly, store, crashes>>

\* The next backend's sync()? succeeds: its buffered changes reach its
\* files; after the last base backend the base handles' last_pos are set.
SyncBackend ==
    LET k == SyncOrder[synced + 1]
    IN  /\ phase = "sync"
        /\ synced < Len(SyncOrder)
        /\ disk' = [disk EXCEPT ![k] = mem[k]]
        /\ synced' = synced + 1
        /\ lastPos' = IF synced + 1 = Cardinality(BaseBackends)
                      THEN [j \in DOMAIN lastPos |->
                               IF j \in BaseBackends THEN Sizes(mem)[j] ELSE lastPos[j]]
                      ELSE lastPos
        /\ UNCHANGED <<blocks, mem, acc, extAcc, db, child, extHead,
                       phase, rollback, readonly, store, crashes>>

\* After the last sync: every handle's last_pos (the base ones again) and
\* the accumulator.
FinishCommit ==
    /\ phase = "sync"
    /\ synced = Len(SyncOrder)
    /\ lastPos' = Sizes(mem)
    /\ acc' = extAcc
    /\ phase' = "idle"
    /\ UNCHANGED <<blocks, disk, mem, extAcc, db, child, extHead, rollback,
                   readonly, store, synced, crashes>>

\* The next backend's sync()? fails: `extending` returns the error at once,
\* with the child batch already committed, earlier backends synced, later
\* ones still holding their changes, the base handles' last_pos set if the
\* three base backends were synced, the others' not, and the accumulator
\* not replaced.  The caller drops its batch on the error.
SyncError ==
    /\ "sync_error" \in Faults
    /\ phase = "sync"
    /\ synced < Len(SyncOrder)
    /\ db' = store
    /\ phase' = "idle"
    /\ UNCHANGED <<blocks, disk, mem, lastPos, acc, extAcc, child, extHead,
                   rollback, readonly, store, synced, crashes>>

\* The caller of `extending` commits its batch once extending has returned.
CallerCommit ==
    /\ phase = "idle"
    /\ db # store
    /\ store' = db
    /\ UNCHANGED <<blocks, disk, mem, lastPos, acc, extAcc, db, child, extHead,
                   phase, rollback, readonly, synced, crashes>>

\* The process dies; only the backend files and the store survive.
Crash ==
    /\ "crash" \in Faults
    /\ crashes < MaxCrashes
    /\ phase # "down"
    /\ phase' = "down"
    /\ crashes' = crashes + 1
    /\ UNCHANGED <<blocks, disk, mem, lastPos, acc, extAcc, db, child, extHead,
                   rollback, readonly, store, synced>>

\* TxHashSet::open: each handle's last_pos is its backend's unpruned size
\* on disk, the accumulator is built from the output MMR, and the caller
\* works on a fresh batch of the store.
Reopen ==
    /\ phase = "down"
    /\ mem' = disk
    /\ lastPos' = Sizes(disk)
    /\ acc' = AccInit(disk.out)
    /\ extAcc' = AccInit(disk.out)
    /\ db' = store
    /\ child' = store
    /\ extHead' = store.head
    /\ phase' = "idle"
    /\ rollback' = FALSE
    /\ readonly' = FALSE
    /\ UNCHANGED <<blocks, disk, store, synced, crashes>>

\* Every step of the base specification but its atomic Commit.
ExtensionStep ==
    /\ \/ BeginExtending
       \/ BeginReadonly
       \/ \E body \in Bodies : ApplyNewBlock(body)
       \/ \E id \in DOMAIN blocks : ApplyKnownBlock(id)
       \/ \E t \in DOMAIN blocks : RewindTo(t)
       \/ ValidateRoots
       \/ ValidateSizes
       \/ ForceRollback
       \/ ClosureOk
       \/ ClosureErr
       \/ Discard
       \/ DiscardReadonly
    /\ UNCHANGED <<store, synced, crashes>>

FNext ==
    \/ ExtensionStep
    \/ CommitBatch
    \/ SyncBackend
    \/ FinishCommit
    \/ SyncError
    \/ CallerCommit
    \/ Crash
    \/ Reopen

FSpec == FInit /\ [][FNext]_fvars

-----------------------------------------------------------------------------
(* Spec 6 (drivers): on commit the child batch is committed before the     *)
(* backends are synced, so that after a crash "recovery can reapply the    *)
(* pending extension deterministically (database is the durability         *)
(* anchor)".  Stated on TxHashSet::open: an Extension opened on the        *)
(* reopened files at the stored head and rewound to that head             *)
(* (Extension::rewind, the first step of any reapply) holds exactly the    *)
(* UTXO state of the stored chain.                                         *)
RecoverableAfterReopen ==
    [][Reopen =>
         LET w == Rewind(ExtView', store.head)
             u == Replay(store.head)
         IN  /\ w.out.elems = u.elems
             /\ w.out.leafset = u.unspent
             /\ w.ker = u.ker]_fvars

(* Spec 2 and 9 (drivers): commit-or-rollback, with no half-committed    *)
(* path.  Once `extending` has returned, no backend holds changes that    *)
(* were neither synced nor discarded, and the handles' last_pos are the   *)
(* MMR sizes of one block, so that the next Extension opens every MMR,    *)
(* base and token, at the same chain state.                                *)
CommitOrRollback ==
    phase = "idle" =>
        /\ mem = disk
        /\ \E b \in DOMAIN blocks :
              lastPos = [out |-> blocks[b].outputSize, rp |-> blocks[b].outputSize,
                         ker |-> blocks[b].kernelSize,
                         tout |-> blocks[b].tokenOutputSize,
                         trp |-> blocks[b].tokenOutputSize,
                         tiss |-> blocks[b].tokenIssueSize,
                         tker |-> blocks[b].tokenKernelSize]

=============================================================================
