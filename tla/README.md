# TLA+ model of the vcash txhashset engine

This directory models `src/chain/src/txhashset/txhashset.rs` and checks it
with TLC. That file is the transactional UTXO-set engine of vcash, a Grin
derivative with tokens. `PROJECT.json` records the machine-readable parts of
the project:

- the components and their status;
- the runs;
- a mutant for every property of a passing run;
- the map from every definition to the source lines it models;
- the findings;
- the hazards.

## 1. The system

### Its parts and how they interact

| Part | State | Operations (source lines) |
|---|---|---|
| `PMMRHandle` | a backend plus `last_pos` | `new` (79-137) |
| PMMR backend (outside this file) | data, hash and leaf-set files, unsynced changes | push, prune, rewind, get_data, sync, discard, check_compact |
| Bitmap accumulator (outside this file) | one bitmap chunk per 1024 output leaves | `init`, `apply`, `root` |
| `TxHashSet` | seven handles (output, rangeproof, kernel, token output, token rangeproof, token issue proof, token kernel), the commitment indexes in the store, the accumulator | `open`, `get_unspent`, `find_kernel` / `find_token_kernel` (450-496), `compact` (568-605), `init_output_pos_index` (609-689), `init_token_output_pos_index` (694-769) |
| `Extension` | `PMMR` views over the seven backends, the child batch, the accumulator clone, `head`, `rollback` | `apply_block` (1358-1418) with `apply_output`, `apply_input`, `apply_token_output` / `apply_token_issue_output` / `apply_token_input` (1464-1610), `apply_kernel`; `rewind` (1692-1739), `rewind_single_block` (1741-1848), `rewind_mmrs_to_pos`, `validate_roots`, `validate_sizes`, the verify loops (2115-2250) |
| `HeaderExtension` | the header MMR and its head | `apply_header`, `rewind`, `is_on_current_chain`, `validate_root` |
| Drivers | — | `extending_readonly`, `extending` (913-1017), `header_extending` |
| Snapshot and zip | files | `snapshot`, `zip_read`, `zip_write`, `txhashset_replace`, `file_list` |

A caller, such as the chain pipeline, opens an `Extension` through
`extending`. The Extension works on three things:

- a child batch of the caller's batch;
- a clone of the accumulator;
- the backends themselves, which buffer every push, prune and rewind until
  `sync`.

The closure applies blocks, rewinds, and validates roots and sizes. What the
driver does next depends on how the closure ends:

- **Ok, and not rolled back:** the driver commits the child batch into the
  caller's batch, then syncs the backends in this order:
  1. output, rangeproof, kernel;
  2. sets those three handles' `last_pos`;
  3. the four token backends;
  4. sets the token handles' `last_pos`;
  5. installs the accumulator clone.
- **Err or rollback:** the driver discards the child batch and every
  backend's buffered changes.

The caller's batch only becomes durable when the caller commits it, after
`extending` has returned.

There are two commitment indexes, `output_pos` and the token output index.
Each maps a commitment to its position and height. Both are advisory:
`get_unspent` and `apply_input` check an entry against the MMR before they
trust it. The issue index maps a token type to its issue proof, and
`apply_token_issue_output` refuses a second issue of a type.

The spent indexes record, for each block, the entries its inputs removed.
`rewind_single_block` uses them to put those entries back. For a block
without a spent index, it falls back to the legacy per-block input bitmap.
That bitmap is data written by older versions.

`compact` walks the headers down to the horizon and OR-s the blocks' input
bitmaps into a "do not remove" set. It then removes the pruned leaves below
each backend's cutoff.

## 2. Modules

| Module | Models | Lines of TLA+ |
|---|---|---|
| `UtxoLedger.tla` | the abstract specification of the engine: a UTXO ledger with units of work | 127 |
| `TxHashSet.tla` | the seven MMRs, the indexes, the accumulator, `apply_block`, `rewind`, the validations, `get_unspent` / `get_token_unspent`, `extending` and `extending_readonly`, and the refinement mapping onto `UtxoLedger` | 766 |
| `TxHashSetFaults.tla` | the commit path of `extending`, one backend sync at a time, with a sync that fails and a crash followed by `open` | 185 |
| `Compaction.tla` | `compact`, `input_pos_to_rewind` and `token_input_pos_to_rewind`, interleaved with the extension | 144 |
| `IndexRebuild.tla` | `init_output_pos_index` and `init_token_output_pos_index`, run on any state the extension reaches | 135 |
| `LegacyData.tla` | the extension starting from a store whose block 1 was applied by an older version (an input bitmap, no spent index) | 39 |
| `HeaderChain.tla` | the abstract specification of the header MMR: a chain of headers with units of work | 88 |
| `HeaderMMR.tla` | the header MMR, `header_extending` and `HeaderExtension`, and the refinement mapping onto `HeaderChain` | 242 |
| `ValidationLoops.tla` | the position-walking loops `find_kernel`, `find_token_kernel`, and the batching in `verify_kernel_signatures`, `verify_token_kernel_signatures`, `verify_rangeproofs` and `verify_token_rangeproofs` | 242 |

Each `MC_*.tla` module gives the model values and the symmetry set for its
module. Each `.cfg` sets the bounds.

### `TxHashSet.tla`

**Abstractions**

- An MMR position is a leaf number. The leaf-to-position map is monotone, so
  every comparison the code makes between positions and header sizes is
  preserved.
- A rangeproof leaf is the commitment it proves.
- The kernel MMRs are their sizes.
- A root is the sequence of elements ever appended, so two roots are equal
  exactly when their MMRs are.
- A token output is a record of commitment, type, and whether it is an
  issue.
- The backend and accumulator operators (`MmrPush`, `MmrRewind`, `GetData`,
  `AccApply`) model code outside this file. They are marked `spec_modelled`
  in the map.

**State**

| Variable | Code |
|---|---|
| `disk` | the synced backend files |
| `mem` | the backends including unsynced changes (what `PMMR::at` sees) |
| `lastPos` | the handles' `last_pos` |
| `acc`, `extAcc` | the accumulator and the Extension's clone of it |
| `db` | the caller's batch |
| `child` | the child batch |
| `extHead`, `phase`, `rollback`, `readonly` | where the extension and its driver are |
| `blocks` | the chain store: every block ever accepted, with its header sizes and roots |

The batches (`db` and `child`) hold:

- the commitment index, the token index and the issue index;
- the spent index and the token spent index;
- the legacy `bitmap` and `tbitmap`;
- the body head.

**Actions**

| Action | Code |
|---|---|
| `BeginExtending`, `BeginReadonly` | the drivers building the Extension |
| `ApplyNewBlock(body)` | `apply_block` of a new block on the head, which also records its header |
| `ApplyKnownBlock(id)` | `apply_block` of a stored block whose parent is the head |
| `RewindTo(t)` | `rewind` |
| `ValidateRoots`, `ValidateSizes` | the two checks against the head's header |
| `ForceRollback` | `force_rollback` |
| `ClosureOk`, `ClosureErr` | the closure's result |
| `Commit` | the Ok path of `extending` |
| `Discard`, `DiscardReadonly` | the discard paths |

`ApplyBlock` folds the handlers in the code's order:

1. outputs;
2. inputs;
3. token outputs, where an issue goes through `ApplyTokenIssueOutput`;
4. token inputs;
5. kernels;
6. the spent indexes and the head;
7. `ApplyToBitmapAccumulator`.

The fold stops at the first error, which sets `phase` to `err`.

`Rewind` chooses between two branches:

- If the head is at or below the target, it truncates to the header's
  sizes.
- Otherwise it runs `RewindBlocks`, a recursive `RewindSingleBlock`.

`RewindSingleBlock` works as follows:

- It reads the spent positions from the spent index, or from the legacy
  bitmap when there is no spent index (`SpentPos`, `TokenSpentPos`).
- It truncates every MMR to the parent's sizes (`PrevSizes`).
- It re-inserts the spent entries (`RestoreIndex`, `RestoreTokenIndex`).

`Replay(b)`, `CreatedAt` and `TokenCreatedAt` are the reference semantics.
They fold an abstract UTXO ledger along the chain to `b`.

### `UtxoLedger.tla` and the refinement

`UtxoLedger` is what the engine promises its callers, with no MMRs,
positions or indexes. Its state is:

- the committed ledger and the chain of blocks it results from;
- the ledger and chain of the unit of work;
- the unit of work's status, and its rollback and read-only flags.

A ledger is a set of unspent commitments, a set of unspent token
commitments, the token types ever issued, and the kernel counts. Its
actions are:

- `ApplyBlock(b)`: the block's outputs are not unspent, its inputs are,
  and no issue repeats a type;
- `Rewind(k)`: back to the ledger of a prefix of the chain;
- `ForceRollback`, `Finish`, `Fail`;
- `Commit`: only from Ok, without rollback, and not read-only;
- `Drop`: from Err, or from Ok with rollback or read-only.

`TxHashSet` maps onto it through `Ledger == INSTANCE UtxoLedger WITH ...`:

- the committed ledger is `UtxoOf(disk)`, the commitments at the unpruned
  leaves of the synced files;
- the work is `UtxoOf(mem)`;
- the chains are the block contents along `Path(db.head)` and
  `Path(extHead)`;
- the status and the flags are `phase`, `rollback` and `readonly`.

`LedgerRefinement == Ledger!Spec` is checked as a `PROPERTY`. The mapping
reads the MMR contents, not the ghost chain, so every engine step must
transform the MMR data as the abstract ledger does. It also states a rule
that no state invariant can: the committed data changes only at a commit
the closure earned. A `Commit` that ignores `force_rollback` passes through
states that are each consistent, and only the refinement rejects it.

### `TxHashSetFaults.tla`

This module extends `TxHashSet`. It replaces the one-step `Commit` with the
code's steps:

- `CommitBatch` (991);
- `SyncBackend`, one per backend in `SyncOrder` (992-1001). It sets the
  three base `last_pos` after the third sync (995-997).
- `FinishCommit` (1002-1011).

It adds these faults:

- `SyncError`: a sync that returns `Err`, so `?` leaves `extending`.
- `Crash`: a crash that loses everything not durable.
- `Reopen`: `TxHashSet::open`, which takes `last_pos` from the file sizes.

`CallerCommit` makes the caller's batch durable in `store`.

### `Compaction.tla`

`Compact(hz)` does the following:

- It builds the rewind bitmaps (`InputPosToRewind`,
  `TokenInputPosToRewind`).
- It removes from each backend's data the pruned leaves below its cutoff
  that are not in the bitmap. The cutoffs are the horizon header's output
  size for `out` and `rp`, its token output size for `tout`, and its issue
  proof size for `trp` (line 597).

`compacted` records what is gone for good. The block input bitmap that
`input_pos_to_rewind` reads (line 2499) comes from the chain store, which
is outside `src/`. The comment at 2489 calls it each block's cached input
bitmap. The model takes it to be the positions in the spent index that
`apply_block` saves for the block (1383). It is `spec_modelled` in the
map.

### `IndexRebuild.tla`

`RebuildPosIndex(idx, out, head, size)` is the algorithm both rebuilds
share:

1. Remove stale entries.
2. Queue the unspent leaves that have no entry.
3. Walk the headers from height 1 and save each queued output within the
   header's size (`AssignHeights`).

`InitOutputPosIndex` uses it with `output_mmr_size`, and
`InitTokenOutputPosIndex` with `token_output_mmr_size`. Two actions run a
rebuild at any idle state the extension reaches.

### `LegacyData.tla`

`LInit` starts from genesis plus one block. That block was applied with the
same MMRs and index as `apply_block` produces, but its spends are recorded
as input bitmaps and it has no spent index. The extension then runs
unchanged.

### `HeaderMMR.tla`

Headers form a fixed tree (`Parent`). The header MMR is a sequence of
headers. The module has:

- actions for `apply_header` (after `validate_root`), `rewind`,
  `force_rollback`, and the commit and discard paths of `header_extending`;
- `IsOnCurrentChain`, `GetHeaderByHeight` and `HeadHash` as operators.

`HeaderChain` is its abstract specification. It has a committed chain of
headers, each the child of the previous one with genesis first, and units
of work that push a child of the last header or cut back to a non-empty
prefix. Their commit and drop rules are those of `UtxoLedger`.

`HChain == INSTANCE HeaderChain WITH ...` maps the committed chain to
`HandleView(hdisk, hlastPos)`, which is what `PMMR::at(backend, last_pos)`
shows of the synced file. The work maps to the working backend `hmem`.
`HeaderChainRefinement` is checked as a `PROPERTY`.

### `ValidationLoops.tla`

This module uses real MMR positions, with parents included.
`FindKernel(ks, lastPos, e, min, max)`, `VerifyKernelSignatures` and
`VerifyRangeproofs` translate the loops. The token variants are the same
loops over the token MMRs. The state machine only grows the
MMRs, so the operators are checked against reference definitions
(`LatestKernelPos`, and "every leaf verified exactly once") on every MMR up
to the bounds.

## 3. Runs

The times are for two workers.

| Run | Module / cfg | Expect | Properties | States, time |
|---|---|---|---|---|
| `txhashset_core` | `MC_TxHashSet.cfg` | pass | `TypeOK`, `RproofPaired`, `StateMatchesChain`, `IndexComplete`, `AccumulatorInSync`, `NoBufferedStateWhenIdle` | 616k, ~50 s |
| `token_txhashset` | `MC_TokenTxHashSet.cfg` | pass | `RproofPaired`, `StateMatchesChain`, `IndexComplete`, `KnownBlocksReapply`, `LedgerRefinement`, `RebuildRestoresTokenIndex` | 78k, ~1.5 min |
| `compaction_legacy_bitmaps` | `MC_Compaction_legacy.cfg` | pass | `CompactedNeverUnspent` | 977k, ~90 s |
| `token_rproof_compaction_horizon` | `MC_Compaction_token_rproof.cfg` | violation | `TokenRproofCompactedWithOutputs` | — |
| `index_rebuild` | `MC_IndexRebuild.cfg` | pass | `RebuildRestoresIndex` | 61k, ~15 s |
| `index_rebuild_genesis_outputs` | `MC_IndexRebuild_genesis.cfg` | violation | `RebuildRestoresIndex` | — |
| `header_mmr` | `MC_HeaderMMR.cfg` | pass | `HTypeOK`, `HeaderMMRIsChain`, `OnCurrentChainIsAncestry`, `HeadHashIsCommittedHead`, `HeaderChainRefinement` | 248, <1 s |
| `validation_loops` | `MC_ValidationLoops.cfg` | pass | `TypeOK`, `FindKernelIsLatest`, `KernelsVerifiedOnce`, `RangeproofsVerifiedOnce` | 2k, ~80 s |
| `sync_error_mid_commit` | `MC_TxHashSetFaults_sync_error.cfg` | violation | `CommitOrRollback` | — |
| `crash_before_caller_commit` | `MC_TxHashSetFaults_crash.cfg` | violation | `RecoverableAfterReopen` | — |
| `legacy_bitmap_rewind` | `MC_LegacyData.cfg` | violation | `StateMatchesChain` | — |

**What the passing runs show.**

- `txhashset_core` covers every interleaving of the closure's operations
  with both drivers: new and known blocks, rewinds over one to three blocks,
  forks, spends of earlier outputs, failing blocks, forced rollbacks and
  read-only extensions. In all of them, rewind undoes `apply_block` exactly:
  the MMRs, the index, the spent index and the accumulator. Re-applying
  after a fork gives the state a replay gives. No discard path leaves a
  buffered change.
- `token_txhashset` shows the same for the token MMRs and indexes, with two
  token types. A stored block whose parent is the head re-applies after any
  rewind or fork (`KnownBlocksReapply`). This matters because
  `apply_token_issue_output`'s duplicate check reads an issue index that
  rewind never cleans. Every step is also a step of `UtxoLedger`
  (`LedgerRefinement`). The refinement is checked on this instance, not on
  `txhashset_core`: on the three-block instance it takes five minutes. This
  instance has both plain and issue token outputs, read-only extensions
  and forced rollbacks. The instance runs `IndexRebuild`'s `RSpec`, so
  `init_token_output_pos_index` may also run on any state at rest. From
  any token index with stale or missing entries, it rebuilds the one
  `apply_block` wrote (`RebuildRestoresTokenIndex`).
- `compaction_legacy_bitmaps` shows that, with each block's input bitmap
  holding the positions it spent,
  `compact` never removes a leaf that a later rewind above the horizon
  un-prunes. This holds for base and token outputs.
- `index_rebuild` shows that `init_output_pos_index`, run on any state at
  rest, restores the index `apply_block` built. The instance has forks of
  up to two blocks, each with up to two outputs and one input. It has no
  token outputs: the token rebuild is checked on `token_txhashset`. Together
  the two properties were a 1.5M-state instance; split this way, they take
  under two minutes. Genesis outputs are excluded; see the findings.
- `header_mmr` shows that the header MMR is always the head's chain,
  `is_on_current_chain` decides ancestry, and `head_hash` is the last
  committed head. Every step is a step of `HeaderChain`
  (`HeaderChainRefinement`).
- `validation_loops` checks three things. `find_kernel` returns the latest
  matching position in `[min, max]`, for every `last_pos` of an earlier
  size of the MMR, so later kernels are present but out of view. Each
  batching loop verifies every kernel and rangeproof exactly once. Every
  kernel batch but the last is full, and the progress reports are the
  running counts. With batches of three, four kernels (MMR size 7) flush
  their last partial batch `[5]` at parent position 7, through the
  `n >= size` test alone. Six kernels (size 10) flush a full batch at
  leaf 9 and then an empty batch at position 10, which the code does.

Every property of a passing run has a mutant in `PROJECT.json`: a
plausible bug in the mapped definition that TLC catches under the run's own
cfg.

**Findings (the violation runs).**

- **991, `crash_before_caller_commit`.** The backends are synced before the
  caller commits the index writes. A crash in between reopens with MMR
  files one block ahead of the store's head. Rewinding to that head takes
  the "head at or below target" branch, which truncates with an empty
  bitmap. The lost block's spends then stay pruned. Spec section 6 says the
  database is the durability anchor.
- **992 / 998, `sync_error_mid_commit`.** A failing sync leaves `extending`
  through `?` after the batch commit. Earlier backends are synced and later
  ones keep changes that were neither synced nor discarded. When a token
  sync fails, the base handles' `last_pos` (set at 995-997) are at the new
  block and the token handles' are at the old one. Spec sections 2 and 9
  ask for commit-or-rollback and one `last_pos` assignment after all syncs.
  TLC's shortest trace shows the base case; the token case is reachable
  too.
- **597, `token_rproof_compaction_horizon`.** `compact` gives the token
  rangeproof backend the issue-proof MMR's size as its cutoff, not the
  token output size. The token rangeproofs are therefore compacted
  differently from the token outputs they pair with.
- **670, `index_rebuild_genesis_outputs`.** `init_output_pos_index` walks
  headers from height 1. Genesis outputs are saved with height 1, or not at
  all when the head is genesis. `apply_block` gave them height 0.
- **1832, `legacy_bitmap_rewind`.** Rewinding a block stored with an input
  bitmap un-prunes its spent outputs but re-inserts no index entry (`if let
  Ok(spent)`). A fork block can then output the same commitment again,
  because `apply_output`'s duplicate check finds no entry. The UTXO set then
  holds it twice.

**Why the bounds are enough**

- **Three blocks** give a chain of depth three, a two-block rewind and a
  fork. Two blocks suffice for the token, compaction, rebuild and fault
  runs: one block to rewind and one to fork onto.
- **Two commitments** let an output be created, spent and created again.
  This exercises the duplicate check against a pruned entry.
- **One output, one input and one token output per block** is enough.
  Spending happens across blocks. A block is applied as a unit, so same-block
  spends only reorder one fold. The rebuild run allows two outputs per
  block, so the height search must tell apart two positions under the same
  header size.
- **A chunk size of 2** puts leaves in different accumulator chunks.
- **Two kernel excesses, six kernels and kernel batches of three** make
  two things happen. A partial final batch is flushed at a parent
  position (four kernels). An empty final flush follows a full batch
  (six kernels). With batches of two, a non-empty final batch always ends
  on a leaf.

**Fairness.** None, and no liveness property is checked. The code is a
library called on demand. Nothing in it schedules a step, and nothing
obliges a caller to take one.

The only progress the code itself guarantees is that a driver returns once
its closure has returned. That is straight-line code, so in the model a
driver state with no way out is a deadlock. Every passing run checks for
deadlock, which covers this.

## 4. Not modelled, and the plan

- **Left out for good:**
  - snapshot, zip and file-list I/O, which is pure file manipulation;
  - the cryptography (signature and rangeproof verification, kernel sums),
    which appears only as the loops that call it.
- **Partly modelled:**
  - `TxHashSet::open`, which is modelled only as `Reopen` (file sizes to
    `last_pos`);
  - the backend and accumulator, which are modelled from the spec.
- **Read-only views.** `utxo_view` and `rewindable_kernel_view` build
  read-only PMMRs at `last_pos` and a batch that is dropped. They change no
  state, so they are no action. What they read after a failed sync is part
  of the 992 finding.
- **Not composed.** The header extension that `extending` opens beside the
  txhashset extension is always discarded (line 965), so it is not
  composed with `TxHashSet`.
