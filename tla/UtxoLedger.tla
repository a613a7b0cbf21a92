----------------------------- MODULE UtxoLedger -----------------------------
(***************************************************************************)
(* What the txhashset engine promises its callers (spec sections 1-2), as  *)
(* a UTXO ledger with units of work, free of MMRs, positions and indexes. *)
(*                                                                         *)
(* The committed ledger is the result of a chain of blocks.  A unit of     *)
(* work starts from it; inside it a block applies when its outputs are     *)
(* not unspent, its inputs are, and a token issue's type was never issued  *)
(* on the chain; the work can also go back to any prefix of its chain.     *)
(* When the work returns Ok, was not rolled back and is not read-only, it  *)
(* becomes the committed ledger; in every other case it is dropped.       *)
(***************************************************************************)
EXTENDS Naturals, Sequences, SequencesExt

CONSTANTS
    GenesisBody,  \* the genesis block's contents
    Blocks        \* the block contents a unit of work may apply

VARIABLES
    ledger,   \* the committed ledger
    chain,    \* the blocks it results from, genesis first
    work,     \* the ledger of the unit of work
    wchain,   \* the blocks that one results from
    status,   \* "idle" | "open" | "ok" (returned Ok) | "err" (failed)
    rollback, \* the unit of work asked to be rolled back
    readonly  \* the unit of work is read-only

lvars == <<ledger, chain, work, wchain, status, rollback, readonly>>

\* A ledger: unspent commitments, unspent token commitments, the token
\* types ever issued, the kernel counts; ok is FALSE once a rule is broken.
EmptyLedger == [utxo |-> {}, tutxo |-> {}, issued |-> {}, ker |-> 0, tker |-> 0,
                ok |-> TRUE]

Refuse(u) == [u EXCEPT !.ok = FALSE]

Create(u, c) == IF c \in u.utxo THEN Refuse(u) ELSE [u EXCEPT !.utxo = @ \cup {c}]

Spend(u, c) == IF c \in u.utxo THEN [u EXCEPT !.utxo = @ \ {c}] ELSE Refuse(u)

CreateToken(u, o) ==
    IF o.commit \in u.tutxo \/ (o.issue /\ o.type \in u.issued) THEN Refuse(u)
    ELSE [u EXCEPT !.tutxo = @ \cup {o.commit},
                   !.issued = IF o.issue THEN @ \cup {o.type} ELSE @]

SpendToken(u, c) == IF c \in u.tutxo THEN [u EXCEPT !.tutxo = @ \ {c}] ELSE Refuse(u)

Apply(u, b) ==
    LET u1 == FoldLeft(Create, u, b.outputs)
        u2 == FoldLeft(Spend, u1, b.inputs)
        u3 == FoldLeft(CreateToken, u2, b.tokenOutputs)
        u4 == FoldLeft(SpendToken, u3, b.tokenInputs)
    IN  [u4 EXCEPT !.ker = @ + b.kernels, !.tker = @ + b.tokenKernels]

LedgerOf(ch) == FoldLeft(Apply, EmptyLedger, ch)

-----------------------------------------------------------------------------
Init ==
    /\ chain = <<GenesisBody>>
    /\ ledger = LedgerOf(chain)
    /\ wchain = chain
    /\ work = ledger
    /\ status = "idle"
    /\ rollback = FALSE
    /\ readonly = FALSE

Begin(ro) ==
    /\ status = "idle"
    /\ status' = "open"
    /\ work' = ledger /\ wchain' = chain
    /\ rollback' = FALSE /\ readonly' = ro
    /\ UNCHANGED <<ledger, chain>>

ApplyBlock(b) ==
    /\ status = "open"
    /\ Apply(work, b).ok
    /\ work' = Apply(work, b)
    /\ wchain' = Append(wchain, b)
    /\ UNCHANGED <<ledger, chain, status, rollback, readonly>>

Rewind(k) ==
    /\ status = "open"
    /\ wchain' = SubSeq(wchain, 1, k)
    /\ work' = LedgerOf(wchain')
    /\ UNCHANGED <<ledger, chain, status, rollback, readonly>>

ForceRollback ==
    /\ status = "open"
    /\ rollback' = TRUE
    /\ UNCHANGED <<ledger, chain, work, wchain, status, readonly>>

Finish ==
    /\ status = "open"
    /\ status' = "ok"
    /\ UNCHANGED <<ledger, chain, work, wchain, rollback, readonly>>

\* A failed unit of work: what it holds is unspecified until it is dropped.
Fail ==
    /\ status = "open"
    /\ status' = "err"
    /\ UNCHANGED <<ledger, chain, rollback, readonly>>

Commit ==
    /\ status = "ok" /\ ~rollback /\ ~readonly
    /\ ledger' = work /\ chain' = wchain
    /\ status' = "idle"
    /\ UNCHANGED <<work, wchain, rollback, readonly>>

Drop ==
    /\ \/ status = "err"
       \/ status = "ok" /\ (rollback \/ readonly)
    /\ status' = "idle"
    /\ work' = ledger /\ wchain' = chain
    /\ UNCHANGED <<ledger, chain, rollback, readonly>>

Next ==
    \/ \E ro \in BOOLEAN : Begin(ro)
    \/ \E b \in Blocks : ApplyBlock(b)
    \/ \E k \in 1..Len(wchain) : Rewind(k)
    \/ ForceRollback
    \/ Finish
    \/ Fail
    \/ Commit
    \/ Drop

Spec == Init /\ [][Next]_lvars
=============================================================================
