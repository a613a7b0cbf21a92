----------------------------- MODULE HeaderChain -----------------------------
(***************************************************************************)
(* What the header MMR promises the header pipeline: a committed chain of  *)
(* headers, each the child of the one before it and genesis first, and    *)
(* units of work on a copy of it that extend it by a child of its last    *)
(* header or cut it back to a non-empty prefix.  The work becomes the     *)
(* committed chain when it returns Ok without a rollback; otherwise it is *)
(* dropped.                                                                *)
(***************************************************************************)
EXTENDS Sequences, SequencesExt

CONSTANTS Headers, Parent, HGenesis

VARIABLES
    chain,    \* the committed chain
    wchain,   \* the chain of the unit of work
    status,   \* "idle" | "open" | "ok" | "err"
    rollback  \* the unit of work asked to be rolled back

cvars == <<chain, wchain, status, rollback>>

\* h may follow the chain ch.
Extends(ch, h) ==
    IF ch = <<>> THEN h = HGenesis ELSE h # HGenesis /\ Parent[h] = Last(ch)

Init ==
    /\ chain = <<>>
    /\ wchain = <<>>
    /\ status = "idle"
    /\ rollback = FALSE

Begin ==
    /\ status = "idle"
    /\ status' = "open"
    /\ wchain' = chain
    /\ rollback' = FALSE
    /\ UNCHANGED chain

Push(h) ==
    /\ status = "open"
    /\ Extends(wchain, h)
    /\ wchain' = Append(wchain, h)
    /\ UNCHANGED <<chain, status, rollback>>

CutBack(k) ==
    /\ status = "open"
    /\ wchain' = SubSeq(wchain, 1, k)
    /\ UNCHANGED <<chain, status, rollback>>

ForceRollback ==
    /\ status = "open"
    /\ rollback' = TRUE
    /\ UNCHANGED <<chain, wchain, status>>

Finish ==
    /\ status = "open"
    /\ status' = "ok"
    /\ UNCHANGED <<chain, wchain, rollback>>

Fail ==
    /\ status = "open"
    /\ status' = "err"
    /\ UNCHANGED <<chain, wchain, rollback>>

Commit ==
    /\ status = "ok" /\ ~rollback
    /\ chain' = wchain
    /\ status' = "idle"
    /\ UNCHANGED <<wchain, rollback>>

Drop ==
    /\ status = "err" \/ (status = "ok" /\ rollback)
    /\ status' = "idle"
    /\ wchain' = chain
    /\ UNCHANGED <<chain, rollback>>

Next ==
    \/ Begin
    \/ \E h \in Headers : Push(h)
    \/ \E k \in 1..Len(wchain) : CutBack(k)
    \/ ForceRollback
    \/ Finish
    \/ Fail
    \/ Commit
    \/ Drop

Spec == Init /\ [][Next]_cvars
=============================================================================
