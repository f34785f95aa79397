------------------------------ MODULE Approval ------------------------------
(***************************************************************************)
(* How an approval is made.  An approver reads the card of a draft in       *)
(* several separate statements: the row with its revision, then the         *)
(* resources, then the conflicts.  Later the approver posts the revision    *)
(* and the conflicts back, and ApproveMaint re-checks both in a SERIALIZABLE *)
(* transaction that is retried on a serialization failure.  All other       *)
(* handlers of Maintenance run in between.                                  *)
(*                                                                         *)
(* PostgreSQL is modelled by what this transaction relies on:               *)
(*  - it reads from the snapshot taken by its first statement;              *)
(*  - SELECT ... FOR UPDATE waits for the row lock and fails with 40001 if   *)
(*    the row has changed since the snapshot;                               *)
(*  - inserting a conflict_snapshot row waits for the neighbour it           *)
(*    references, because the foreign key takes a KEY SHARE lock;            *)
(*  - of two concurrent serializable transactions that each missed what the *)
(*    other wrote, the second to commit fails with 40001, and any            *)
(*    transaction may fail with 40001 spuriously.                           *)
(***************************************************************************)
EXTENDS Maintenance

CONSTANTS
  Clients,      \* sessions in which a card is open
  UserOf,       \* the user of each session
  Admins,       \* users who may approve in place of the assigned approver
  MaxAttempts   \* runs of the transaction before ErrConcurrentModification

ASSUME ClientsAssumption == UserOf \in [Clients -> Users] /\ Admins \subseteq Users
ASSUME AttemptsAssumption == MaxAttempts \in Nat \ {0}

VARIABLES
  view,  \* per client: the card, as far as it has been read
  tx,    \* per client: the approve transaction
  lock   \* per maintenance: the client whose transaction locks the row

approvalVars == <<view, tx, lock>>
allVars == <<vars, approvalVars>>

Nobody == "nobody"

\* One neighbour of the conflict list: the overlap, the scope and all resources
\* of the neighbour, shared or not.
ConflictWith(n, row) ==
  [ id        |-> n,
    scope     |-> maint[n].scope,
    start     |-> IF row.planned.start < maint[n].planned.start THEN maint[n].planned.start ELSE row.planned.start,
    end       |-> IF row.planned.end < maint[n].planned.end THEN row.planned.end ELSE maint[n].planned.end,
    resources |-> resources[n] ]

GetConflicts(m, row, res) == {ConflictWith(n, row) : n \in ConflictedMaints(m, row, res)}

\* A neighbour counts through the resources it shares with this maintenance.
ConflictFingerprintFor(conflicts, own) == {[x EXCEPT !.resources = @ \cap own] : x \in conflicts}

Ids(conflicts) == {x.id : x \in conflicts}

-----------------------------------------------------------------------------
(* Reading the card: three statements, no transaction around them.         *)

NoView == [pc |-> "none"]
NoTx == [pc |-> "none"]

ViewRow(c, m) ==
  /\ tx[c].pc = "none"
  /\ maint[m].status = "draft"
  /\ view' = [view EXCEPT ![c] = [pc |-> "row", m |-> m, rev |-> maint[m].rev,
                                  planned |-> maint[m].planned, scope |-> maint[m].scope]]
  /\ UNCHANGED <<vars, tx, lock>>

ViewResources(c) ==
  /\ view[c].pc = "row"
  /\ view' = [view EXCEPT ![c] = [pc |-> "resources", m |-> @.m, rev |-> @.rev, planned |-> @.planned,
                                  scope |-> @.scope, resources |-> resources[@.m]]]
  /\ UNCHANGED <<vars, tx, lock>>

ViewConflicts(c) ==
  /\ view[c].pc = "resources"
  /\ view' = [view EXCEPT ![c] =
       [pc |-> "ready", m |-> @.m, rev |-> @.rev, planned |-> @.planned, scope |-> @.scope,
        resources |-> @.resources, conflicts |-> GetConflicts(@.m, @, @.resources)]]
  /\ UNCHANGED <<vars, tx, lock>>

-----------------------------------------------------------------------------
(* The approve transaction.                                                *)

Attempt(c) == IF tx[c].pc = "none" THEN 1 ELSE tx[c].attempt + 1

\* The first statement takes the snapshot every later read is answered from.
TxBegin(c) ==
  /\ view[c].pc = "ready"
  /\ tx[c].pc \in {"none", "retry"}
  /\ LET m == view[c].m IN
     tx' = [tx EXCEPT ![c] = [ pc        |-> "begun",
                               attempt   |-> Attempt(c),
                               row       |-> maint[m],
                               resources |-> resources[m],
                               conflicts |-> GetConflicts(m, maint[m], resources[m]),
                               missed    |-> {} ]]
  /\ UNCHANGED <<vars, view, lock>>

\* GetMaintForUpdate: waits for the row, and needs it unchanged.
TxLock(c) ==
  /\ tx[c].pc = "begun"
  /\ lock[view[c].m] = Nobody
  /\ maint[view[c].m].rev = tx[c].row.rev
  /\ lock' = [lock EXCEPT ![view[c].m] = c]
  /\ tx' = [tx EXCEPT ![c].pc = "locked"]
  /\ UNCHANGED <<vars, view>>

\* Mutant: the conflicts are not compared with the preview.
CheckConflicts_Skipped(c) == TRUE

CheckConflicts(c) ==
  ConflictFingerprintFor(tx[c].conflicts, tx[c].resources)
    = ConflictFingerprintFor(view[c].conflicts, tx[c].resources)

\* Mutant: the revision is not compared with the preview.
MayApprove_AnyRevision(c) ==
  /\ CanMaintTransition(tx[c].row.status, "planned")
  /\ tx[c].row.approver = UserOf[c] \/ UserOf[c] \in Admins
  /\ CheckConflicts(c)

\* The checks of ApproveMaint on the locked row.
MayApprove(c) ==
  /\ CanMaintTransition(tx[c].row.status, "planned")
  /\ tx[c].row.approver = UserOf[c] \/ UserOf[c] \in Admins
  /\ tx[c].row.rev = view[c].rev
  /\ CheckConflicts(c)

Unlock(c) == lock' = [m \in Maints |-> IF lock[m] = c THEN Nobody ELSE lock[m]]

\* The transactions whose conflict query would have returned m had they
\* started after this commit: each now depends on running before it.
Missing(m) ==
  {d \in Clients : /\ tx[d].pc \in {"begun", "locked"}
                   /\ view[d].m # m
                   /\ Collides(tx[d].row, tx[d].resources, maint[m], resources[m])}

\* The rows of the neighbours named by the snapshot must be free.
SnapshotRowsFree(c) == \A n \in Ids(view[c].conflicts) : lock[n] \in {Nobody, c}

\* Mutant: a transaction of a weaker isolation level.
Serializable_Snapshot(c) == TRUE

\* Serializable isolation: this transaction missed no concurrent approval.
Serializable(c) == tx[c].missed = {}

TxCommit(c) ==
  LET m == view[c].m IN
  /\ tx[c].pc = "locked"
  /\ MayApprove(c)
  /\ SnapshotRowsFree(c)
  /\ Serializable(c)
  /\ ApproveMaint(m, Ids(view[c].conflicts))
  /\ tx' = [d \in Clients |-> IF d = c THEN NoTx
                              ELSE IF d \in Missing(m) THEN [tx[d] EXCEPT !.missed = @ \cup {m}]
                              ELSE tx[d]]
  /\ Unlock(c)
  /\ view' = [view EXCEPT ![c] = NoView]

TxReject(c) ==
  /\ tx[c].pc = "locked"
  /\ ~ MayApprove(c)
  /\ tx' = [tx EXCEPT ![c] = NoTx]
  /\ Unlock(c)
  /\ view' = [view EXCEPT ![c] = NoView]
  /\ UNCHANGED vars

\* serialization_failure (40001): run again from the start, or give up.
TxSerializationFailure(c) ==
  /\ tx[c].pc \in {"begun", "locked"}
  /\ tx' = [tx EXCEPT ![c] = IF @.attempt < MaxAttempts THEN [pc |-> "retry", attempt |-> @.attempt]
                             ELSE NoTx]
  /\ Unlock(c)
  /\ UNCHANGED <<vars, view>>

\* The server dies, the connection drops or the caller goes away.
TxCrash(c) ==
  /\ tx[c].pc # "none"
  /\ tx' = [tx EXCEPT ![c] = NoTx]
  /\ Unlock(c)
  /\ UNCHANGED <<vars, view>>

-----------------------------------------------------------------------------
ApprovalInit ==
  /\ Init
  /\ view = [c \in Clients |-> NoView]
  /\ tx = [c \in Clients |-> NoTx]
  /\ lock = [m \in Maints |-> Nobody]

\* The other handlers lock the row they write for the length of their own
\* transaction, so they run only while no approval holds it.
OtherHandlers ==
  /\ \/ \E m \in Maints : lock[m] = Nobody /\ Edit(m)
     \/ \E w \in Sweepers :
          \/ SweepList(w)
          \/ sweep[w] # <<>> /\ lock[Head(sweep[w])] = Nobody /\ SweepCancel(w)
          \/ SweepItemFails(w)
          \/ SweepCrash(w)
     \/ Tick
  /\ UNCHANGED approvalVars

Approving(c) ==
  \/ \E m \in Maints : ViewRow(c, m)
  \/ ViewResources(c)
  \/ ViewConflicts(c)
  \/ TxBegin(c)
  \/ TxLock(c)
  \/ TxCommit(c)
  \/ TxReject(c)
  \/ TxSerializationFailure(c)
  \/ TxCrash(c)

ApprovalNext == OtherHandlers \/ \E c \in Clients : Approving(c)

ApprovalSpec == ApprovalInit /\ [][ApprovalNext]_allVars

-----------------------------------------------------------------------------
(* Properties.                                                             *)

\* The protocol implements the promise of Maintenance: as if the approver had
\* looked at the draft and its conflicts, and approved, in one instant.
ApprovalIsAtomic == Spec

\* What is approved is what was on the card: window, scope and resources are
\* the ones the approver read, in spite of edits between the three reads and
\* after them.
ApprovedAsSeen ==
  [][\A m \in Maints : maint[m].status = "draft" /\ maint'[m].status = "planned" =>
       \E c \in Clients : /\ lock[m] = c
                          /\ view[c].m = m
                          /\ view[c].planned = maint[m].planned
                          /\ view[c].scope = maint[m].scope
                          /\ view[c].resources = resources[m]]_allVars

\* Who waits for whom: for the row of the draft, or for a row named by the
\* snapshot about to be inserted.
WaitsFor(c, d) ==
  /\ c # d
  /\ \/ tx[c].pc = "begun" /\ lock[view[c].m] = d
     \/ tx[c].pc = "locked" /\ MayApprove(c) /\ \E n \in Ids(view[c].conflicts) : lock[n] = d

\* No two approvals wait for each other, although each holds one row lock and
\* may ask for more.
NoApprovalDeadlock == \A c, d \in Clients : ~ (WaitsFor(c, d) /\ WaitsFor(d, c))
=============================================================================
