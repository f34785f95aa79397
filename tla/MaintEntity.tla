---------------------------- MODULE MaintEntity ----------------------------
(***************************************************************************)
(* The entity package of the maintenance aggregate: status tables, planned *)
(* and actual periods, the scope/resources rule and the predicate that     *)
(* decides whether two maintenances collide.  Constant operators only; the *)
(* state machines are in Maintenance, Approval and MaintNotify.            *)
(*                                                                         *)
(* Times are small naturals.  An absent time (a nil *time.Time, an open    *)
(* upper bound) is Nil.                                                    *)
(***************************************************************************)
EXTENDS Integers

Nil == -1

-----------------------------------------------------------------------------
(* Statuses.  "absent" stands for "no row": a maintenance not created yet. *)

MaintStatuses == {"absent", "draft", "planned", "in_progress", "canceled", "completed"}

StepStatuses == {"planned", "started", "completed", "canceled"}

AllowedMaintStatusTransitions ==
  [ absent      |-> {},
    draft       |-> {"planned", "canceled"},
    planned     |-> {"in_progress", "canceled"},
    in_progress |-> {"completed", "canceled"},
    canceled    |-> {},
    completed   |-> {} ]

CanMaintTransition(from, to) == to \in AllowedMaintStatusTransitions[from]

IsTerminal(status) == status \in {"canceled", "completed"}

AllowedMaintStepStatusTransitions ==
  [ planned   |-> {"started"},
    started   |-> {"completed", "canceled"},
    completed |-> {},
    canceled  |-> {} ]

CanMaintStepTransition(from, to) == to \in AllowedMaintStepStatusTransitions[from]

StepIsTerminal(status) == status \in {"completed", "canceled"}

Scopes == {"global", "resource"}

-----------------------------------------------------------------------------
(* Periods: half-open intervals [start, end).                              *)

NoPeriod == [start |-> Nil, end |-> Nil]

NewOpenEndedPeriod(start) == [start |-> start, end |-> Nil]

IsOpen(p) == p.start # Nil /\ p.end = Nil

Duration(p) == p.end - p.start

\* The window a list of steps of total length "total" needs from "start" on.  The
\* requests are refused without steps or with a step that takes no time, so the
\* open-ended window the code returns for a total of zero does not occur.
RecalculatePlannedPeriod(start, total) == [start |-> start, end |-> start + total]

\* Closing a period whose start is not in the past drops it: the database
\* refuses a range that is not strictly ordered.
CloseActualPeriod(p, end) ==
  IF p = NoPeriod \/ ~(p.start < end) THEN NoPeriod ELSE [p EXCEPT !.end = end]

-----------------------------------------------------------------------------
(* Scope, resources and collisions.                                        *)

\* A maintenance of global scope keeps no resources.
Normalize(scope, resources) == IF scope = "global" THEN {} ELSE resources

Overlap(p, q) == p.start < q.end /\ q.start < p.end

SharesZone(scope1, resources1, scope2, resources2) ==
  \/ scope1 = "global"
  \/ scope2 = "global"
  \/ scope1 = "resource" /\ scope2 = "resource" /\ resources1 \cap resources2 # {}

\* Mutant: drafts count as neighbours.
ActiveStatuses_WithDrafts == {"draft", "planned", "in_progress"}

\* The statuses a neighbour must have to count as a conflict of an approval.
ActiveStatuses == {"planned", "in_progress"}

\* What the stored row and resources of a maintenance contribute to a conflict.
Collides(row1, resources1, row2, resources2) ==
  /\ Overlap(row1.planned, row2.planned)
  /\ SharesZone(row1.scope, resources1, row2.scope, resources2)

=============================================================================
