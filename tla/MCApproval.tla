----------------------------- MODULE MCApproval -----------------------------
(***************************************************************************)
(* Four scenes of Approval, each with the assigned approver and an          *)
(* administrator at two cards: drafts that share a resource or not; the      *)
(* transaction that is run again after a serialization failure, beside starts *)
(* and cancellations; drafts whose windows move; drafts whose approver        *)
(* changes.                                                                  *)
(***************************************************************************)
EXTENDS Approval, TLC

CONSTANTS c1, c2, u1, u2
VARIABLE scene

MCPlans == {[count |-> 1, total |-> 1]}

MCUserOf == [c \in Clients |-> IF c = c1 THEN u1 ELSE u2]

\* Bounds of a scene.  A neighbour that runs counts like one that is planned: its
\* steps, which the instances of Maintenance explore, are left alone here.
NoSteps == \A m \in Maints : steps'[m].list # <<>> => steps'[m].list[1] = PlannedStep
OneRun == \A c \in Clients : tx'[c].pc # "none" => tx'[c].attempt = 1
OneWindow == \A m \in Maints : maint'[m].planned.start = 0
OneApprover == \A m \in Maints : maint'[m].approver = u1 \/ maint'[m] = NoRow
NoneIs(S) == \A m \in Maints : maint'[m].status \notin S
AllGlobal == \A m \in Maints : maint'[m].scope = "global"

MCInit == ApprovalInit /\ scene \in {"sharing", "retrying", "moving", "reassigning"}

MCNext ==
  /\ ApprovalNext
  /\ NoSteps
  /\ now' = 0
  /\ \/ scene = "sharing" /\ OneRun /\ OneWindow /\ OneApprover /\ NoneIs({"in_progress", "canceled"})
     \/ scene = "retrying" /\ OneWindow /\ OneApprover /\ AllGlobal
     \/ scene = "moving" /\ OneRun /\ OneApprover /\ AllGlobal /\ NoneIs({"in_progress", "canceled"})
     \/ scene = "reassigning" /\ OneRun /\ OneWindow /\ AllGlobal /\ NoneIs({"in_progress", "canceled"})
  /\ UNCHANGED scene

MCSpec == MCInit /\ [][MCNext]_<<allVars, scene>>

\* Maintenances are interchangeable.
MCSymmetry == Permutations(Maints)
=============================================================================
