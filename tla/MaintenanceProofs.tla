------------------------- MODULE MaintenanceProofs -------------------------
(***************************************************************************)
(* Proofs about Maintenance, for any number of maintenances, resources,    *)
(* users, steps, reminders and auto-cancel runs, and for clocks of any     *)
(* skew.                                                                   *)
(***************************************************************************)
EXTENDS Maintenance, FiniteSetTheorems, TLAPS

\* A leaf that names no prover is left to the SMT solver, with time to spare.
USE SMTT(30)

-----------------------------------------------------------------------------
(* Type correctness.                                                       *)

\* Whatever clock a handler reads, it reads a time.
LEMMA ReadingsAreTimes ==
  ASSUME NEW t \in UTCNow
  PROVE  t \in Times
BY DEF UTCNow

\* Closing a window, the actual or the planned one, yields an actual window.
LEMMA CloseActualPeriodType ==
  ASSUME NEW p \in ActualPeriods \cup PlannedPeriods, NEW t \in Times
  PROVE  CloseActualPeriod(p, t) \in ActualPeriods
BY DEF CloseActualPeriod, NoPeriod, ActualPeriods, PlannedPeriods

\* Changing the status, the reason and the actual window of a row.
LEMMA RowExcept ==
  ASSUME NEW row \in Rows, NEW status \in MaintStatuses, NEW reason \in Reasons,
         NEW actual \in ActualPeriods
  PROVE  [row EXCEPT !.status = status, !.reason = reason, !.actual = actual] \in Rows
<1>1. [row EXCEPT !.status = status] \in Rows
  BY DEF Rows
<1>2. [[row EXCEPT !.status = status] EXCEPT !.reason = reason] \in Rows
  BY <1>1, Zenon DEF Rows
<1>3. [[[row EXCEPT !.status = status] EXCEPT !.reason = reason] EXCEPT !.actual = actual] \in Rows
  BY <1>2, Zenon DEF Rows
<1>4. QED
  BY <1>3

\* A write of one row leaves a table of rows.
LEMMA UpdateMaintType ==
  ASSUME maint \in [Maints -> Rows], NEW m \in Maints, NEW row \in Rows, UpdateMaint(m, row)
  PROVE  maint' \in [Maints -> Rows]
<1>1. row.rev + 1 \in Nat
  BY DEF Rows
<1>2. [row EXCEPT !.rev = @ + 1] \in Rows
  BY <1>1 DEF Rows
<1>3. QED
  BY <1>2 DEF UpdateMaint

\* A draft is a row, and so is a draft with an update applied.
LEMMA NewDraftType ==
  ASSUME NEW start \in Times, NEW plan \in Plans, NEW scope \in Scopes, NEW approver \in Users
  PROVE  NewDraft(start, plan, scope, approver) \in Rows
<1>1. plan.total \in Nat
  BY PlansAssumption
<1>2. RecalculatePlannedPeriod(start, plan.total) \in PlannedPeriods
  BY <1>1, BoundsAssumption DEF RecalculatePlannedPeriod, Times, PlannedPeriods
<1>3. NoPeriod \in ActualPeriods
  BY DEF NoPeriod, ActualPeriods
<1>4. QED
  BY <1>2, <1>3 DEF NewDraft, Rows, MaintStatuses, Reasons

\* StepsFromCmd yields a step table.
LEMMA StepsFromCmdType ==
  ASSUME NEW plan \in Plans
  PROVE  StepsFromCmd(plan) \in StepTables
<1>1. plan.count \in Nat /\ plan.total \in Nat
  BY PlansAssumption
<1>2. PlannedStep \in StepRows
  BY DEF PlannedStep, StepRows, StepStatuses
<1>3. [i \in 1 .. plan.count |-> PlannedStep] \in Seq(StepRows)
  BY <1>1, <1>2
<1>4. QED
  BY <1>1, <1>3 DEF StepsFromCmd, StepTables
\* A step handler rewrites one row of the step list.
LEMMA UpdateStepType ==
  ASSUME TypeOK, NEW m \in Maints, NEW i \in 1 .. Len(steps[m].list), NEW row \in StepRows,
         UpdateStep(m, i, row)
  PROVE  TypeOK'
<1>1. steps[m] \in StepTables /\ steps[m].list \in Seq(StepRows)
  BY DEF TypeOK, StepTables
<1>2. [steps[m].list EXCEPT ![i] = row] \in Seq(StepRows)
  BY <1>1
<1>3. [steps[m] EXCEPT !.list[i] = row] \in StepTables
  BY <1>1, <1>2 DEF StepTables
<1>4. steps' \in [Maints -> StepTables]
  BY <1>3 DEF TypeOK, UpdateStep
<1>5. maint' \in [Maints -> Rows]
  BY UpdateMaintType DEF TypeOK, UpdateStep
<1>6. QED
  BY <1>4, <1>5 DEF TypeOK, UpdateStep

\* The write of a cancellation leaves a table of rows.
LEMMA CancelWithType ==
  ASSUME TypeOK, NEW m \in Maints, NEW reason \in Reasons, CancelWith(m, reason)
  PROVE  maint' \in [Maints -> Rows]
<1>0. PICK t \in UTCNow : UpdateMaint(m, [maint[m] EXCEPT !.status = "canceled", !.reason = reason,
                                                          !.actual = CloseActualPeriod(@, t)])
  BY Zenon DEF CancelWith
<1>1. maint[m].actual \in ActualPeriods
  BY DEF TypeOK, Rows
<1>2. CloseActualPeriod(maint[m].actual, t) \in ActualPeriods
  BY <1>1, CloseActualPeriodType, ReadingsAreTimes
<1>3. [maint[m] EXCEPT !.status = "canceled", !.reason = reason,
                       !.actual = CloseActualPeriod(@, t)] \in Rows
  BY <1>2, RowExcept, Zenon DEF TypeOK, MaintStatuses
<1>4. QED
  BY <1>0, <1>3, UpdateMaintType DEF TypeOK

\* Every batch of candidates is a sequence of maintenances.
LEMMA ListOverdueNotStartedType ==
  ASSUME NEW cutoff, NEW q \in ListOverdueNotStarted(cutoff, SweepLimit)
  PROVE  q \in Seq(Maints)
<1> DEFINE S == Overdue(cutoff)
           k == IF Cardinality(S) < SweepLimit THEN Cardinality(S) ELSE SweepLimit
<1>1. S \subseteq Maints
  BY DEF Overdue
<1>2. Cardinality(S) \in Nat
  BY <1>1, SetsAssumption, FS_Subset, FS_CardinalityType
<1>3. k \in Nat
  BY <1>2, BoundsAssumption
<1>4. q \in [1 .. k -> S]
  BY DEF ListOverdueNotStarted
<1> HIDE DEF S, k
<1>5. QED
  BY <1>1, <1>3, <1>4
\* An update command leaves a draft a row.
LEMMA ApplyValuesType ==
  ASSUME NEW row \in Rows, NEW cmd \in UpdateCmds
  PROVE  ApplyValuesFromUpdateCmd(row, cmd) \in Rows
<1> DEFINE planned == UpdatedPeriod(row.planned, cmd)
           scope == IF cmd.scope = "keep" THEN row.scope ELSE cmd.scope
<1>1. row.planned \in PlannedPeriods
  BY DEF Rows
<1>2. cmd.plan = KeepSteps \/ cmd.plan.total \in Nat
  BY PlansAssumption DEF UpdateCmds
<1>3. planned \in PlannedPeriods
  <2> DEFINE q == IF cmd.plan = KeepSteps THEN row.planned
                  ELSE RecalculatePlannedPeriod(row.planned.start, cmd.plan.total)
  <2>1. q \in PlannedPeriods
    BY <1>1, <1>2, BoundsAssumption DEF RecalculatePlannedPeriod, PlannedPeriods, Times
  <2> HIDE DEF q
  <2>2. CASE cmd.start = Nil
    BY <2>1, <2>2 DEF UpdatedPeriod, q
  <2>3. CASE cmd.start # Nil
    <3>1. cmd.start \in Times
      BY <2>3 DEF UpdateCmds
    <3>2. [start |-> cmd.start, end |-> cmd.start + Duration(q)] \in PlannedPeriods
      BY <2>1, <3>1, BoundsAssumption DEF Duration, PlannedPeriods, Times
    <3>3. QED
      BY <2>3, <3>2 DEF UpdatedPeriod, q
  <2>4. QED
    BY <2>2, <2>3
<1>4. scope \in Scopes /\ cmd.approver \in Users
  BY DEF UpdateCmds, Rows
<1> HIDE DEF planned, scope
<1>5. [row EXCEPT !.planned = planned] \in Rows
  BY <1>3 DEF Rows
<1>6. [[row EXCEPT !.planned = planned] EXCEPT !.scope = scope] \in Rows
  BY <1>4, <1>5, Zenon DEF Rows
<1>7. [[[row EXCEPT !.planned = planned] EXCEPT !.scope = scope] EXCEPT !.approver = cmd.approver] \in Rows
  BY <1>4, <1>6, Zenon DEF Rows
<1>8. QED
  BY <1>7 DEF ApplyValuesFromUpdateCmd, planned, scope

\* The empty tables are well typed.
LEMMA TypeInit == Init => TypeOK
<1> SUFFICES ASSUME Init PROVE TypeOK
  OBVIOUS
<1>1. NoRow \in Rows
  <2>1. [start |-> 0, end |-> 0] \in PlannedPeriods /\ NoPeriod \in ActualPeriods
    BY BoundsAssumption DEF PlannedPeriods, ActualPeriods, NoPeriod, Times
  <2>2. (CHOOSE u \in Users : TRUE) \in Users
    BY SetsAssumption
  <2>3. QED
    BY <2>1, <2>2 DEF NoRow, Rows, MaintStatuses, Scopes, Reasons
<1>2. [total |-> 0, list |-> <<>>] \in StepTables
  BY DEF StepTables
<1>3. now \in Times
  BY BoundsAssumption DEF Init, Times
<1>4. QED
  BY <1>1, <1>2, <1>3 DEF Init, TypeOK, NoReminders, TaskStatuses

\* Each handler keeps the tables well typed.
LEMMA TypeEdit ==
  ASSUME TypeOK, NEW m \in Maints, Edit(m)
  PROVE  TypeOK'
<1>1. CASE CreateDraft(m)
  <2>0. PICK t \in UTCNow :
          \E start \in t .. MaxTime, plan \in Plans, scope \in Scopes, res \in SUBSET Resources,
             approver \in Users, fires \in [Reminders -> Times \cup {Nil}] :
            /\ scope = "resource" => res # {}
            /\ maint' = [maint EXCEPT ![m] = NewDraft(start, plan, scope, approver)]
            /\ resources' = [resources EXCEPT ![m] = Normalize(scope, res)]
            /\ steps' = [steps EXCEPT ![m] = StepsFromCmd(plan)]
            /\ deferred' = [deferred EXCEPT ![m] = fires]
    BY <1>1, Zenon DEF CreateDraft
  <2>1. PICK start \in t .. MaxTime, plan \in Plans, scope \in Scopes, res \in SUBSET Resources,
             approver \in Users, fires \in [Reminders -> Times \cup {Nil}] :
          /\ scope = "resource" => res # {}
          /\ maint' = [maint EXCEPT ![m] = NewDraft(start, plan, scope, approver)]
          /\ resources' = [resources EXCEPT ![m] = Normalize(scope, res)]
          /\ steps' = [steps EXCEPT ![m] = StepsFromCmd(plan)]
          /\ deferred' = [deferred EXCEPT ![m] = fires]
    BY <2>0, Zenon
  <2>2. start \in Times
    BY <2>1, ReadingsAreTimes, BoundsAssumption DEF Times
  <2>3. maint' \in [Maints -> Rows] /\ steps' \in [Maints -> StepTables]
    BY <2>1, <2>2, NewDraftType, StepsFromCmdType DEF TypeOK
  <2>4. resources' \in [Maints -> SUBSET Resources]
    BY <2>1 DEF TypeOK, Normalize
  <2>5. deferred' \in [Maints -> [Reminders -> Times \cup {Nil}]]
    BY <2>1 DEF TypeOK
  <2>6. QED
    BY <1>1, <2>3, <2>4, <2>5 DEF CreateDraft, TypeOK
<1>2. CASE UpdateDraft(m)
  <2>1. PICK cmd \in UpdateCmds :
          /\ UpdateMaint(m, ApplyValuesFromUpdateCmd(maint[m], cmd))
          /\ resources' = [resources EXCEPT ![m] =
                             UpdatedResources(@, ApplyValuesFromUpdateCmd(maint[m], cmd), cmd)]
          /\ steps' = [steps EXCEPT ![m] = IF cmd.plan = KeepSteps THEN @ ELSE StepsFromCmd(cmd.plan)]
          /\ deferred' = [deferred EXCEPT ![m] = IF cmd.setReminders THEN cmd.reminders ELSE @]
    BY <1>2, Zenon DEF UpdateDraft
  <2>2. maint' \in [Maints -> Rows]
    BY <2>1, ApplyValuesType, UpdateMaintType DEF TypeOK
  <2>3. cmd.resources \subseteq Resources
    BY DEF UpdateCmds
  <2>4. resources' \in [Maints -> SUBSET Resources]
    BY <2>1, <2>3 DEF TypeOK, UpdatedResources, Normalize
  <2>5. cmd.plan = KeepSteps \/ cmd.plan \in Plans
    BY DEF UpdateCmds
  <2>6. steps' \in [Maints -> StepTables]
    BY <2>1, <2>5, StepsFromCmdType DEF TypeOK
  <2>7. cmd.reminders \in [Reminders -> Times \cup {Nil}]
    BY DEF UpdateCmds
  <2>8. deferred' \in [Maints -> [Reminders -> Times \cup {Nil}]]
    BY <2>1, <2>7 DEF TypeOK
  <2>9. QED
    BY <1>2, <2>2, <2>4, <2>6, <2>8 DEF UpdateDraft, TypeOK
<1>3. CASE StartMaint(m)
  <2>0. PICK t \in UTCNow : UpdateMaint(m, [maint[m] EXCEPT !.status = "in_progress",
                                                            !.actual = NewOpenEndedPeriod(t)])
    BY <1>3, Zenon DEF StartMaint
  <2>1. NewOpenEndedPeriod(t) \in ActualPeriods
    BY ReadingsAreTimes DEF NewOpenEndedPeriod, ActualPeriods
  <2>2. maint[m] \in Rows
    BY DEF TypeOK
  <2>3. [maint[m] EXCEPT !.status = "in_progress"] \in Rows
    BY <2>2 DEF Rows, MaintStatuses
  <2>4. [[maint[m] EXCEPT !.status = "in_progress"] EXCEPT !.actual = NewOpenEndedPeriod(t)] \in Rows
    BY <2>1, <2>3, Zenon DEF Rows
  <2>5. maint' \in [Maints -> Rows]
    BY <2>0, <2>4, UpdateMaintType DEF TypeOK
  <2>6. QED
    BY <1>3, <2>5 DEF StartMaint, TypeOK
<1>4. CASE CompleteMaint(m)
  <2> DEFINE actual == IF maint[m].actual = NoPeriod THEN maint[m].planned ELSE maint[m].actual
  <2>1. actual \in ActualPeriods \cup PlannedPeriods
    BY DEF TypeOK, Rows
  <2>0. PICK t \in UTCNow : UpdateMaint(m, [maint[m] EXCEPT !.status = "completed",
                                                            !.actual = CloseActualPeriod(actual, t)])
    BY <1>4, Zenon DEF CompleteMaint
  <2>2. CloseActualPeriod(actual, t) \in ActualPeriods
    BY <2>1, CloseActualPeriodType, ReadingsAreTimes
  <2> HIDE DEF actual
  <2>3. maint[m] \in Rows
    BY DEF TypeOK
  <2>4. [maint[m] EXCEPT !.status = "completed"] \in Rows
    BY <2>3 DEF Rows, MaintStatuses
  <2>5. [[maint[m] EXCEPT !.status = "completed"] EXCEPT !.actual = CloseActualPeriod(actual, t)] \in Rows
    BY <2>2, <2>4, Zenon DEF Rows
  <2>6. maint' \in [Maints -> Rows]
    BY <2>0, <2>5, UpdateMaintType DEF TypeOK
  <2>7. QED
    BY <1>4, <2>6 DEF CompleteMaint, TypeOK
<1>5. CASE CancelMaint(m)
  BY <1>5, CancelWithType DEF CancelMaint, TypeOK, Reasons
<1>6. ASSUME NEW i \in 1 .. Len(steps[m].list), StartStep(m, i) \/ CompleteStep(m, i) \/ CancelStep(m, i)
      PROVE  TypeOK'
  <2>1. steps[m].list[i] \in StepRows
    BY DEF TypeOK, StepTables
  <2>2. ASSUME NEW t \in UTCNow
        PROVE  /\ [steps[m].list[i] EXCEPT !.status = "started", !.startedAt = t] \in StepRows
               /\ [steps[m].list[i] EXCEPT !.status = "completed", !.completedAt = t] \in StepRows
               /\ [steps[m].list[i] EXCEPT !.status = "canceled", !.completedAt = t] \in StepRows
    BY <2>1, ReadingsAreTimes, Zenon DEF StepRows, StepStatuses
  <2>3. PICK row \in StepRows : UpdateStep(m, i, row)
    BY <1>6, <2>2, Zenon DEF StartStep, CompleteStep, CancelStep
  <2>4. QED
    BY <2>3, UpdateStepType
<1>7. QED
  BY <1>1, <1>2, <1>3, <1>4, <1>5, <1>6 DEF Edit

\* ApproveMaint stores a snapshot of ids and a status per task, nothing else.
LEMMA TypeApprove ==
  ASSUME TypeOK, NEW m \in Maints, Approve(m)
  PROVE  TypeOK'
<1>1. PICK S \in InformedSnapshots(m) : ApproveMaint(m, S)
  BY DEF Approve
<1>2. S \subseteq Maints
  BY DEF InformedSnapshots
<1>3. maint[m] \in Rows
  BY DEF TypeOK
<1>4. [maint[m] EXCEPT !.status = "planned"] \in Rows
  BY <1>3 DEF Rows, MaintStatuses
<1>5. maint' \in [Maints -> Rows]
  BY <1>1, <1>4, UpdateMaintType DEF TypeOK, ApproveMaint, Schedule
<1>6. tasks' \in [Maints -> [Reminders -> TaskStatuses]]
  BY <1>1 DEF TypeOK, ApproveMaint, Schedule, TaskStatuses
<1>7. QED
  BY <1>1, <1>2, <1>5, <1>6 DEF TypeOK, ApproveMaint, Schedule

\* A sweep keeps a list of ids and cancels its head, or does nothing.
LEMMA TypeSweep ==
  ASSUME TypeOK, NEW w \in Sweepers,
         SweepList(w) \/ SweepCancel(w) \/ SweepItemFails(w) \/ SweepCrash(w)
  PROVE  TypeOK'
<1>1. CASE SweepList(w)
  BY <1>1, ListOverdueNotStartedType DEF SweepList, TypeOK, rows
<1>2. CASE SweepCancel(w)
  <2>1. Head(sweep[w]) \in Maints /\ Tail(sweep[w]) \in Seq(Maints)
    BY <1>2 DEF SweepCancel, TypeOK
  <2>2. maint' \in [Maints -> Rows]
    BY <1>2, <2>1, CancelWithType DEF SweepCancel, TypeOK, Reasons
  <2>3. QED
    BY <1>2, <2>1, <2>2 DEF SweepCancel, TypeOK
<1>3. CASE SweepItemFails(w)
  <2>1. Tail(sweep[w]) \in Seq(Maints)
    BY <1>3 DEF SweepItemFails, TypeOK
  <2>2. QED
    BY <1>3, <2>1 DEF SweepItemFails, TypeOK, rows
<1>4. CASE SweepCrash(w)
  BY <1>4 DEF SweepCrash, TypeOK, rows
<1>5. QED
  BY <1>1, <1>2, <1>3, <1>4

\* Every handler writes rows of the right shape.
LEMMA TypeNext == TypeOK /\ [Next]_vars => TypeOK'
<1> SUFFICES ASSUME TypeOK, [Next]_vars PROVE TypeOK'
  OBVIOUS
<1>1. CASE Tick
  BY <1>1, BoundsAssumption DEF Tick, TypeOK, rows, Times
<1>2. CASE UNCHANGED vars
  BY <1>2 DEF vars, rows, TypeOK
<1>3. QED
  BY <1>1, <1>2, TypeEdit, TypeApprove, TypeSweep DEF Next

\* The tables of the maintenance service always hold well-typed rows.
THEOREM TypeCorrect == Spec => []TypeOK
BY TypeInit, TypeNext, PTL DEF Spec

-----------------------------------------------------------------------------
(* What one step may do to the rows of one maintenance n: nothing, or one   *)
(* of six changes.  Every invariant below is proved from these effects.     *)

PlanKept(n) ==
  /\ maint'[n].planned = maint[n].planned
  /\ maint'[n].scope = maint[n].scope
  /\ resources'[n] = resources[n]
  /\ deferred'[n] = deferred[n]

TasksAndSnapshotKept(n) == tasks'[n] = tasks[n] /\ snapshots'[n] = snapshots[n]

Untouched(n) ==
  /\ maint'[n] = maint[n]
  /\ resources'[n] = resources[n]
  /\ deferred'[n] = deferred[n]
  /\ steps'[n] = steps[n]
  /\ TasksAndSnapshotKept(n)

Created(n) ==
  /\ maint[n].status = "absent"
  /\ \E plan \in Plans :
       /\ steps'[n] = StepsFromCmd(plan)
       /\ \E start \in Times, scope \in Scopes, approver \in Users :
            maint'[n] = NewDraft(start, plan, scope, approver)
  /\ TasksAndSnapshotKept(n)

Updated(n) ==
  /\ maint[n].status = "draft" /\ maint'[n].status = "draft"
  /\ maint'[n].actual = maint[n].actual
  /\ maint'[n].reason = maint[n].reason
  /\ \E cmd \in UpdateCmds :
       /\ maint'[n].planned = UpdatedPeriod(maint[n].planned, cmd)
       /\ steps'[n] = IF cmd.plan = KeepSteps THEN steps[n] ELSE StepsFromCmd(cmd.plan)
  /\ TasksAndSnapshotKept(n)

Planned(n) ==
  /\ maint[n].status = "draft" /\ maint'[n].status = "planned"
  /\ maint'[n].actual = maint[n].actual
  /\ maint'[n].reason = maint[n].reason
  /\ steps'[n] = steps[n]
  /\ PlanKept(n)
  /\ tasks'[n] = [r \in Reminders |-> IF deferred[n][r] = Nil THEN "none" ELSE "pending"]

Started(n) ==
  /\ maint[n].status = "planned" /\ maint'[n].status = "in_progress"
  /\ \E t \in UTCNow : maint'[n].actual = NewOpenEndedPeriod(t)
  /\ maint'[n].reason = maint[n].reason
  /\ steps'[n] = steps[n]
  /\ PlanKept(n) /\ TasksAndSnapshotKept(n)

Finished(n) ==
  /\ \/ /\ maint[n].status = "in_progress" /\ maint'[n].status = "completed"
        /\ AllStepsTerminal(steps[n].list)
        /\ maint'[n].reason = maint[n].reason
        /\ \E t \in UTCNow :
             maint'[n].actual = CloseActualPeriod(IF maint[n].actual = NoPeriod THEN maint[n].planned
                                                  ELSE maint[n].actual, t)
     \/ /\ maint[n].status \in Unstarted \cup {"in_progress"} /\ maint'[n].status = "canceled"
        /\ maint'[n].reason \in {"user", "not_started"}
        /\ maint'[n].reason = "not_started" => maint[n].status \in Unstarted
        /\ \E t \in UTCNow : maint'[n].actual = CloseActualPeriod(maint[n].actual, t)
  /\ steps'[n] = steps[n]
  /\ PlanKept(n) /\ TasksAndSnapshotKept(n)

\* The stamps a step handler puts on the row of its step.
Stamped(old, row) ==
  \E t \in UTCNow :
    \/ row.status = "started" /\ row.startedAt = t /\ row.completedAt = old.completedAt
    \/ row.status \in {"completed", "canceled"} /\ row.startedAt = old.startedAt /\ row.completedAt = t

StepMoved(n) ==
  /\ maint[n].status = "in_progress" /\ maint'[n].status = "in_progress"
  /\ maint'[n].actual = maint[n].actual
  /\ maint'[n].reason = maint[n].reason
  /\ \E i \in DOMAIN steps[n].list, row \in StepRows :
       /\ CanChangeStepStatusTo(steps[n].list, i, row.status)
       /\ Stamped(steps[n].list[i], row)
       /\ steps'[n] = [steps[n] EXCEPT !.list[i] = row]
  /\ PlanKept(n) /\ TasksAndSnapshotKept(n)

Effect(n) ==
  Untouched(n) \/ Created(n) \/ Updated(n) \/ Started(n) \/ Finished(n) \/ StepMoved(n)

\* A row that CreateDraft wrote is a draft with planned steps only.
LEMMA CreatedIsDraft ==
  ASSUME NEW n, Created(n)
  PROVE  maint'[n].status = "draft" /\ maint'[n].actual = NoPeriod /\ maint'[n].reason = "none"
BY DEF Created, NewDraft

\* A write of the row of m, field by field; the other rows are as before.
LEMMA UpdateMaintEffect ==
  ASSUME maint \in [Maints -> Rows], NEW m \in Maints, NEW row \in Rows, UpdateMaint(m, row)
  PROVE  /\ maint'[m].status = row.status
         /\ maint'[m].scope = row.scope
         /\ maint'[m].planned = row.planned
         /\ maint'[m].actual = row.actual
         /\ maint'[m].reason = row.reason
         /\ \A n \in Maints \ {m} : maint'[n] = maint[n]
<1>1. maint'[m] = [row EXCEPT !.rev = @ + 1]
  BY DEF UpdateMaint
<1>2. \A n \in Maints \ {m} : maint'[n] = maint[n]
  BY DEF UpdateMaint
<1>3. QED
  BY <1>1, <1>2 DEF Rows

\* The cancelled row, for the handler and for the sweep.
LEMMA CancelWithEffect ==
  ASSUME TypeOK, NEW m \in Maints, NEW reason \in Reasons, CancelWith(m, reason)
  PROVE  /\ maint'[m].status = "canceled"
         /\ maint'[m].scope = maint[m].scope
         /\ maint'[m].planned = maint[m].planned
         /\ \E t \in UTCNow : maint'[m].actual = CloseActualPeriod(maint[m].actual, t)
         /\ maint'[m].reason = reason
         /\ \A n \in Maints \ {m} : maint'[n] = maint[n]
<1>0. PICK t \in UTCNow : UpdateMaint(m, [maint[m] EXCEPT !.status = "canceled", !.reason = reason,
                                                          !.actual = CloseActualPeriod(@, t)])
  BY Zenon DEF CancelWith
<1> DEFINE row == [maint[m] EXCEPT !.status = "canceled", !.reason = reason,
                                   !.actual = CloseActualPeriod(@, t)]
<1>1. maint[m] \in Rows /\ CloseActualPeriod(maint[m].actual, t) \in ActualPeriods
  BY CloseActualPeriodType, ReadingsAreTimes DEF TypeOK, Rows
<1>2. row \in Rows
  BY <1>1, RowExcept, Zenon DEF MaintStatuses
<1>3. /\ row.status = "canceled" /\ row.scope = maint[m].scope /\ row.planned = maint[m].planned
      /\ row.actual = CloseActualPeriod(maint[m].actual, t) /\ row.reason = reason
  BY <1>1 DEF Rows
<1>4. UpdateMaint(m, row)
  BY <1>0
<1> HIDE DEF row
<1>5. QED
  BY <1>2, <1>3, <1>4, UpdateMaintEffect DEF TypeOK

\* updateStepWithApply moves one step of a running maintenance.
LEMMA StepEffect ==
  ASSUME TypeOK, NEW m \in Maints, NEW i \in 1 .. Len(steps[m].list), NEW row \in StepRows,
         UpdateStep(m, i, row), Stamped(steps[m].list[i], row), NEW n \in Maints
  PROVE  Effect(n)
<1>1. maint[m] \in Rows
  BY DEF TypeOK
<1>2. /\ maint'[m].status = maint[m].status /\ maint'[m].scope = maint[m].scope
      /\ maint'[m].planned = maint[m].planned /\ maint'[m].actual = maint[m].actual
      /\ maint'[m].reason = maint[m].reason
      /\ \A k \in Maints \ {m} : maint'[k] = maint[k]
  BY <1>1, UpdateMaintEffect DEF TypeOK, UpdateStep
<1>3. i \in DOMAIN steps[m].list
  BY DEF TypeOK, StepTables
<1>4. CASE n = m
  <2>1. steps'[m] = [steps[m] EXCEPT !.list[i] = row]
    BY DEF UpdateStep, TypeOK
  <2>2. StepMoved(m)
    BY <1>2, <1>3, <2>1, Zenon DEF StepMoved, UpdateStep, PlanKept, TasksAndSnapshotKept
  <2>3. QED
    BY <1>4, <2>2 DEF Effect
<1>5. CASE n # m
  BY <1>2, <1>5 DEF Effect, Untouched, TasksAndSnapshotKept, UpdateStep, TypeOK
<1>6. QED
  BY <1>4, <1>5

\* CreateDraft fills one absent id and touches no other.
LEMMA CreateDraftEffect ==
  ASSUME TypeOK, NEW m \in Maints, CreateDraft(m), NEW n \in Maints
  PROVE  Effect(n)
<1>0. PICK t \in UTCNow :
        \E start \in t .. MaxTime, plan \in Plans, scope \in Scopes, res \in SUBSET Resources,
           approver \in Users, fires \in [Reminders -> Times \cup {Nil}] :
          /\ scope = "resource" => res # {}
          /\ maint' = [maint EXCEPT ![m] = NewDraft(start, plan, scope, approver)]
          /\ resources' = [resources EXCEPT ![m] = Normalize(scope, res)]
          /\ steps' = [steps EXCEPT ![m] = StepsFromCmd(plan)]
          /\ deferred' = [deferred EXCEPT ![m] = fires]
  BY Zenon DEF CreateDraft
<1>1. PICK start \in t .. MaxTime, plan \in Plans, scope \in Scopes, res \in SUBSET Resources,
           approver \in Users, fires \in [Reminders -> Times \cup {Nil}] :
        /\ scope = "resource" => res # {}
        /\ maint' = [maint EXCEPT ![m] = NewDraft(start, plan, scope, approver)]
        /\ resources' = [resources EXCEPT ![m] = Normalize(scope, res)]
        /\ steps' = [steps EXCEPT ![m] = StepsFromCmd(plan)]
        /\ deferred' = [deferred EXCEPT ![m] = fires]
  BY <1>0, Zenon
<1>2. start \in Times
  BY <1>1, ReadingsAreTimes, BoundsAssumption DEF Times
<1>3. CASE n = m
  <2>1. steps'[n] = StepsFromCmd(plan) /\ maint'[n] = NewDraft(start, plan, scope, approver)
    BY <1>1, <1>3 DEF TypeOK
  <2>2. Created(n)
    BY <1>2, <1>3, <2>1 DEF Created, CreateDraft, TasksAndSnapshotKept
  <2>3. QED
    BY <2>2 DEF Effect
<1>4. CASE n # m
  BY <1>1, <1>4 DEF Effect, Untouched, TasksAndSnapshotKept, CreateDraft, TypeOK
<1>5. QED
  BY <1>3, <1>4

\* UpdateMaint (the service) rewrites one draft and touches no other.
LEMMA UpdateDraftEffect ==
  ASSUME TypeOK, NEW m \in Maints, UpdateDraft(m), NEW n \in Maints
  PROVE  Effect(n)
<1>1. PICK cmd \in UpdateCmds :
        /\ UpdateMaint(m, ApplyValuesFromUpdateCmd(maint[m], cmd))
        /\ resources' = [resources EXCEPT ![m] =
                           UpdatedResources(@, ApplyValuesFromUpdateCmd(maint[m], cmd), cmd)]
        /\ steps' = [steps EXCEPT ![m] = IF cmd.plan = KeepSteps THEN @ ELSE StepsFromCmd(cmd.plan)]
        /\ deferred' = [deferred EXCEPT ![m] = IF cmd.setReminders THEN cmd.reminders ELSE @]
  BY Zenon DEF UpdateDraft
<1> DEFINE row == ApplyValuesFromUpdateCmd(maint[m], cmd)
<1>2. maint[m] \in Rows /\ row \in Rows
  BY ApplyValuesType DEF TypeOK
<1>3. /\ row.status = maint[m].status /\ row.actual = maint[m].actual
      /\ row.reason = maint[m].reason /\ row.planned = UpdatedPeriod(maint[m].planned, cmd)
  BY <1>2 DEF ApplyValuesFromUpdateCmd, Rows
<1> HIDE DEF row
<1>4. UpdateMaint(m, row)
  BY <1>1 DEF row
<1>5. /\ maint'[m].status = maint[m].status /\ maint'[m].actual = maint[m].actual
      /\ maint'[m].reason = maint[m].reason
      /\ maint'[m].planned = UpdatedPeriod(maint[m].planned, cmd)
      /\ \A k \in Maints \ {m} : maint'[k] = maint[k]
  BY <1>2, <1>3, <1>4, UpdateMaintEffect DEF TypeOK
<1>6. CASE n = m
  <2>1. steps'[n] = IF cmd.plan = KeepSteps THEN steps[n] ELSE StepsFromCmd(cmd.plan)
    BY <1>1, <1>6 DEF TypeOK
  <2>2. Updated(n)
    BY <1>5, <1>6, <2>1 DEF Updated, UpdateDraft, TasksAndSnapshotKept
  <2>3. QED
    BY <2>2 DEF Effect
<1>7. CASE n # m
  BY <1>1, <1>5, <1>7 DEF Effect, Untouched, TasksAndSnapshotKept, UpdateDraft, TypeOK
<1>8. QED
  BY <1>6, <1>7

\* StartMaint opens the actual window of one planned maintenance.
LEMMA StartMaintEffect ==
  ASSUME TypeOK, NEW m \in Maints, StartMaint(m), NEW n \in Maints
  PROVE  Effect(n)
<1>0. PICK t \in UTCNow : UpdateMaint(m, [maint[m] EXCEPT !.status = "in_progress",
                                                          !.actual = NewOpenEndedPeriod(t)])
  BY Zenon DEF StartMaint
<1> DEFINE row == [[maint[m] EXCEPT !.status = "in_progress"] EXCEPT !.actual = NewOpenEndedPeriod(t)]
<1>1. maint[m] \in Rows /\ NewOpenEndedPeriod(t) \in ActualPeriods
  BY ReadingsAreTimes DEF TypeOK, NewOpenEndedPeriod, ActualPeriods
<1>2. [maint[m] EXCEPT !.status = "in_progress"] \in Rows
  BY <1>1 DEF Rows, MaintStatuses
<1>3. row \in Rows
  BY <1>1, <1>2, Zenon DEF Rows
<1>4. /\ row.status = "in_progress" /\ row.scope = maint[m].scope /\ row.planned = maint[m].planned
      /\ row.actual = NewOpenEndedPeriod(t) /\ row.reason = maint[m].reason
  BY <1>1 DEF Rows
<1>5. UpdateMaint(m, row)
  BY <1>0
<1> HIDE DEF row
<1>6. /\ maint'[m].status = "in_progress" /\ maint'[m].scope = maint[m].scope
      /\ maint'[m].planned = maint[m].planned /\ maint'[m].actual = NewOpenEndedPeriod(t)
      /\ maint'[m].reason = maint[m].reason
      /\ \A k \in Maints \ {m} : maint'[k] = maint[k]
  BY <1>3, <1>4, <1>5, UpdateMaintEffect DEF TypeOK
<1>7. maint[m].status = "planned"
  BY <1>1 DEF StartMaint, CanMaintTransition, AllowedMaintStatusTransitions, Rows, MaintStatuses
<1>8. CASE n = m
  BY <1>6, <1>7, <1>8 DEF Effect, Started, StartMaint, PlanKept, TasksAndSnapshotKept
<1>9. CASE n # m
  BY <1>6, <1>9 DEF Effect, Untouched, StartMaint, TasksAndSnapshotKept
<1>10. QED
  BY <1>8, <1>9

\* CompleteMaint closes one running maintenance whose steps are finished.
LEMMA CompleteMaintEffect ==
  ASSUME TypeOK, NEW m \in Maints, CompleteMaint(m), NEW n \in Maints
  PROVE  Effect(n)
<1> DEFINE actual == IF maint[m].actual = NoPeriod THEN maint[m].planned ELSE maint[m].actual
<1>0. PICK t \in UTCNow : UpdateMaint(m, [maint[m] EXCEPT !.status = "completed",
                                                          !.actual = CloseActualPeriod(actual, t)])
  BY Zenon DEF CompleteMaint
<1> DEFINE row == [[maint[m] EXCEPT !.status = "completed"] EXCEPT !.actual = CloseActualPeriod(actual, t)]
<1>1. maint[m] \in Rows /\ CloseActualPeriod(actual, t) \in ActualPeriods
  BY CloseActualPeriodType, ReadingsAreTimes DEF TypeOK, Rows
<1> HIDE DEF actual
<1>2. [maint[m] EXCEPT !.status = "completed"] \in Rows
  BY <1>1 DEF Rows, MaintStatuses
<1>3. row \in Rows
  BY <1>1, <1>2, Zenon DEF Rows
<1>4. /\ row.status = "completed" /\ row.scope = maint[m].scope /\ row.planned = maint[m].planned
      /\ row.actual = CloseActualPeriod(actual, t) /\ row.reason = maint[m].reason
  BY <1>1 DEF Rows
<1>5. UpdateMaint(m, row)
  BY <1>0
<1> HIDE DEF row
<1>6. /\ maint'[m].status = "completed" /\ maint'[m].scope = maint[m].scope
      /\ maint'[m].planned = maint[m].planned /\ maint'[m].actual = CloseActualPeriod(actual, t)
      /\ maint'[m].reason = maint[m].reason
      /\ \A k \in Maints \ {m} : maint'[k] = maint[k]
  BY <1>3, <1>4, <1>5, UpdateMaintEffect DEF TypeOK
<1>7. maint[m].status = "in_progress"
  BY <1>1 DEF CompleteMaint, CanMaintTransition, AllowedMaintStatusTransitions, Rows, MaintStatuses
<1>8. CASE n = m
  BY <1>6, <1>7, <1>8 DEF Effect, Finished, CompleteMaint, PlanKept, TasksAndSnapshotKept, actual
<1>9. CASE n # m
  BY <1>6, <1>9 DEF Effect, Untouched, CompleteMaint, TasksAndSnapshotKept
<1>10. QED
  BY <1>8, <1>9

\* A maintenance is cancelled from one of three statuses.
LEMMA CancellableStatuses ==
  ASSUME NEW status \in MaintStatuses, CanMaintTransition(status, "canceled")
  PROVE  status \in Unstarted \cup {"in_progress"}
BY DEF CanMaintTransition, AllowedMaintStatusTransitions, MaintStatuses, Unstarted

\* CancelMaint finishes one maintenance and touches no other.
LEMMA CancelMaintEffect ==
  ASSUME TypeOK, NEW m \in Maints, CancelMaint(m), NEW n \in Maints
  PROVE  Effect(n)
<1>0. maint[m].status \in MaintStatuses
  BY DEF TypeOK, Rows
<1>1. maint[m].status \in Unstarted \cup {"in_progress"}
  BY <1>0, CancellableStatuses DEF CancelMaint
<1>2. CASE n = m
  BY <1>1, <1>2, CancelWithEffect
     DEF CancelMaint, Reasons, Effect, Finished, PlanKept, TasksAndSnapshotKept
<1>3. CASE n # m
  BY <1>3, CancelWithEffect DEF CancelMaint, Reasons, Effect, Untouched, TasksAndSnapshotKept
<1>4. QED
  BY <1>2, <1>3

\* CancelUnStarted finishes one unstarted maintenance, or changes no row.
LEMMA SweepEffect ==
  ASSUME TypeOK, NEW w \in Sweepers, NEW n \in Maints,
         SweepList(w) \/ SweepCancel(w) \/ SweepItemFails(w) \/ SweepCrash(w)
  PROVE  Effect(n)
<1>1. CASE SweepList(w) \/ SweepItemFails(w) \/ SweepCrash(w)
  BY <1>1 DEF SweepList, SweepItemFails, SweepCrash, rows, Effect, Untouched, TasksAndSnapshotKept
<1>2. CASE SweepCancel(w)
  <2> DEFINE m == Head(sweep[w])
  <2>1. m \in Maints
    BY <1>2 DEF SweepCancel, TypeOK
  <2>2. /\ IF maint[m].status \in Unstarted THEN CancelWith(m, "not_started") ELSE UNCHANGED maint
        /\ UNCHANGED <<resources, steps, deferred, tasks, snapshots, now>>
    BY <1>2 DEF SweepCancel
  <2> HIDE DEF m
  <2>3. CASE maint[m].status \in Unstarted /\ n = m
    BY <2>1, <2>2, <2>3, CancelWithEffect
       DEF Reasons, Effect, Finished, PlanKept, TasksAndSnapshotKept
  <2>4. CASE maint[m].status \in Unstarted /\ n # m
    BY <2>1, <2>2, <2>4, CancelWithEffect, Zenon DEF Reasons, Effect, Untouched, TasksAndSnapshotKept
  <2>5. CASE maint[m].status \notin Unstarted
    BY <2>2, <2>5 DEF Effect, Untouched, TasksAndSnapshotKept
  <2>6. QED
    BY <2>3, <2>4, <2>5
<1>3. QED
  BY <1>1, <1>2

\* The approval plans m, records the snapshot S and touches nothing else.
LEMMA ApproveEffect ==
  ASSUME TypeOK, NEW m \in Maints, NEW S, ApproveMaint(m, S)
  PROVE  /\ Planned(m)
         /\ snapshots'[m] = S
         /\ \A n \in Maints \ {m} : Untouched(n)
<1> DEFINE row == [maint[m] EXCEPT !.status = "planned"]
<1>1. maint[m] \in Rows
  BY DEF TypeOK
<1>2. row \in Rows
  BY <1>1 DEF Rows, MaintStatuses
<1>3. /\ row.status = "planned" /\ row.scope = maint[m].scope /\ row.planned = maint[m].planned
      /\ row.actual = maint[m].actual /\ row.reason = maint[m].reason
  BY <1>1 DEF Rows
<1>4. UpdateMaint(m, row)
  BY DEF ApproveMaint, Schedule
<1> HIDE DEF row
<1>5. /\ maint'[m].status = "planned" /\ maint'[m].scope = maint[m].scope
      /\ maint'[m].planned = maint[m].planned /\ maint'[m].actual = maint[m].actual
      /\ maint'[m].reason = maint[m].reason
      /\ \A k \in Maints \ {m} : maint'[k] = maint[k]
  BY <1>2, <1>3, <1>4, UpdateMaintEffect DEF TypeOK
<1>6. maint[m].status = "draft"
  BY <1>1 DEF ApproveMaint, Schedule, CanMaintTransition, AllowedMaintStatusTransitions, Rows, MaintStatuses
<1>7. Planned(m)
  BY <1>5, <1>6 DEF Planned, ApproveMaint, Schedule, PlanKept, TypeOK
<1>8. QED
  BY <1>5, <1>7 DEF ApproveMaint, Schedule, Untouched, TasksAndSnapshotKept, TypeOK

\* Every handler that writes one maintenance has one of the effects on each.
LEMMA EditEffect ==
  ASSUME TypeOK, NEW m \in Maints, Edit(m), NEW n \in Maints
  PROVE  Effect(n)
<1>1. ASSUME NEW i \in 1 .. Len(steps[m].list), StartStep(m, i) \/ CompleteStep(m, i) \/ CancelStep(m, i)
      PROVE  Effect(n)
  <2>1. steps[m].list[i] \in StepRows
    BY DEF TypeOK, StepTables
  <2>2. PICK old : old = steps[m].list[i]
    OBVIOUS
  <2>3. ASSUME NEW t \in UTCNow,
               NEW row, \/ row = [old EXCEPT !.status = "started", !.startedAt = t]
                        \/ row = [old EXCEPT !.status = "completed", !.completedAt = t]
                        \/ row = [old EXCEPT !.status = "canceled", !.completedAt = t]
        PROVE  row \in StepRows /\ Stamped(old, row)
    BY <2>1, <2>2, <2>3, ReadingsAreTimes, Zenon DEF StepRows, StepStatuses, Stamped
  <2>4. PICK row : UpdateStep(m, i, row) /\ row \in StepRows /\ Stamped(steps[m].list[i], row)
    BY <1>1, <2>2, <2>3, ZenonT(40) DEF StartStep, CompleteStep, CancelStep
  <2>5. QED
    BY <2>4, StepEffect
<1>2. QED
  BY <1>1, CreateDraftEffect, UpdateDraftEffect, StartMaintEffect, CompleteMaintEffect,
     CancelMaintEffect DEF Edit

\* Every step but an approval has one of the effects on each maintenance.
LEMMA EffectOfStep ==
  ASSUME TypeOK, [Next]_vars, NEW n \in Maints
  PROVE  Effect(n) \/ \E m \in Maints : Approve(m)
<1>1. CASE Tick
  BY <1>1 DEF Tick, rows, Effect, Untouched, TasksAndSnapshotKept
<1>2. CASE UNCHANGED vars
  BY <1>2 DEF vars, rows, Effect, Untouched, TasksAndSnapshotKept
<1>3. QED
  BY <1>1, <1>2, EditEffect, SweepEffect DEF Next

-----------------------------------------------------------------------------
(* Safety.  The conjuncts of the inductive invariant, one lemma each.      *)

\* The step list of a table is a sequence of step rows; a new one is all planned.
LEMMA NewStepsPlanned ==
  ASSUME NEW plan \in Plans
  PROVE  /\ StepsFromCmd(plan).total = plan.total
         /\ \A i \in DOMAIN StepsFromCmd(plan).list : StepsFromCmd(plan).list[i] = PlannedStep
BY PlansAssumption DEF StepsFromCmd

\* No handler lets a step overtake an earlier one.
LEMMA StepsRunInOrderStep ==
  ASSUME TypeOK, StepsRunInOrder, [Next]_vars
  PROVE  StepsRunInOrder'
<1> SUFFICES ASSUME NEW n \in Maints, NEW a \in DOMAIN steps'[n].list, NEW b \in DOMAIN steps'[n].list,
                    a < b, steps'[n].list[b].status # "planned"
             PROVE  StepIsTerminal(steps'[n].list[a].status)
  BY DEF StepsRunInOrder
<1>1. CASE steps'[n] = steps[n]
  BY <1>1 DEF StepsRunInOrder
<1>2. ASSUME NEW plan \in Plans, steps'[n] = StepsFromCmd(plan) PROVE FALSE
  BY <1>2, NewStepsPlanned DEF PlannedStep
<1>3. CASE StepMoved(n)
  <2> DEFINE list == steps[n].list
  <2>1. PICK i \in DOMAIN list, row \in StepRows :
          /\ CanChangeStepStatusTo(list, i, row.status)
          /\ steps'[n] = [steps[n] EXCEPT !.list[i] = row]
    BY <1>3, Zenon DEF StepMoved
  <2>2. list \in Seq(StepRows) /\ steps[n] \in StepTables
    BY DEF TypeOK, StepTables
  <2>3. steps'[n].list = [list EXCEPT ![i] = row]
    BY <2>1, <2>2 DEF StepTables
  <2>4. DOMAIN list = 1 .. Len(list) /\ Len(list) \in Nat /\ i \in 1 .. Len(list)
    BY <2>2
  <2>5. \A j, k \in DOMAIN list : j < k /\ list[k].status # "planned" => StepIsTerminal(list[j].status)
    BY DEF StepsRunInOrder
  <2> HIDE DEF list
  <2>6. ~ StepIsTerminal(list[i].status) /\ (i > 1 => StepIsTerminal(list[i - 1].status))
    <3>1. list[i] \in StepRows
      BY <2>2, <2>4
    <3>2. list[i].status \in StepStatuses
      BY <3>1 DEF StepRows
    <3>3. QED
      BY <2>1, <3>2 DEF CanChangeStepStatusTo, CanMaintStepTransition, AllowedMaintStepStatusTransitions,
                        StepIsTerminal, StepStatuses
  <2>7. a \in 1 .. Len(list) /\ b \in 1 .. Len(list) /\ i \in 1 .. Len(list)
    BY <2>3, <2>4
  <2>8. CASE b = i
    <3>1. CASE a = i - 1
      BY <2>3, <2>4, <2>6, <2>7, <2>8, <3>1
    <3>2. CASE a # i - 1
      <4>1. i - 1 \in DOMAIN list /\ a < i - 1
        BY <2>4, <2>7, <2>8, <3>2
      <4>2. list[i - 1].status # "planned"
        BY <2>6, <2>7, <2>8 DEF StepIsTerminal
      <4>3. QED
        BY <2>3, <2>4, <2>5, <2>7, <2>8, <4>1, <4>2
    <3>3. QED
      BY <3>1, <3>2
  <2>9. CASE b # i
    <3>1. list[b].status # "planned"
      BY <2>3, <2>4, <2>7, <2>9
    <3>2. StepIsTerminal(list[a].status)
      BY <2>4, <2>5, <2>7, <3>1
    <3>3. a # i
      BY <2>6, <3>2
    <3>4. QED
      BY <2>3, <2>4, <2>7, <3>2, <3>3
  <2>10. QED
    BY <2>8, <2>9
<1>4. CASE Effect(n)
  <2>1. CASE Created(n)
    BY <1>2, <2>1 DEF Created
  <2>2. CASE Updated(n)
    BY <1>1, <1>2, <2>2 DEF Updated, UpdateCmds
  <2>3. QED
    BY <1>1, <1>3, <1>4, <2>1, <2>2 DEF Effect, Untouched, Started, Finished
<1>5. CASE \E m \in Maints : Approve(m)
  BY <1>1, <1>5, ApproveEffect, Zenon DEF Approve, Planned, Untouched
<1>6. QED
  BY <1>4, <1>5, EffectOfStep

\* No handler moves a step outside a running maintenance or leaves one open.
LEMMA StepsMatchStatusStep ==
  ASSUME TypeOK, StepsMatchStatus, [Next]_vars
  PROVE  StepsMatchStatus'
<1> SUFFICES ASSUME NEW n \in Maints
             PROVE  /\ maint'[n].status \in Unstarted =>
                         \A i \in DOMAIN steps'[n].list : steps'[n].list[i] = PlannedStep
                    /\ maint'[n].status = "completed" => AllStepsTerminal(steps'[n].list)
  BY DEF StepsMatchStatus
<1>1. CASE Effect(n)
  <2>1. CASE Untouched(n) \/ Started(n) \/ Finished(n) \/ StepMoved(n)
    BY <2>1 DEF StepsMatchStatus, Untouched, Started, Finished, StepMoved, Unstarted
  <2>2. CASE Created(n)
    BY <2>2, NewStepsPlanned DEF Created, NewDraft
  <2>3. CASE Updated(n)
    <3>1. PICK cmd \in UpdateCmds :
            steps'[n] = IF cmd.plan = KeepSteps THEN steps[n] ELSE StepsFromCmd(cmd.plan)
      BY <2>3 DEF Updated
    <3>2. CASE cmd.plan = KeepSteps
      BY <2>3, <3>1, <3>2 DEF Updated, StepsMatchStatus, Unstarted
    <3>3. CASE cmd.plan \in Plans /\ cmd.plan # KeepSteps
      BY <2>3, <3>1, <3>3, NewStepsPlanned DEF Updated
    <3>4. QED
      BY <3>2, <3>3 DEF UpdateCmds
  <2>4. QED
    BY <1>1, <2>1, <2>2, <2>3 DEF Effect
<1>2. CASE \E m \in Maints : Approve(m)
  <2>1. Planned(n) \/ Untouched(n)
    BY <1>2, ApproveEffect DEF Approve
  <2>2. QED
    BY <2>1 DEF Planned, Untouched, StepsMatchStatus, Unstarted
<1>3. QED
  BY <1>1, <1>2, EffectOfStep

\* No handler opens, closes or drops the actual window out of turn.
LEMMA ActualPeriodMatchesStatusStep ==
  ASSUME TypeOK, ActualPeriodMatchesStatus, [Next]_vars
  PROVE  ActualPeriodMatchesStatus'
<1> SUFFICES ASSUME NEW n \in Maints
             PROVE  /\ IsOpen(maint'[n].actual) <=> maint'[n].status = "in_progress"
                    /\ maint'[n].status \in Unstarted \cup {"absent"} => maint'[n].actual = NoPeriod
                    /\ IsTerminal(maint'[n].status) =>
                         maint'[n].actual = NoPeriod \/ maint'[n].actual.start < maint'[n].actual.end
  BY DEF ActualPeriodMatchesStatus
<1>1. /\ IsOpen(maint[n].actual) <=> maint[n].status = "in_progress"
      /\ maint[n].status \in Unstarted \cup {"absent"} => maint[n].actual = NoPeriod
      /\ IsTerminal(maint[n].status) =>
           maint[n].actual = NoPeriod \/ maint[n].actual.start < maint[n].actual.end
  BY DEF ActualPeriodMatchesStatus
<1>2. maint[n].actual \in ActualPeriods
  BY DEF TypeOK, Rows
<1>3. CASE Untouched(n) \/ Updated(n) \/ StepMoved(n) \/ Planned(n)
  BY <1>1, <1>3 DEF Untouched, Updated, StepMoved, Planned, Unstarted, IsTerminal
<1>4. CASE Created(n)
  BY <1>4 DEF Created, NewDraft, NoPeriod, IsOpen, IsTerminal
<1>5. CASE Started(n)
  BY <1>5, ReadingsAreTimes, BoundsAssumption DEF Started, NewOpenEndedPeriod, IsOpen, IsTerminal, Unstarted, Times, Nil
<1>6. CASE Finished(n)
  <2> DEFINE p == maint[n].actual
  <2>1. (\E t \in UTCNow : maint'[n].actual = CloseActualPeriod(p, t)) /\ (p = NoPeriod \/ IsOpen(p))
    <3>1. maint[n].status = "in_progress" => IsOpen(p) /\ p # NoPeriod
      BY <1>1 DEF IsOpen, NoPeriod
    <3>2. QED
      BY <1>1, <1>6, <3>1 DEF Finished
  <2>2. IsTerminal(maint'[n].status)
    BY <1>6 DEF Finished, IsTerminal
  <2>0. PICK t \in UTCNow : maint'[n].actual = CloseActualPeriod(p, t)
    BY <2>1
  <2>3. CloseActualPeriod(p, t) = NoPeriod
        \/ /\ CloseActualPeriod(p, t).start = p.start
           /\ CloseActualPeriod(p, t).end = t
           /\ p.start < t
    BY <1>2 DEF CloseActualPeriod, ActualPeriods
  <2>4. t # Nil
    BY ReadingsAreTimes, BoundsAssumption DEF Times, Nil
  <2>5. QED
    BY <2>0, <2>1, <2>2, <2>3, <2>4 DEF IsOpen, NoPeriod, IsTerminal, Unstarted
<1>7. Effect(n) \/ Planned(n)
  BY EffectOfStep, ApproveEffect DEF Approve, Effect
<1>8. QED
  BY <1>3, <1>4, <1>5, <1>6, <1>7, ZenonT(40) DEF Effect

\* Every handler that replaces the steps or moves the start keeps the length.
LEMMA WindowFitsStepsStep ==
  ASSUME TypeOK, WindowFitsSteps, [Next]_vars
  PROVE  WindowFitsSteps'
<1> SUFFICES ASSUME NEW n \in Maints
             PROVE  Duration(maint'[n].planned) = steps'[n].total
  BY DEF WindowFitsSteps
<1>1. /\ Duration(maint[n].planned) = steps[n].total
      /\ maint[n].planned.start \in Int /\ maint[n].planned.end \in Int
  BY DEF WindowFitsSteps, TypeOK, Rows, PlannedPeriods, Times
<1>2. CASE Untouched(n) \/ Planned(n) \/ Started(n) \/ Finished(n)
  BY <1>1, <1>2 DEF Untouched, Planned, Started, Finished, PlanKept
<1>3. CASE StepMoved(n)
  <2>1. steps[n] \in StepTables
    BY DEF TypeOK
  <2>2. steps'[n].total = steps[n].total
    BY <1>3, <2>1 DEF StepMoved, StepTables
  <2>3. QED
    BY <1>1, <1>3, <2>2 DEF StepMoved, PlanKept
<1>4. CASE Created(n)
  <2>1. PICK plan \in Plans, start \in Times, scope \in Scopes, approver \in Users :
          /\ steps'[n] = StepsFromCmd(plan)
          /\ maint'[n] = NewDraft(start, plan, scope, approver)
    BY <1>4 DEF Created
  <2>2. plan.total \in Int /\ start \in Int
    BY PlansAssumption DEF Times
  <2>3. QED
    BY <2>1, <2>2 DEF NewDraft, StepsFromCmd, RecalculatePlannedPeriod, Duration
<1>5. CASE Updated(n)
  <2>1. PICK cmd \in UpdateCmds :
          /\ maint'[n].planned = UpdatedPeriod(maint[n].planned, cmd)
          /\ steps'[n] = IF cmd.plan = KeepSteps THEN steps[n] ELSE StepsFromCmd(cmd.plan)
    BY <1>5 DEF Updated
  <2>2. cmd.start \in Int /\ (cmd.plan # KeepSteps => cmd.plan.total \in Int)
    BY PlansAssumption DEF UpdateCmds, Times, Nil
  <2> DEFINE q == IF cmd.plan = KeepSteps THEN maint[n].planned
                  ELSE RecalculatePlannedPeriod(maint[n].planned.start, cmd.plan.total)
  <2>3. Duration(q) = steps'[n].total /\ q.start \in Int /\ q.end \in Int
    <3>1. CASE cmd.plan = KeepSteps
      <4>1. q = maint[n].planned /\ steps'[n] = steps[n]
        BY <2>1, <3>1, Zenon
      <4> QED
        BY <1>1, <4>1, Zenon
    <3>2. CASE cmd.plan # KeepSteps
      <4>1. q = RecalculatePlannedPeriod(maint[n].planned.start, cmd.plan.total) /\ steps'[n] = StepsFromCmd(cmd.plan)
        BY <2>1, <3>2, Zenon
      <4>2. steps'[n].total = cmd.plan.total
        BY <4>1 DEF StepsFromCmd
      <4>3. q.start = maint[n].planned.start /\ q.end = maint[n].planned.start + cmd.plan.total
        BY <4>1 DEF RecalculatePlannedPeriod
      <4> HIDE DEF q
      <4> QED
        BY <1>1, <2>2, <3>2, <4>2, <4>3 DEF Duration
    <3> QED
      BY <3>1, <3>2, Zenon
  <2>4. maint'[n].planned = IF cmd.start = Nil THEN q
                            ELSE [start |-> cmd.start, end |-> cmd.start + Duration(q)]
    BY <2>1 DEF UpdatedPeriod
  <2> HIDE DEF q
  <2>5. QED
    BY <2>2, <2>3, <2>4 DEF Duration
<1>6. Effect(n) \/ Planned(n)
  BY EffectOfStep, ApproveEffect DEF Approve, Effect
<1>7. QED
  BY <1>2, <1>3, <1>4, <1>5, <1>6, ZenonT(40) DEF Effect

\* The reason "not_started" is written only on a row that has not started.
LEMMA SweptNeverRanStep ==
  ASSUME TypeOK, StepsMatchStatus, ActualPeriodMatchesStatus, SweptNeverRan, [Next]_vars
  PROVE  SweptNeverRan'
<1> SUFFICES ASSUME NEW n \in Maints, maint'[n].reason = "not_started"
             PROVE  /\ maint'[n].status = "canceled"
                    /\ maint'[n].actual = NoPeriod
                    /\ \A i \in DOMAIN steps'[n].list : steps'[n].list[i] = PlannedStep
  BY DEF SweptNeverRan
<1>1. CASE Untouched(n)
  BY <1>1 DEF Untouched, SweptNeverRan
<1>2. CASE Created(n)
  BY <1>2 DEF Created, NewDraft
<1>3. CASE Updated(n) \/ Planned(n) \/ Started(n) \/ StepMoved(n)
  BY <1>3 DEF Updated, Planned, Started, StepMoved, SweptNeverRan
<1>4. CASE Finished(n)
  <2>1. maint[n].status \in Unstarted /\ maint'[n].status = "canceled"
    BY <1>4 DEF Finished, SweptNeverRan
  <2>2. maint[n].actual = NoPeriod
    BY <2>1 DEF ActualPeriodMatchesStatus
  <2>3. maint'[n].actual = NoPeriod
    BY <1>4, <2>1, <2>2 DEF Finished, CloseActualPeriod
  <2>4. QED
    BY <1>4, <2>1, <2>3 DEF Finished, StepsMatchStatus
<1>5. Effect(n) \/ Planned(n)
  BY EffectOfStep, ApproveEffect DEF Approve, Effect
<1>6. QED
  BY <1>1, <1>2, <1>3, <1>4, <1>5, ZenonT(40) DEF Effect

\* Two maintenances collide or not whichever is asked about the other.
LEMMA CollidesSymmetric ==
  ASSUME NEW row1, NEW row2, NEW res1, NEW res2
  PROVE  Collides(row1, res1, row2, res2) <=> Collides(row2, res2, row1, res1)
BY DEF Collides, Overlap, SharesZone

\* A collision depends on windows, scopes and resources only.
LEMMA CollidesKept ==
  ASSUME NEW row1, NEW row2, NEW row3, NEW row4, NEW res1, NEW res2,
         row1.planned = row3.planned, row1.scope = row3.scope,
         row2.planned = row4.planned, row2.scope = row4.scope
  PROVE  Collides(row1, res1, row2, res2) <=> Collides(row3, res1, row4, res2)
BY DEF Collides

\* A maintenance becomes active only by an approval that saw its active neighbours.
LEMMA NoMutualBlindnessStep ==
  ASSUME TypeOK, NoMutualBlindness, [Next]_vars
  PROVE  NoMutualBlindness'
<1> SUFFICES ASSUME NEW a \in Maints, NEW b \in Maints, a # b,
                    maint'[a].status \in ActiveStatuses, maint'[b].status \in ActiveStatuses,
                    Collides(maint'[a], resources'[a], maint'[b], resources'[b])
             PROVE  a \in snapshots'[b] \/ b \in snapshots'[a]
  BY DEF NoMutualBlindness
<1> DEFINE StaysActive(n) == /\ maint[n].status \in ActiveStatuses
                             /\ maint'[n].planned = maint[n].planned
                             /\ maint'[n].scope = maint[n].scope
                             /\ resources'[n] = resources[n]
                             /\ snapshots'[n] = snapshots[n]
<1>1. ASSUME NEW n \in Maints, Effect(n), maint'[n].status \in ActiveStatuses PROVE StaysActive(n)
  <2>1. CASE Untouched(n)
    BY <1>1, <2>1, ZenonT(40) DEF Untouched, TasksAndSnapshotKept
  <2>2. CASE Created(n)
    BY <1>1, <2>2, CreatedIsDraft DEF ActiveStatuses
  <2>3. CASE Updated(n) \/ Finished(n)
    BY <1>1, <2>3, Zenon DEF Updated, Finished, ActiveStatuses
  <2>4. CASE Started(n) \/ StepMoved(n)
    BY <2>4 DEF Started, StepMoved, PlanKept, TasksAndSnapshotKept, ActiveStatuses
  <2>5. QED
    BY <1>1, <2>1, <2>2, <2>3, <2>4 DEF Effect
<1>2. CASE StaysActive(a) /\ StaysActive(b)
  <2>1. Collides(maint[a], resources[a], maint[b], resources[b])
    BY <1>2, CollidesKept
  <2>2. QED
    BY <1>2, <2>1, Zenon DEF NoMutualBlindness
<1>3. CASE \E m \in Maints : Approve(m)
  <2>0. PICK m \in Maints : Approve(m)
    BY <1>3
  <2>1. PICK S \in InformedSnapshots(m) : ApproveMaint(m, S)
    BY <2>0 DEF Approve
  <2>2. /\ Planned(m) /\ snapshots'[m] = S
        /\ \A n \in Maints \ {m} : Untouched(n)
    BY <2>1, ApproveEffect
  <2>3. /\ maint'[m].planned = maint[m].planned /\ maint'[m].scope = maint[m].scope
        /\ resources'[m] = resources[m]
    BY <2>2 DEF Planned, PlanKept
  <2>4. ASSUME NEW n \in Maints \ {m}, maint'[n].status \in ActiveStatuses,
               Collides(maint'[m], resources'[m], maint'[n], resources'[n])
        PROVE  n \in snapshots'[m]
    <3>1. maint'[n] = maint[n] /\ resources'[n] = resources[n]
      BY <2>2 DEF Untouched
    <3>2. Collides(maint[m], resources[m], maint[n], resources[n])
      BY <2>3, <2>4, <3>1, CollidesKept
    <3>3. n \in ConflictedMaints(m, maint[m], resources[m])
      BY <2>4, <3>1, <3>2 DEF ConflictedMaints
    <3>4. QED
      BY <2>2, <3>3 DEF InformedSnapshots
  <2>5. CASE a = m
    BY <2>4, <2>5
  <2>6. CASE b = m
    BY <2>4, <2>6, CollidesSymmetric
  <2>7. CASE a # m /\ b # m
    BY <1>2, <2>2, <2>7 DEF Untouched, TasksAndSnapshotKept
  <2>8. QED
    BY <2>5, <2>6, <2>7
<1>4. QED
  BY <1>1, <1>2, <1>3, EffectOfStep

\* Only ApproveMaint enqueues reminders, and no edit follows it.
LEMMA TasksMatchRemindersStep ==
  ASSUME TypeOK, TasksMatchReminders, [Next]_vars
  PROVE  TasksMatchReminders'
<1> SUFFICES ASSUME NEW n \in Maints, NEW r \in Reminders
             PROVE  /\ maint'[n].status \in {"absent", "draft"} => tasks'[n][r] = "none"
                    /\ maint'[n].status \notin {"absent", "draft", "canceled"} =>
                         (tasks'[n][r] # "none" <=> deferred'[n][r] # Nil)
  BY DEF TasksMatchReminders, Approved
<1>1. /\ maint[n].status \in {"absent", "draft"} => tasks[n][r] = "none"
      /\ maint[n].status \notin {"absent", "draft", "canceled"} =>
           (tasks[n][r] # "none" <=> deferred[n][r] # Nil)
  BY DEF TasksMatchReminders, Approved
<1>2. CASE Untouched(n) \/ Started(n) \/ Finished(n) \/ StepMoved(n)
  BY <1>1, <1>2 DEF Untouched, Started, Finished, StepMoved, PlanKept, TasksAndSnapshotKept, Unstarted
<1>3. CASE Created(n) \/ Updated(n)
  BY <1>1, <1>3, CreatedIsDraft DEF Created, Updated, TasksAndSnapshotKept
<1>4. CASE Planned(n)
  BY <1>1, <1>4, Zenon DEF Planned, PlanKept
<1>5. Effect(n) \/ Planned(n)
  BY EffectOfStep, ApproveEffect DEF Approve, Effect
<1>6. QED
  BY <1>2, <1>3, <1>4, <1>5, ZenonT(40) DEF Effect

\* The clock never goes back.
LEMMA ClockStep ==
  ASSUME TypeOK, [Next]_vars
  PROVE  now' \in Nat /\ now \in Nat /\ now <= now'
<1>1. now \in Nat
  BY BoundsAssumption DEF TypeOK, Times
<1>2. ASSUME NEW m \in Maints, Edit(m) PROVE now' = now
  BY <1>2, Zenon DEF Edit, CreateDraft, UpdateDraft, StartMaint, CompleteMaint, CancelMaint, StartStep, CompleteStep,
              CancelStep, UpdateStep
<1>3. ASSUME NEW m \in Maints, Approve(m) PROVE now' = now
  BY <1>3 DEF Approve, ApproveMaint
<1>4. ASSUME NEW w \in Sweepers, SweepList(w) \/ SweepCancel(w) \/ SweepItemFails(w) \/ SweepCrash(w) PROVE now' = now
  BY <1>4 DEF SweepList, SweepCancel, SweepItemFails, SweepCrash
<1>5. CASE Tick
  BY <1>1, <1>5 DEF Tick
<1>6. CASE UNCHANGED vars
  BY <1>1, <1>6 DEF vars
<1>7. QED
  BY <1>1, <1>2, <1>3, <1>4, <1>5, <1>6 DEF Next

\* Whatever clock a handler reads, the reading is near the true time.
LEMMA ReadingsAreNear ==
  ASSUME TypeOK, NEW t \in UTCNow
  PROVE  t \in Nat /\ now \in Nat /\ t <= now + MaxSkew /\ now <= t + MaxSkew
BY BoundsAssumption DEF UTCNow, Times, TypeOK

\* The stamps of the step row s at time t, in a maintenance with the actual window p.
StampsOK(s, p, t) ==
  /\ s.startedAt = Nil <=> s.status = "planned"
  /\ s.completedAt # Nil <=> StepIsTerminal(s.status)
  /\ s.startedAt <= t + MaxSkew /\ s.completedAt <= t + MaxSkew
  /\ s.completedAt # Nil => NotAfter(s.startedAt, s.completedAt)
  /\ p # NoPeriod /\ s.startedAt # Nil =>
       /\ NotAfter(p.start, s.startedAt)
       /\ p.end # Nil => NotAfter(s.startedAt, p.end) /\ NotAfter(s.completedAt, p.end)

\* StepTimesWithinSkew, strengthened: the stamps of a step tell its status, none lies
\* further ahead of the time than a clock may be, and the order holds between any
\* two steps.
StampsInOrder ==
  \A m \in Maints :
    /\ maint[m].actual.start <= now + MaxSkew
    /\ \A i \in DOMAIN steps[m].list : StampsOK(steps[m].list[i], maint[m].actual, now)
    /\ \A i, j \in DOMAIN steps[m].list :
         i < j /\ steps[m].list[i].completedAt # Nil /\ steps[m].list[j].startedAt # Nil =>
           NotAfter(steps[m].list[i].completedAt, steps[m].list[j].startedAt)

-----------------------------------------------------------------------------
(* The theorems.                                                           *)

\* The inductive invariant.
LifeInvariant ==
  /\ TypeOK
  /\ StepsRunInOrder
  /\ StepsMatchStatus
  /\ ActualPeriodMatchesStatus
  /\ WindowFitsSteps
  /\ SweptNeverRan
  /\ NoMutualBlindness
  /\ TasksMatchReminders

\* The inductive invariant holds of the empty tables.
LEMMA LifeInvariantInit == Init => LifeInvariant
<1> SUFFICES ASSUME Init PROVE LifeInvariant
  OBVIOUS
<1>1. \A m \in Maints : /\ maint[m] = NoRow
                        /\ steps[m].list = <<>> /\ steps[m].total = 0
                        /\ \A r \in Reminders : tasks[m][r] = "none"
  BY DEF Init
<1>2. /\ NoRow.status = "absent" /\ NoRow.actual = NoPeriod /\ NoRow.reason = "none"
      /\ NoRow.planned = [start |-> 0, end |-> 0]
  BY DEF NoRow
<1>3. StepsRunInOrder /\ StepsMatchStatus /\ SweptNeverRan
  <2>1. \A m \in Maints : DOMAIN steps[m].list = {}
    BY <1>1
  <2>2. StepsRunInOrder
    BY <2>1, Zenon DEF StepsRunInOrder
  <2>3. \A m \in Maints : maint[m].status \notin Unstarted /\ maint[m].status # "completed" /\ maint[m].reason # "not_started"
    BY <1>1, <1>2 DEF Unstarted
  <2> QED
    BY <2>2, <2>3, Zenon DEF StepsMatchStatus, SweptNeverRan
<1>4. ActualPeriodMatchesStatus
  BY <1>1, <1>2 DEF ActualPeriodMatchesStatus, NoPeriod, IsOpen, IsTerminal
<1>5. WindowFitsSteps
  BY <1>1, <1>2 DEF WindowFitsSteps, Duration
<1>6. NoMutualBlindness /\ TasksMatchReminders
  BY <1>1, <1>2 DEF NoMutualBlindness, TasksMatchReminders, ActiveStatuses, Approved
<1>7. QED
  BY <1>3, <1>4, <1>5, <1>6, TypeInit DEF LifeInvariant

\* Every handler and every step of a sweep preserves the inductive invariant.
LEMMA LifeInvariantStep == LifeInvariant /\ [Next]_vars => LifeInvariant'
BY TypeNext, StepsRunInOrderStep, StepsMatchStatusStep, ActualPeriodMatchesStatusStep,
   WindowFitsStepsStep, SweptNeverRanStep, NoMutualBlindnessStep, TasksMatchRemindersStep
   DEF LifeInvariant

\* The inductive invariant holds of every reachable state.
LEMMA LifeInvariantHolds == Spec => []LifeInvariant
BY LifeInvariantInit, LifeInvariantStep, PTL DEF Spec

\* The clock moves on, the step list and the window stay: the stamps stay good.
LEMMA StampsStay ==
  ASSUME NEW s \in StepRows, NEW p, StampsOK(s, p, now), now \in Nat, now' \in Nat, now <= now'
  PROVE  StampsOK(s, p, now')
BY BoundsAssumption DEF StampsOK, StepRows, Times, Nil, NotAfter

\* A row no handler has touched carries no stamp.
LEMMA PlannedStepStamps ==
  ASSUME NEW p, now' \in Nat
  PROVE  StampsOK(PlannedStep, p, now')
<1>1. PlannedStep.startedAt = Nil /\ PlannedStep.completedAt = Nil /\ PlannedStep.status = "planned"
  BY DEF PlannedStep
<1>2. MaxSkew \in Nat /\ ~ StepIsTerminal("planned")
  BY BoundsAssumption DEF StepIsTerminal
<1>3. Nil <= now' + MaxSkew
  <2>1. PICK t \in Nat : t = now'
    OBVIOUS
  <2>2. Nil <= t + MaxSkew
    BY <1>2 DEF Nil
  <2> QED
    BY <2>1, <2>2
<1> QED
  BY <1>1, <1>2, <1>3, Zenon DEF StampsOK

\* Every handler keeps the stamps in order.
LEMMA StampsInOrderStep ==
  ASSUME LifeInvariant, StampsInOrder, [Next]_vars
  PROVE  StampsInOrder'
<1> SUFFICES ASSUME NEW n \in Maints
             PROVE  /\ maint'[n].actual.start <= now' + MaxSkew
                    /\ \A i \in DOMAIN steps'[n].list : StampsOK(steps'[n].list[i], maint'[n].actual, now')
                    /\ \A i, j \in DOMAIN steps'[n].list :
                         i < j /\ steps'[n].list[i].completedAt # Nil /\ steps'[n].list[j].startedAt # Nil =>
                           NotAfter(steps'[n].list[i].completedAt, steps'[n].list[j].startedAt)
  BY ZenonT(40) DEF StampsInOrder
<1> DEFINE list == steps[n].list
           p == maint[n].actual
<1>1. TypeOK /\ now' \in Nat /\ now \in Nat /\ now <= now' /\ now' \in Times
  BY ClockStep, TypeNext DEF LifeInvariant, TypeOK
<1>2. /\ list \in Seq(StepRows) /\ \A i \in DOMAIN list : list[i] \in StepRows
      /\ p \in ActualPeriods
  BY <1>1 DEF TypeOK, StepTables, Rows
<1>3. /\ p.start <= now + MaxSkew
      /\ \A i \in DOMAIN list : StampsOK(list[i], p, now)
      /\ \A i, j \in DOMAIN list : i < j /\ list[i].completedAt # Nil /\ list[j].startedAt # Nil =>
                                     NotAfter(list[i].completedAt, list[j].startedAt)
  BY ZenonT(40) DEF StampsInOrder
<1>4. /\ IsOpen(p) <=> maint[n].status = "in_progress"
      /\ maint[n].status \in Unstarted \cup {"absent"} => p = NoPeriod
  BY DEF LifeInvariant, ActualPeriodMatchesStatus
<1>5. /\ maint[n].status \in Unstarted => \A i \in DOMAIN list : list[i] = PlannedStep
      /\ \A i, j \in DOMAIN list : i < j /\ list[j].status # "planned" => StepIsTerminal(list[i].status)
  BY DEF LifeInvariant, StepsMatchStatus, StepsRunInOrder
<1>6. p.start \in Times \cup {Nil} /\ p.start <= now' + MaxSkew
  BY <1>1, <1>2, <1>3, BoundsAssumption DEF ActualPeriods, Times, Nil
<1>7. \A i \in DOMAIN list : StampsOK(list[i], p, now')
  BY <1>1, <1>2, <1>3, StampsStay
<1> HIDE DEF list, p
<1>8. CASE steps'[n].list = list /\ maint'[n].actual = p
  BY <1>3, <1>6, <1>7, <1>8
<1>9. CASE (\A i \in DOMAIN steps'[n].list : steps'[n].list[i] = PlannedStep) /\ maint'[n].actual.start <= now' + MaxSkew
  BY <1>1, <1>9, PlannedStepStamps DEF PlannedStep
<1>10. CASE Created(n) \/ Updated(n)
  <2>1. maint'[n].actual = NoPeriod
    BY <1>4, <1>10, CreatedIsDraft, ZenonT(40) DEF Created, Updated, p, Unstarted
  <2>2. maint'[n].actual.start <= now' + MaxSkew
    BY <1>1, <2>1, BoundsAssumption DEF NoPeriod, Nil
  <2>3. CASE steps'[n] = steps[n] /\ Updated(n)
    BY <1>8, <2>3, ZenonT(40) DEF Updated, list, p
  <2>4. ASSUME NEW plan \in Plans, steps'[n] = StepsFromCmd(plan)
        PROVE  \A i \in DOMAIN steps'[n].list : steps'[n].list[i] = PlannedStep
    BY <2>4, NewStepsPlanned
  <2>5. QED
    BY <1>9, <1>10, <2>2, <2>3, <2>4, ZenonT(40) DEF Created, Updated, UpdateCmds
<1>11. CASE Started(n)
  <2>1. steps'[n].list = list /\ \A i \in DOMAIN list : list[i] = PlannedStep
    BY <1>5, <1>11 DEF Started, list, Unstarted
  <2>2. maint'[n].actual.start <= now' + MaxSkew
    BY <1>1, <1>11, ReadingsAreNear, BoundsAssumption DEF Started, NewOpenEndedPeriod
  <2>3. QED
    BY <1>9, <2>1, <2>2, ZenonT(40)
<1>12. CASE Finished(n)
  <2>1. steps'[n].list = list
    BY <1>12, ZenonT(40) DEF Finished, list
  <2>2. PICK t \in UTCNow : maint'[n].actual = CloseActualPeriod(p, t)
    BY <1>4, <1>12 DEF Finished, p, IsOpen, NoPeriod
  <2>3. CASE maint'[n].actual = NoPeriod
    <3>1. \A i \in DOMAIN list : StampsOK(list[i], NoPeriod, now')
      BY <1>7, ZenonT(40) DEF StampsOK
    <3>2. maint'[n].actual.start <= now' + MaxSkew
      BY <1>1, <2>3, BoundsAssumption DEF NoPeriod, Nil
    <3>3. QED
      BY <1>3, <2>1, <2>3, <3>1, <3>2
  <2>4. CASE maint'[n].actual # NoPeriod
    <3>1. PICK q : q = maint'[n].actual
      OBVIOUS
    <3>2. q = [p EXCEPT !.end = t] /\ p # NoPeriod
      BY <2>2, <2>4, <3>1 DEF CloseActualPeriod
    <3>3. q.start = p.start /\ q.end = t
      BY <1>2, <3>2 DEF ActualPeriods
    <3>4. ASSUME NEW i \in DOMAIN list PROVE StampsOK(list[i], q, now')
      <4>1. StampsOK(list[i], p, now) /\ StampsOK(list[i], p, now')
        BY <1>3, <1>7
      <4>2. list[i].startedAt \in Int /\ list[i].completedAt \in Int
        BY <1>2, BoundsAssumption DEF StepRows, Times, Nil
      <4>3. QED
        BY <1>1, <3>2, <3>3, <4>1, <4>2, ReadingsAreNear, BoundsAssumption DEF StampsOK, NotAfter
    <3>5. QED
      BY <1>3, <1>6, <2>1, <3>1, <3>3, <3>4
  <2>5. QED
    BY <2>3, <2>4
<1>13. CASE StepMoved(n)
  <2>1. PICK k \in DOMAIN list, row \in StepRows :
          /\ CanChangeStepStatusTo(list, k, row.status)
          /\ Stamped(list[k], row)
          /\ steps'[n] = [steps[n] EXCEPT !.list[k] = row]
    BY <1>13, Zenon DEF StepMoved, list
  <2>2. steps'[n].list = [list EXCEPT ![k] = row]
    BY <1>1, <2>1 DEF TypeOK, StepTables, list
  <2>3. maint'[n].actual = p /\ IsOpen(p)
    BY <1>4, <1>13 DEF StepMoved, p
  <2>4. PICK old \in StepRows : old = list[k] /\ StampsOK(old, p, now)
    BY <1>2, <1>3, <2>1
  <2>5. \/ old.status = "planned" /\ row.status = "started"
        \/ old.status = "started" /\ row.status \in {"completed", "canceled"}
    <3>1. old.status \in StepStatuses
      BY <2>4 DEF StepRows
    <3>2. QED
      BY <2>1, <2>4, <3>1 DEF CanChangeStepStatusTo, CanMaintStepTransition, AllowedMaintStepStatusTransitions, StepStatuses
  <2>6. PICK t \in UTCNow :
          \/ /\ old.status = "planned" /\ row.status = "started"
             /\ row.startedAt = t /\ row.completedAt = Nil
          \/ /\ old.status = "started" /\ row.status \in {"completed", "canceled"}
             /\ row.startedAt = old.startedAt /\ row.completedAt = t
    BY <2>1, <2>4, <2>5 DEF Stamped, StampsOK, StepIsTerminal
  <2>7. StampsOK(row, p, now')
    <3>1. old.startedAt \in Times \cup {Nil} /\ p # NoPeriod /\ p.end = Nil
      BY <2>3, <2>4 DEF StepRows, IsOpen, NoPeriod
    <3>2. t \in Nat /\ t <= now + MaxSkew /\ now <= t + MaxSkew
      BY <1>1, ReadingsAreNear
    <3>3. QED
      BY <1>1, <1>3, <1>6, <2>4, <2>6, <3>1, <3>2, BoundsAssumption DEF StampsOK, StepIsTerminal, Times, Nil, NotAfter
  <2>8. \A i \in DOMAIN list : StampsOK(steps'[n].list[i], p, now')
    BY <1>7, <2>1, <2>2, <2>7
  <2>9. ASSUME NEW i \in DOMAIN list, NEW j \in DOMAIN list, i < j,
               steps'[n].list[i].completedAt # Nil, steps'[n].list[j].startedAt # Nil
        PROVE  NotAfter(steps'[n].list[i].completedAt, steps'[n].list[j].startedAt)
    <3>0. i # j
      BY <1>2, <2>9
    <3>1. CASE i # k /\ j # k
      BY <1>3, <2>2, <2>9, <3>1
    <3>2. CASE j = k /\ old.status = "planned"
      <4>1. steps'[n].list[i] = list[i] /\ steps'[n].list[j].startedAt = t /\ StampsOK(list[i], p, now)
        BY <1>3, <2>1, <2>2, <2>6, <3>0, <3>2
      <4>2. list[i].completedAt \in Int
        BY <1>2, BoundsAssumption DEF StepRows, Times, Nil
      <4>3. QED
        BY <1>1, <4>1, <4>2, ReadingsAreNear, BoundsAssumption DEF StampsOK, NotAfter
    <3>3. CASE j = k /\ old.status = "started"
      <4>1. steps'[n].list[i] = list[i] /\ steps'[n].list[j].startedAt = list[j].startedAt
        BY <2>1, <2>2, <2>4, <2>6, <3>0, <3>3
      <4>2. QED
        BY <1>3, <2>9, <4>1
    <3>4. CASE i = k
      <4>1. steps'[n].list[j] = list[j] /\ StampsOK(list[j], p, now)
        BY <1>3, <2>2, <3>0, <3>4
      <4>2. list[j].status # "planned"
        BY <2>9, <4>1 DEF StampsOK
      <4>3. StepIsTerminal(old.status)
        BY <1>5, <2>4, <2>9, <3>4, <4>2
      <4>4. QED
        BY <2>5, <4>3 DEF StepIsTerminal
    <3>5. QED
      BY <2>5, <3>1, <3>2, <3>3, <3>4
  <2>10. DOMAIN steps'[n].list = DOMAIN list
    BY <2>2
  <2>11. QED
    BY <1>6, <2>3, <2>8, <2>9, <2>10
<1>14. CASE Untouched(n) \/ Planned(n)
  BY <1>8, <1>14, Zenon DEF Untouched, Planned, list, p
<1>15. Effect(n) \/ Planned(n)
  BY <1>1, EffectOfStep, ApproveEffect DEF Approve, Effect
<1>16. QED
  BY <1>10, <1>11, <1>12, <1>13, <1>14, <1>15, ZenonT(40) DEF Effect

\* Steps of a maintenance run in their order, for step lists of any length.
THEOREM StepOrder == Spec => []StepsRunInOrder
BY LifeInvariantHolds, PTL DEF LifeInvariant

\* The statuses of the steps and the recorded window agree with the status of
\* the maintenance, and the planned window with the length of the steps.
THEOREM StepsAndWindows == Spec => [](StepsMatchStatus /\ ActualPeriodMatchesStatus /\ WindowFitsSteps)
BY LifeInvariantHolds, PTL DEF LifeInvariant

\* The times stamped on steps lie inside the actual window, and one step ends before
\* the next begins, up to twice what a replica's clock may be off by, although a window
\* may close in the second it was opened in.
THEOREM StepTimes == Spec => []StepTimesWithinSkew
<1>1. LifeInvariant /\ StampsInOrder => StepTimesWithinSkew
  <2> SUFFICES ASSUME LifeInvariant, StampsInOrder, NEW m \in Maints
               PROVE  LET p == maint[m].actual
                          list == steps[m].list
                      IN  /\ p # NoPeriod =>
                               \A i \in DOMAIN list : list[i].startedAt # Nil =>
                                 /\ NotAfter(p.start, list[i].startedAt)
                                 /\ p.end # Nil =>
                                      NotAfter(list[i].startedAt, p.end) /\ NotAfter(list[i].completedAt, p.end)
                          /\ \A i \in DOMAIN list : list[i].completedAt # Nil =>
                               /\ NotAfter(list[i].startedAt, list[i].completedAt)
                               /\ i < Len(list) /\ list[i + 1].startedAt # Nil =>
                                    NotAfter(list[i].completedAt, list[i + 1].startedAt)
    BY Zenon DEF StepTimesWithinSkew
  <2>1. PICK list : list = steps[m].list /\ DOMAIN list = 1 .. Len(list) /\ Len(list) \in Nat
    BY DEF LifeInvariant, TypeOK, StepTables
  <2>2. \A i \in DOMAIN list : StampsOK(list[i], maint[m].actual, now)
    BY <2>1, ZenonT(40) DEF StampsInOrder
  <2>3. \A i, j \in DOMAIN list : i < j /\ list[i].completedAt # Nil /\ list[j].startedAt # Nil =>
                                     NotAfter(list[i].completedAt, list[j].startedAt)
    BY <2>1, ZenonT(40) DEF StampsInOrder
  <2>4. \A i \in DOMAIN list : i < Len(list) => i + 1 \in DOMAIN list /\ i < i + 1
    BY <2>1
  <2>5. QED
    BY <2>1, <2>2, <2>3, <2>4, ZenonT(40) DEF StampsOK
<1>2. Init => LifeInvariant /\ StampsInOrder
  <2>1. Init => StampsInOrder
    BY BoundsAssumption DEF Init, StampsInOrder, NoRow, NoPeriod, Nil
  <2>2. QED
    BY <2>1, LifeInvariantInit
<1>3. (LifeInvariant /\ StampsInOrder) /\ [Next]_vars => (LifeInvariant /\ StampsInOrder)'
  BY LifeInvariantStep, StampsInOrderStep
<1>4. QED
  BY <1>1, <1>2, <1>3, PTL DEF Spec

\* The auto-cancel sweep never cancels work that has begun.
THEOREM SweepIsSafe == Spec => []SweptNeverRan
BY LifeInvariantHolds, PTL DEF LifeInvariant

\* No two colliding maintenances are approved in ignorance of each other.
THEOREM ApprovalsSeeEachOther == Spec => []NoMutualBlindness
BY LifeInvariantHolds, PTL DEF LifeInvariant

\* Reminder tasks exist exactly for the reminders of approved maintenances.
THEOREM ReminderTasks == Spec => []TasksMatchReminders
BY LifeInvariantHolds, PTL DEF LifeInvariant

\* A finished maintenance never changes again.
THEOREM TerminalStays == Spec => TerminalIsFinal
<1>1. ASSUME TypeOK, [Next]_vars, NEW n \in Maints, IsTerminal(maint[n].status)
      PROVE  Untouched(n)
  <2>1. CASE Effect(n)
    BY <1>1, <2>1 DEF Effect, Created, Updated, Started, Finished, StepMoved, IsTerminal, Unstarted
  <2>2. CASE \E m \in Maints : Approve(m)
    BY <1>1, <2>2, ApproveEffect, Zenon DEF Approve, Planned, IsTerminal
  <2>3. QED
    BY <1>1, <2>1, <2>2, EffectOfStep
<1>2. TypeOK /\ [Next]_vars =>
        [\A m \in Maints : IsTerminal(maint[m].status) =>
           /\ maint'[m] = maint[m]
           /\ resources'[m] = resources[m]
           /\ steps'[m] = steps[m]
           /\ deferred'[m] = deferred[m]
           /\ snapshots'[m] = snapshots[m]]_vars
  BY <1>1 DEF Untouched, TasksAndSnapshotKept
<1>3. QED
  BY <1>2, TypeCorrect, PTL DEF Spec, TerminalIsFinal

\* What was approved is never edited afterwards.
THEOREM ApprovedPlanStays == Spec => ApprovedPlanIsFrozen
<1>1. ASSUME TypeOK, [Next]_vars, NEW n \in Maints, Approved(n)
      PROVE  /\ maint'[n].planned = maint[n].planned
             /\ maint'[n].scope = maint[n].scope
             /\ resources'[n] = resources[n]
             /\ steps'[n].total = steps[n].total
             /\ Len(steps'[n].list) = Len(steps[n].list)
             /\ snapshots'[n] = snapshots[n]
  <2>1. Untouched(n) \/ Started(n) \/ Finished(n) \/ StepMoved(n)
    <3>1. CASE Effect(n)
      BY <1>1, <3>1, ZenonT(40) DEF Effect, Created, Updated, Approved
    <3>2. CASE \E m \in Maints : Approve(m)
      BY <1>1, <3>2, ApproveEffect, Zenon DEF Approve, Planned, Approved
    <3>3. QED
      BY <1>1, <3>1, <3>2, EffectOfStep
  <2>2. CASE Untouched(n) \/ Started(n) \/ Finished(n)
    BY <2>2, Zenon DEF Untouched, Started, Finished, PlanKept, TasksAndSnapshotKept
  <2>3. CASE StepMoved(n)
    <3>1. steps[n] \in StepTables /\ steps[n].list \in Seq(StepRows)
      BY <1>1 DEF TypeOK, StepTables
    <3>2. PICK i \in DOMAIN steps[n].list, row \in StepRows :
            steps'[n] = [steps[n] EXCEPT !.list[i] = row]
      BY <2>3, Zenon DEF StepMoved
    <3>3. steps'[n].total = steps[n].total /\ steps'[n].list = [steps[n].list EXCEPT ![i] = row]
      BY <3>1, <3>2 DEF StepTables
    <3>4. Len([steps[n].list EXCEPT ![i] = row]) = Len(steps[n].list)
      BY <3>1
    <3>5. QED
      BY <2>3, <3>3, <3>4 DEF StepMoved, PlanKept, TasksAndSnapshotKept
  <2>4. QED
    BY <2>1, <2>2, <2>3, Zenon
<1>2. TypeOK /\ [Next]_vars =>
        [\A m \in Maints : Approved(m) =>
           /\ maint'[m].planned = maint[m].planned
           /\ maint'[m].scope = maint[m].scope
           /\ resources'[m] = resources[m]
           /\ steps'[m].total = steps[m].total
           /\ Len(steps'[m].list) = Len(steps[m].list)
           /\ snapshots'[m] = snapshots[m]]_vars
  BY <1>1, Zenon
<1>3. QED
  BY <1>2, TypeCorrect, PTL DEF Spec, ApprovedPlanIsFrozen
=============================================================================
