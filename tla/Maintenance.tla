---------------------------- MODULE Maintenance ----------------------------
(***************************************************************************)
(* The maintenance aggregate as its database rows see it: every handler of *)
(* the maintenance service that writes a maintenance is one action, because *)
(* each runs as one transaction under SELECT ... FOR UPDATE on the row.    *)
(* The auto-cancel sweep is the exception: it lists candidates without a   *)
(* lock and cancels them one by one afterwards, so it is a process with a  *)
(* stale work list.                                                        *)
(*                                                                         *)
(* ApproveMaint is stated here by what it promises: at the instant of the  *)
(* approval the stored conflict snapshot names every active neighbour that *)
(* collides with the maintenance.  Module Approval contains the previews,  *)
(* the revision and fingerprint gate and the SERIALIZABLE transaction that *)
(* implement that promise.                                                 *)
(***************************************************************************)
EXTENDS MaintEntity, Sequences, FiniteSets

CONSTANTS
  Maints,      \* maintenance ids
  Resources,   \* resource ids
  Users,       \* possible approvers
  Plans,       \* step lists a command may carry: number of steps, total duration
  Reminders,   \* slots for deferred notifications of one maintenance
  Sweepers,    \* concurrent runs of the auto-cancel job
  SweepLimit,  \* batch size of one run
  Grace,       \* grace window after the planned start
  MaxSkew,     \* how far the clock of a replica may be from true time
  MaxTime,     \* bound on the clock
  MaxEdits     \* bound on the edits of one draft

ASSUME PlansAssumption ==
  Plans \subseteq [count : Nat \ {0}, total : Nat \ {0}]

ASSUME SetsAssumption ==
  IsFiniteSet(Maints) /\ Users # {}

ASSUME BoundsAssumption ==
  SweepLimit \in Nat \ {0} /\ Grace \in Nat /\ MaxSkew \in Nat /\ MaxTime \in Nat /\ MaxEdits \in Nat

VARIABLES
  maint,      \* table maintenances: one row per id
  resources,  \* table maintenance_resources
  steps,      \* table maintenance_steps, in step order, with their total duration
  deferred,   \* table deferred_notifications: fire time per reminder slot, or Nil
  tasks,      \* goque tasks of the reminders
  snapshots,  \* table conflict_snapshot: neighbours named by the approval
  now,        \* true time
  sweep       \* per auto-cancel run: the candidates still to be cancelled

rows == <<maint, resources, steps, deferred, tasks, snapshots>>
vars == <<rows, now, sweep>>

-----------------------------------------------------------------------------
(* Rows.                                                                   *)

Times == 0 .. MaxTime

\* What xtime.UTCNow() may answer: every replica reads a clock of its own.
UTCNow == {t \in Times : t - now <= MaxSkew /\ now - t <= MaxSkew}

Reasons == {"none", "user", "not_started"}
TaskStatuses == {"none", "pending", "processing", "done", "error", "canceled"}

PlannedPeriods == [start : Times, end : Int]
ActualPeriods == [start : Times \cup {Nil}, end : Times \cup {Nil}]

Rows == [ status   : MaintStatuses,
          scope    : Scopes,
          planned  : PlannedPeriods,
          actual   : ActualPeriods,
          approver : Users,
          reason   : Reasons,
          rev      : Nat ]

StepRows == [ status      : StepStatuses,
              startedAt   : Times \cup {Nil},
              completedAt : Times \cup {Nil} ]

StepTables == [total : Nat, list : Seq(StepRows)]

PlannedStep == [status |-> "planned", startedAt |-> Nil, completedAt |-> Nil]

StepsFromCmd(plan) == [total |-> plan.total, list |-> [i \in 1 .. plan.count |-> PlannedStep]]

NoReminders == [r \in Reminders |-> Nil]

NoRow ==
  [ status   |-> "absent",
    scope    |-> "global",
    planned  |-> [start |-> 0, end |-> 0],
    actual   |-> NoPeriod,
    approver |-> CHOOSE u \in Users : TRUE,
    reason   |-> "none",
    rev      |-> 0 ]

NewDraft(start, plan, scope, approver) ==
  [ status   |-> "draft",
    scope    |-> scope,
    planned  |-> RecalculatePlannedPeriod(start, plan.total),
    actual   |-> NoPeriod,
    approver |-> approver,
    reason   |-> "none",
    rev      |-> 0 ]

\* Every write of the row stamps updated_at, the token Revision() is read from.
\* Two writes of one row are never stamped alike, so the stamp is a counter.
UpdateMaint(m, row) == maint' = [maint EXCEPT ![m] = [row EXCEPT !.rev = @ + 1]]

\* The neighbours the conflict query returns for maintenance m, given the row
\* and the resources it is asked about.
ConflictedMaints(m, row, res) ==
  {n \in Maints \ {m} : /\ maint[n].status \in ActiveStatuses
                        /\ Collides(row, res, maint[n], resources[n])}

-----------------------------------------------------------------------------
(* Drafts.                                                                 *)

CreateDraft(m) ==
  /\ maint[m].status = "absent"
  /\ \E t \in UTCNow : \E start \in t .. MaxTime, plan \in Plans, scope \in Scopes,
        res \in SUBSET Resources, approver \in Users,
        fires \in [Reminders -> Times \cup {Nil}] :
       /\ scope = "resource" => res # {}
       /\ maint' = [maint EXCEPT ![m] = NewDraft(start, plan, scope, approver)]
       /\ resources' = [resources EXCEPT ![m] = Normalize(scope, res)]
       /\ steps' = [steps EXCEPT ![m] = StepsFromCmd(plan)]
       /\ deferred' = [deferred EXCEPT ![m] = fires]
  /\ UNCHANGED <<tasks, snapshots, now, sweep>>

\* An update command: every field is optional.  An empty list of steps or of
\* resources means "unchanged"; only the reminders tell "unchanged" from "none".
KeepSteps == [count |-> 0, total |-> 0]

UpdateCmds ==
  [ plan         : Plans \cup {KeepSteps},
    start        : Times \cup {Nil},
    scope        : Scopes \cup {"keep"},
    resources    : SUBSET Resources,
    approver     : Users,
    setReminders : BOOLEAN,
    reminders    : [Reminders -> Times \cup {Nil}] ]

\* Mutant: the start is moved with the length the window had before the edit.
UpdatedPeriod_OldDuration(p, cmd) ==
  LET q == IF cmd.plan = KeepSteps THEN p ELSE RecalculatePlannedPeriod(p.start, cmd.plan.total)
  IN  IF cmd.start = Nil THEN q ELSE [start |-> cmd.start, end |-> cmd.start + Duration(p)]

\* New steps are measured from the old start; only then is the start moved.
UpdatedPeriod(p, cmd) ==
  LET q == IF cmd.plan = KeepSteps THEN p ELSE RecalculatePlannedPeriod(p.start, cmd.plan.total)
  IN  IF cmd.start = Nil THEN q ELSE [start |-> cmd.start, end |-> cmd.start + Duration(q)]

ApplyValuesFromUpdateCmd(row, cmd) ==
  [row EXCEPT !.planned  = UpdatedPeriod(@, cmd),
              !.scope    = IF cmd.scope = "keep" THEN @ ELSE cmd.scope,
              !.approver = cmd.approver]

UpdatedResources(old, row, cmd) ==
  IF cmd.resources # {} \/ cmd.scope = "global" THEN Normalize(row.scope, cmd.resources) ELSE old

\* Mutant: an approved maintenance may still be edited.
UpdateDraft_Planned(m) ==
  /\ maint[m].status \in {"draft", "planned"}
  /\ maint[m].rev < MaxEdits
  /\ \E cmd \in UpdateCmds :
       LET row == ApplyValuesFromUpdateCmd(maint[m], cmd) IN
       /\ UpdateMaint(m, row)
       /\ resources' = [resources EXCEPT ![m] = UpdatedResources(@, row, cmd)]
       /\ steps' = [steps EXCEPT ![m] = IF cmd.plan = KeepSteps THEN @ ELSE StepsFromCmd(cmd.plan)]
       /\ deferred' = [deferred EXCEPT ![m] = IF cmd.setReminders THEN cmd.reminders ELSE @]
  /\ UNCHANGED <<tasks, snapshots, now, sweep>>

UpdateDraft(m) ==
  /\ maint[m].status = "draft"
  /\ maint[m].rev < MaxEdits
  /\ \E cmd \in UpdateCmds :
       LET row == ApplyValuesFromUpdateCmd(maint[m], cmd) IN
       /\ UpdateMaint(m, row)
       /\ resources' = [resources EXCEPT ![m] = UpdatedResources(@, row, cmd)]
       /\ steps' = [steps EXCEPT ![m] = IF cmd.plan = KeepSteps THEN @ ELSE StepsFromCmd(cmd.plan)]
       /\ deferred' = [deferred EXCEPT ![m] = IF cmd.setReminders THEN cmd.reminders ELSE @]
  /\ UNCHANGED <<tasks, snapshots, now, sweep>>

-----------------------------------------------------------------------------
(* Approval and the life of an approved maintenance.                       *)

\* The neighbours an approval may record: all that are active now, and none
\* that never collided as an approved maintenance.  A neighbour that ended
\* after the approver looked may still be named.
InformedSnapshots(m) ==
  {S \in SUBSET (Maints \ {m}) :
     /\ ConflictedMaints(m, maint[m], resources[m]) \subseteq S
     /\ \A n \in S : /\ maint[n].status \notin {"absent", "draft"}
                      /\ Collides(maint[m], resources[m], maint[n], resources[n])}

\* One task per reminder, enqueued in the transaction of the caller.
Schedule(m) ==
  tasks' = [tasks EXCEPT ![m] = [r \in Reminders |-> IF deferred[m][r] = Nil THEN "none" ELSE "pending"]]

\* Mutant: the reminders are not enqueued.
ApproveMaint_NoSchedule(m, snapshot) ==
  /\ CanMaintTransition(maint[m].status, "planned")
  /\ UpdateMaint(m, [maint[m] EXCEPT !.status = "planned"])
  /\ snapshots' = [snapshots EXCEPT ![m] = snapshot]
  /\ UNCHANGED <<resources, steps, deferred, tasks, now, sweep>>

ApproveMaint(m, snapshot) ==
  /\ CanMaintTransition(maint[m].status, "planned")
  /\ UpdateMaint(m, [maint[m] EXCEPT !.status = "planned"])
  /\ snapshots' = [snapshots EXCEPT ![m] = snapshot]
  /\ Schedule(m)
  /\ UNCHANGED <<resources, steps, deferred, now, sweep>>

\* Mutant: the actual window is opened with the planned end.
StartMaint_PlannedEnd(m) ==
  /\ CanMaintTransition(maint[m].status, "in_progress")
  /\ \E t \in UTCNow : UpdateMaint(m, [maint[m] EXCEPT !.status = "in_progress",
                                     !.actual = [start |-> t, end |-> maint[m].planned.end]])
  /\ UNCHANGED <<resources, steps, deferred, tasks, snapshots, now, sweep>>

StartMaint(m) ==
  /\ CanMaintTransition(maint[m].status, "in_progress")
  /\ \E t \in UTCNow : UpdateMaint(m, [maint[m] EXCEPT !.status = "in_progress", !.actual = NewOpenEndedPeriod(t)])
  /\ UNCHANGED <<resources, steps, deferred, tasks, snapshots, now, sweep>>

AllStepsTerminal(list) == \A i \in DOMAIN list : StepIsTerminal(list[i].status)

\* Mutant: unfinished steps do not stop the completion.
CompleteMaint_AnySteps(m) ==
  /\ CanMaintTransition(maint[m].status, "completed")
  /\ \E t \in UTCNow : UpdateMaint(m, [maint[m] EXCEPT !.status = "completed",
                                      !.actual = CloseActualPeriod(@, t)])
  /\ UNCHANGED <<resources, steps, deferred, tasks, snapshots, now, sweep>>

CompleteMaint(m) ==
  /\ CanMaintTransition(maint[m].status, "completed")
  /\ AllStepsTerminal(steps[m].list)
  /\ LET actual == IF maint[m].actual = NoPeriod THEN maint[m].planned ELSE maint[m].actual
     IN  \E t \in UTCNow :
           UpdateMaint(m, [maint[m] EXCEPT !.status = "completed", !.actual = CloseActualPeriod(actual, t)])
  /\ UNCHANGED <<resources, steps, deferred, tasks, snapshots, now, sweep>>

\* Mutant: the actual window stays open.
CancelWith_LeftOpen(m, reason) ==
  UpdateMaint(m, [maint[m] EXCEPT !.status = "canceled", !.reason = reason])

\* The write of a cancellation, shared by the handler and the sweep.
CancelWith(m, reason) ==
  \E t \in UTCNow : UpdateMaint(m, [maint[m] EXCEPT !.status = "canceled",
                                                    !.reason = reason,
                                                    !.actual = CloseActualPeriod(@, t)])

\* Mutant: the transition table is not asked.
CancelMaint_AnyStatus(m) ==
  /\ maint[m].status \notin {"absent", "canceled"}
  /\ CancelWith(m, "user")
  /\ UNCHANGED <<resources, steps, deferred, tasks, snapshots, now, sweep>>

CancelMaint(m) ==
  /\ CanMaintTransition(maint[m].status, "canceled")
  /\ CancelWith(m, "user")
  /\ UNCHANGED <<resources, steps, deferred, tasks, snapshots, now, sweep>>

-----------------------------------------------------------------------------
(* Steps.  A step moves only while its maintenance runs, and only after the *)
(* step before it is finished.                                             *)

\* Mutant: the previous step is not looked at.
CanChangeStepStatusTo_AnyOrder(list, i, status) == CanMaintStepTransition(list[i].status, status)

CanChangeStepStatusTo(list, i, status) ==
  /\ i > 1 => StepIsTerminal(list[i - 1].status)
  /\ CanMaintStepTransition(list[i].status, status)

UpdateStep(m, i, row) ==
  /\ maint[m].status = "in_progress"
  /\ CanChangeStepStatusTo(steps[m].list, i, row.status)
  /\ steps' = [steps EXCEPT ![m].list[i] = row]
  /\ UpdateMaint(m, maint[m])
  /\ UNCHANGED <<resources, deferred, tasks, snapshots, now, sweep>>

\* Mutant: the step is stamped with the planned start of its maintenance.
StartStep_PlannedTime(m, i) ==
  UpdateStep(m, i, [steps[m].list[i] EXCEPT !.status = "started", !.startedAt = maint[m].planned.start])

StartStep(m, i) ==
  \E t \in UTCNow : UpdateStep(m, i, [steps[m].list[i] EXCEPT !.status = "started", !.startedAt = t])

CompleteStep(m, i) ==
  \E t \in UTCNow : UpdateStep(m, i, [steps[m].list[i] EXCEPT !.status = "completed", !.completedAt = t])

CancelStep(m, i) ==
  \E t \in UTCNow : UpdateStep(m, i, [steps[m].list[i] EXCEPT !.status = "canceled", !.completedAt = t])

-----------------------------------------------------------------------------
(* The auto-cancel sweep.                                                  *)

Unstarted == {"draft", "planned"}

Overdue(cutoff) ==
  {m \in Maints : maint[m].status \in Unstarted /\ maint[m].planned.start < cutoff}

\* The batches ListOverdueNotStarted may return: the longest overdue first.
ListOverdueNotStarted(cutoff, limit) ==
  LET S == Overdue(cutoff)
      k == IF Cardinality(S) < limit THEN Cardinality(S) ELSE limit
      NoLater(m, n) == maint[m].planned.start <= maint[n].planned.start
  IN  {q \in [1 .. k -> S] :
         /\ \A i, j \in 1 .. k : i < j => q[i] # q[j] /\ NoLater(q[i], q[j])
         /\ \A m \in S : (\A i \in 1 .. k : q[i] # m) => \A i \in 1 .. k : NoLater(q[i], m)}

\* The processor derives the cutoff from its clock and lists the candidates.
SweepList(w) ==
  /\ sweep[w] = <<>>
  /\ \E t \in UTCNow :
       /\ Overdue(t - Grace) # {}
       /\ \E q \in ListOverdueNotStarted(t - Grace, SweepLimit) : sweep' = [sweep EXCEPT ![w] = q]
  /\ UNCHANGED <<rows, now>>

\* Mutant: the candidate is cancelled without asking whether it has started.
SweepCancel_Stale(w) ==
  /\ sweep[w] # <<>>
  /\ LET m == Head(sweep[w])
     IN  IF IsTerminal(maint[m].status) THEN UNCHANGED maint ELSE CancelWith(m, "not_started")
  /\ sweep' = [sweep EXCEPT ![w] = Tail(@)]
  /\ UNCHANGED <<resources, steps, deferred, tasks, snapshots, now>>

\* Mutant: drafts are listed but never cancelled.
SweepCancel_PlannedOnly(w) ==
  /\ sweep[w] # <<>>
  /\ LET m == Head(sweep[w])
     IN  IF maint[m].status = "planned" THEN CancelWith(m, "not_started") ELSE UNCHANGED maint
  /\ sweep' = [sweep EXCEPT ![w] = Tail(@)]
  /\ UNCHANGED <<resources, steps, deferred, tasks, snapshots, now>>

\* One candidate, re-read under its row lock: cancelled if it has still not
\* started, skipped otherwise.
SweepCancel(w) ==
  /\ sweep[w] # <<>>
  /\ LET m == Head(sweep[w])
     IN  IF maint[m].status \in Unstarted THEN CancelWith(m, "not_started") ELSE UNCHANGED maint
  /\ sweep' = [sweep EXCEPT ![w] = Tail(@)]
  /\ UNCHANGED <<resources, steps, deferred, tasks, snapshots, now>>

\* A failed candidate is left for the next run; the batch goes on.
SweepItemFails(w) ==
  /\ sweep[w] # <<>>
  /\ sweep' = [sweep EXCEPT ![w] = Tail(@)]
  /\ UNCHANGED <<rows, now>>

\* The worker dies: the rest of its batch is forgotten.
SweepCrash(w) ==
  /\ sweep[w] # <<>>
  /\ sweep' = [sweep EXCEPT ![w] = <<>>]
  /\ UNCHANGED <<rows, now>>

Tick ==
  /\ now < MaxTime
  /\ now' = now + 1
  /\ UNCHANGED <<rows, sweep>>

-----------------------------------------------------------------------------
Init ==
  /\ maint = [m \in Maints |-> NoRow]
  /\ resources = [m \in Maints |-> {}]
  /\ steps = [m \in Maints |-> [total |-> 0, list |-> <<>>]]
  /\ deferred = [m \in Maints |-> NoReminders]
  /\ tasks = [m \in Maints |-> [r \in Reminders |-> "none"]]
  /\ snapshots = [m \in Maints |-> {}]
  /\ now = 0
  /\ sweep = [w \in Sweepers |-> <<>>]

\* The handlers that write one maintenance, the approval apart.
Edit(m) ==
  \/ CreateDraft(m)
  \/ UpdateDraft(m)
  \/ StartMaint(m)
  \/ CompleteMaint(m)
  \/ CancelMaint(m)
  \/ \E i \in 1 .. Len(steps[m].list) : StartStep(m, i) \/ CompleteStep(m, i) \/ CancelStep(m, i)

Approve(m) == \E S \in InformedSnapshots(m) : ApproveMaint(m, S)

Next ==
  \/ \E m \in Maints : Edit(m) \/ Approve(m)
  \/ \E w \in Sweepers : SweepList(w) \/ SweepCancel(w) \/ SweepItemFails(w) \/ SweepCrash(w)
  \/ Tick

Spec == Init /\ [][Next]_vars

\* The cron job keeps running and a cancellation does not fail for ever.
SweepFairness == \A w \in Sweepers : WF_vars(SweepList(w)) /\ SF_vars(SweepCancel(w))

FairSpec == Spec /\ SweepFairness

-----------------------------------------------------------------------------
(* Properties.                                                             *)

\* The tables hold rows of the right shape (the columns of the schema).
TypeOK ==
  /\ maint \in [Maints -> Rows]
  /\ resources \in [Maints -> SUBSET Resources]
  /\ steps \in [Maints -> StepTables]
  /\ deferred \in [Maints -> [Reminders -> Times \cup {Nil}]]
  /\ tasks \in [Maints -> [Reminders -> TaskStatuses]]
  /\ snapshots \in [Maints -> SUBSET Maints]
  /\ now \in Times
  /\ sweep \in [Sweepers -> Seq(Maints)]

Approved(m) == maint[m].status \notin {"absent", "draft", "canceled"}

\* Work proceeds in step order whatever the interleaving of the step handlers:
\* a step has left "planned" only if every earlier one is finished, although
\* CanChangeStepStatusTo looks at the previous step alone.
StepsRunInOrder ==
  \A m \in Maints : \A i, j \in DOMAIN steps[m].list :
    i < j /\ steps[m].list[j].status # "planned" => StepIsTerminal(steps[m].list[i].status)

\* No step has moved before the maintenance started, and none is left open by
\* a completed one: CompleteMaint and the step handlers agree.
StepsMatchStatus ==
  \A m \in Maints :
    /\ maint[m].status \in Unstarted =>
         \A i \in DOMAIN steps[m].list : steps[m].list[i] = PlannedStep
    /\ maint[m].status = "completed" => AllStepsTerminal(steps[m].list)

\* The actual window is open exactly while the maintenance runs; afterwards it
\* is closed and strictly ordered, or dropped (what the CHECK on actual_period
\* demands of StartMaint, CompleteMaint and CancelMaint).
ActualPeriodMatchesStatus ==
  \A m \in Maints :
    LET p == maint[m].actual IN
    /\ IsOpen(p) <=> maint[m].status = "in_progress"
    /\ maint[m].status \in Unstarted \cup {"absent"} => p = NoPeriod
    /\ IsTerminal(maint[m].status) => p = NoPeriod \/ p.start < p.end

\* Two clocks, each off by MaxSkew at most, can show s for the earlier of two moments
\* and t for the later one.
NotAfter(s, t) == s <= t + 2 * MaxSkew

\* The times recorded on steps lie inside the actual window of their
\* maintenance, and one step ends before the next begins, up to what the clocks
\* of two replicas may differ by: no handler stamps with a time it did not read.
StepTimesWithinSkew ==
  \A m \in Maints :
    LET p == maint[m].actual
        list == steps[m].list
    IN  /\ p # NoPeriod =>
             \A i \in DOMAIN list : list[i].startedAt # Nil =>
               /\ NotAfter(p.start, list[i].startedAt)
               /\ p.end # Nil => NotAfter(list[i].startedAt, p.end) /\ NotAfter(list[i].completedAt, p.end)
        /\ \A i \in DOMAIN list : list[i].completedAt # Nil =>
             /\ NotAfter(list[i].startedAt, list[i].completedAt)
             /\ i < Len(list) /\ list[i + 1].startedAt # Nil =>
                  NotAfter(list[i].completedAt, list[i + 1].startedAt)

\* The planned window is as long as the steps it was computed from, through
\* every combination of edits (recalculatePlannedPeriod and the moved start).
WindowFitsSteps ==
  \A m \in Maints : Duration(maint[m].planned) = steps[m].total

\* The sweep never cancels work that has begun, although it acts on a stale
\* list: what it labels "not_started" has no actual window and no moved step.
SweptNeverRan ==
  \A m \in Maints : maint[m].reason = "not_started" =>
    /\ maint[m].status = "canceled"
    /\ maint[m].actual = NoPeriod
    /\ \A i \in DOMAIN steps[m].list : steps[m].list[i] = PlannedStep

\* Of two active maintenances that collide, at least one approval recorded the
\* other: no pair was approved with neither approver aware of the other.
NoMutualBlindness ==
  \A a, b \in Maints :
    /\ a # b
    /\ maint[a].status \in ActiveStatuses
    /\ maint[b].status \in ActiveStatuses
    /\ Collides(maint[a], resources[a], maint[b], resources[b])
    => a \in snapshots[b] \/ b \in snapshots[a]

\* A reminder task exists exactly for the reminders of an approved maintenance:
\* approve enqueues them in its own transaction, and no edit can follow it.
TasksMatchReminders ==
  \A m \in Maints : \A r \in Reminders :
    /\ maint[m].status \in {"absent", "draft"} => tasks[m][r] = "none"
    /\ Approved(m) => (tasks[m][r] # "none" <=> deferred[m][r] # Nil)

\* A finished maintenance never changes again: not its row, resources, steps,
\* reminders or snapshot, whatever handler or sweep still holds its id.
TerminalIsFinal ==
  [][\A m \in Maints : IsTerminal(maint[m].status) =>
       /\ maint'[m] = maint[m]
       /\ resources'[m] = resources[m]
       /\ steps'[m] = steps[m]
       /\ deferred'[m] = deferred[m]
       /\ snapshots'[m] = snapshots[m]]_vars

\* What was approved stays what was approved: after the approval no step may
\* touch the window, the scope, the resources, the step list or the snapshot.
ApprovedPlanIsFrozen ==
  [][\A m \in Maints : Approved(m) =>
       /\ maint'[m].planned = maint[m].planned
       /\ maint'[m].scope = maint[m].scope
       /\ resources'[m] = resources[m]
       /\ steps'[m].total = steps[m].total
       /\ Len(steps'[m].list) = Len(steps[m].list)
       /\ snapshots'[m] = snapshots[m]]_vars

\* What the comment on CancelUnStarted says of every maintenance the sweep
\* cancels: its planned start is before the cutoff.
SweptWasOverdue ==
  [][\A m \in Maints : maint[m].reason # "not_started" /\ maint'[m].reason = "not_started" =>
       maint[m].planned.start < now - Grace]_vars

\* No maintenance that every replica can see is overdue stays unstarted for ever:
\* the sweep gets to it in spite of failing items, crashes, a full batch, started
\* neighbours and clocks that differ.
OverdueIsResolved ==
  LET AllSeeOverdue(m) == m \in Overdue(now - MaxSkew - Grace)
  IN  \A m \in Maints : AllSeeOverdue(m) ~> ~ AllSeeOverdue(m)
=============================================================================
