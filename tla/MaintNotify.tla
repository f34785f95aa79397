---------------------------- MODULE MaintNotify ----------------------------
(***************************************************************************)
(* What follows a committed maintenance transaction: the lifecycle event    *)
(* derived from the transition lives only in the memory of the request, and *)
(* is dispatched to every notify target of the maintenance; a cancellation  *)
(* first withdraws the pending reminders, best-effort.  Reminder tasks      *)
(* enqueued by the approval are run by queue workers that may die and be    *)
(* repeated.  Messages after "started" are threaded under a root recorded   *)
(* per channel, while the address of a channel may be edited at any time.   *)
(*                                                                         *)
(* External: the task queue and the messengers.  Of the queue the code knows *)
(* that it runs a task again when its processor fails, up to MaxAttempts      *)
(* runs, and that a cancelled task is not run unless it was already taken;    *)
(* what a cancellation does to a task being processed, what becomes of a      *)
(* report on a task that was settled or handed out again meanwhile, and       *)
(* whether a task is taken back from a worker that is slow rather than dead   *)
(* are left open.  A post may be lost, may be published with its answer lost, *)
(* may be published without its reply, or may be refused because of it.       *)
(***************************************************************************)
EXTENDS Maintenance

CONSTANTS
  Channels,     \* the notify targets of every maintenance
  Addresses,    \* delivery addresses a channel may point to
  MaxAttempts   \* runs of a reminder task before the queue gives up

ASSUME NotifyAssumption == Channels # {} /\ Addresses # {} /\ "" \notin Addresses /\ MaxAttempts \in Nat \ {0}

VARIABLES
  address,   \* messenger_channels: the delivery address of each channel
  root,      \* maintenance_notify_targets: the thread root per channel
  events,    \* dispatches under way, in the memory of requests and workers
  attempts,  \* runs of each reminder task so far
  sent,      \* the messages published, as the chats show them
  reclaimed  \* history: the reminder tasks the queue took back from a worker

notifyVars == <<address, root, events, attempts, sent, reclaimed>>
allVars == <<vars, notifyVars>>

Nothing == <<>>   \* no message
NoRoot == [msg |-> Nothing]
NoAddress == ""   \* the address of a root recorded before addresses were

\* An event is named by its kind and by the step, or the run of a reminder task,
\* it is about; it starts with nothing listed and nothing left to send.
Event(m, kind, ref) ==
  [m |-> m, kind |-> kind, ref |-> ref, pc |-> "committed", targets |-> Nothing, todo |-> {}]

Name(e) == <<e.m, e.kind, e.ref>>

-----------------------------------------------------------------------------
(* The events a transaction leaves behind.                                 *)

MaintLifecycleEvent(from, to) ==
  CASE from = "planned" /\ to = "in_progress"                  -> "started"
    [] from \in {"planned", "in_progress"} /\ to = "canceled"  -> "cancelled"
    [] from = "in_progress" /\ to = "completed"                -> "completed"
    [] OTHER                                                   -> "none"

StepLifecycleEvent(status) ==
  CASE status = "started"   -> "step_started"
    [] status = "completed" -> "step_completed"
    [] status = "canceled"  -> "step_cancelled"

\* The steps of m that the transaction moved.
MovedSteps(m) ==
  {i \in DOMAIN steps[m].list : /\ maint'[m].status = "in_progress"
                                /\ steps'[m].list[i].status # steps[m].list[i].status}

DispatchMaintLifecycle ==
  {Event(m, MaintLifecycleEvent(maint[m].status, maint'[m].status), <<0, 0>>) :
     m \in {n \in Maints : MaintLifecycleEvent(maint[n].status, maint'[n].status) # "none"}}

DispatchStepLifecycle ==
  UNION {{Event(m, StepLifecycleEvent(steps'[m].list[i].status), <<i, 0>>) : i \in MovedSteps(m)} : m \in Maints}

\* One transaction of Maintenance, and the events its caller now holds.
RunUpdateWithApply ==
  /\ Next
  /\ events' = events \cup DispatchMaintLifecycle \cup DispatchStepLifecycle
  /\ UNCHANGED <<address, root, attempts, sent, reclaimed>>

-----------------------------------------------------------------------------
(* Dispatch.                                                               *)

\* What the queue may make of a request to cancel a task: a pending task is
\* cancelled, a settled one is left alone, one being processed either way.
CancelTask(status) ==
  CASE status = "pending"    -> {"canceled"}
    [] status = "processing" -> {"canceled", "processing"}
    [] OTHER                 -> {status}

\* The caller of a cancellation cancels every task recorded for a reminder; the
\* loop stops at the first failure, so some may stay as they are.
CancelEnqueued(e) ==
  /\ e.kind = "cancelled" /\ e.pc = "committed"
  /\ \E f \in [Reminders -> TaskStatuses] :
       /\ \A r \in Reminders : f[r] \in CancelTask(tasks[e.m][r]) \cup {tasks[e.m][r]}
       /\ tasks' = [tasks EXCEPT ![e.m] = f]
  /\ events' = (events \ {e}) \cup {[e EXCEPT !.pc = "ready"]}
  /\ UNCHANGED <<maint, resources, steps, deferred, snapshots, now, sweep, address, root, attempts, sent, reclaimed>>

\* ListByMaint: roots and addresses are read once, for all messages of the event.
ListTargets(e) ==
  /\ e.pc = IF e.kind = "cancelled" THEN "ready" ELSE "committed"
  /\ events' = (events \ {e}) \cup
       {[e EXCEPT !.pc = "sending", !.todo = Channels,
                  !.targets = [c \in Channels |-> [address |-> address[c], root |-> root[e.m][c]]]]}
  /\ UNCHANGED <<vars, address, root, attempts, sent, reclaimed>>

\* Mutant: the root is used wherever the channel points to now.
ReplyTo_AnyAddress(e, c) ==
  IF e.kind \in {"started", "reminder"} \/ e.targets[c].root = NoRoot THEN Nothing ELSE e.targets[c].root.msg

ReplyTo(e, c) ==
  LET t == e.targets[c] IN
  IF \/ e.kind \in {"started", "reminder"}
     \/ t.root = NoRoot
     \/ t.root.address # NoAddress /\ t.root.address # t.address
  THEN Nothing
  ELSE t.root.msg

Message(e, c, reply) == [name |-> Name(e), channel |-> c, address |-> e.targets[c].address, reply |-> reply]

\* The row of the target keeps the message and the address it was sent to; a
\* failed write is logged and forgotten.
RecordRoot(e, c) ==
  \/ root' = [root EXCEPT ![e.m][c] = [msg |-> Name(e), address |-> e.targets[c].address]]
  \/ UNCHANGED root

\* The outcomes of one post: lost; published but the answer lost; published as
\* asked; published without its reply; refused because of its reply, then
\* published without it as the new root.
Deliver(e, c) ==
  LET reply == ReplyTo(e, c) IN
  \/ UNCHANGED <<sent, root>>
  \/ sent' = sent \cup {Message(e, c, reply)} /\ UNCHANGED root
  \/ /\ sent' = sent \cup {Message(e, c, reply)}
     /\ IF e.kind = "started" THEN RecordRoot(e, c) ELSE UNCHANGED root
  \/ reply # Nothing /\ sent' = sent \cup {Message(e, c, Nothing)} /\ UNCHANGED root
  \/ reply # Nothing /\ sent' = sent \cup {Message(e, c, Nothing)} /\ RecordRoot(e, c)

Send(e) ==
  /\ e.pc = "sending"
  /\ \E c \in e.todo :
       /\ Deliver(e, c)
       /\ events' = (events \ {e}) \cup {[e EXCEPT !.todo = @ \ {c}]}
  /\ UNCHANGED <<vars, address, attempts, reclaimed>>

\* The request ends, or its server dies with the event undelivered.
DropEvent(e) ==
  /\ e.kind # "reminder"
  /\ events' = events \ {e}
  /\ UNCHANGED <<vars, address, root, attempts, sent, reclaimed>>

-----------------------------------------------------------------------------
(* Reminders.                                                              *)

SetTask(m, r, status) ==
  /\ tasks' = [tasks EXCEPT ![m][r] = status]
  /\ UNCHANGED <<maint, resources, steps, deferred, snapshots, now, sweep, address, root, sent>>

\* What a worker reports is written; on a task no longer being processed it may
\* also be ignored.
Report(m, r, status) ==
  \/ SetTask(m, r, status)
  \/ tasks[m][r] # "processing" /\ SetTask(m, r, tasks[m][r])

ShouldRemind(m) == maint[m].status = "planned"

\* Mutant: a reminder that is not wanted now is put back.
ProcessReminder_Postpone(m, r) ==
  /\ tasks[m][r] = "pending"
  /\ now >= deferred[m][r]
  /\ ShouldRemind(m)
  /\ attempts' = [attempts EXCEPT ![m][r] = @ + 1]
  /\ UNCHANGED reclaimed
  /\ SetTask(m, r, "processing")
  /\ events' = events \cup {Event(m, "reminder", <<r, attempts[m][r] + 1>>)}

\* A worker takes a due task and loads the maintenance.
ProcessReminder(m, r) ==
  /\ tasks[m][r] = "pending"
  /\ now >= deferred[m][r]
  /\ attempts' = [attempts EXCEPT ![m][r] = @ + 1]
  /\ UNCHANGED reclaimed
  /\ IF ShouldRemind(m)
     THEN SetTask(m, r, "processing") /\ events' = events \cup {Event(m, "reminder", <<r, attempts[m][r] + 1>>)}
     ELSE SetTask(m, r, "done") /\ UNCHANGED events

\* A run of the task, its latest or one the queue has given up on.
IsReminder(e, m, r) == e.kind = "reminder" /\ e.m = m /\ e.ref[1] = r

\* Mutant: the number of runs is not limited.
Again_Forever(m, r) == "pending"

\* The queue runs a task again, or gives it up.
Again(m, r) == IF attempts[m][r] < MaxAttempts THEN "pending" ELSE "error"

\* Mutant: a reminder that some channel did not receive is reported as failed.
FinishReminder_RetryFailed(m, r) ==
  \E e \in events : /\ IsReminder(e, m, r) /\ e.pc = "sending" /\ e.todo = {}
                    /\ IF \A c \in Channels : \E x \in sent : x.name = Name(e) /\ x.channel = c
                       THEN Report(m, r, "done") ELSE Report(m, r, Again(m, r))
                    /\ events' = events \ {e}
                    /\ UNCHANGED <<attempts, reclaimed>>

\* All targets tried: the task is done, whatever became of the messages.
FinishReminder(m, r) ==
  \E e \in events : /\ IsReminder(e, m, r) /\ e.pc = "sending" /\ e.todo = {}
                    /\ Report(m, r, "done")
                    /\ events' = events \ {e}
                    /\ UNCHANGED <<attempts, reclaimed>>

\* The listing or the rendering fails: an error before the first message.
ReminderError(m, r) ==
  \E e \in events : /\ IsReminder(e, m, r) /\ e.pc = "committed"
                    /\ Report(m, r, Again(m, r))
                    /\ events' = events \ {e}
                    /\ UNCHANGED <<attempts, reclaimed>>

\* The worker dies, possibly between two messages; its task stays as it is.
WorkerDies(m, r) ==
  \E e \in events : /\ IsReminder(e, m, r)
                    /\ events' = events \ {e}
                    /\ UNCHANGED <<vars, address, root, attempts, sent, reclaimed>>

\* The queue takes a task back, from a worker that died or from one that is slow.
Reclaim(m, r) ==
  /\ tasks[m][r] = "processing"
  /\ SetTask(m, r, Again(m, r))
  /\ reclaimed' = reclaimed \cup {<<m, r>>}
  /\ UNCHANGED <<events, attempts>>

\* An administrator edits the address of a channel.
UpdateChannel(c) ==
  /\ \E a \in Addresses \ {address[c]} : address' = [address EXCEPT ![c] = a]
  /\ UNCHANGED <<vars, root, events, attempts, sent, reclaimed>>

-----------------------------------------------------------------------------
NotifyInit ==
  /\ Init
  /\ address \in [Channels -> Addresses]
  /\ root = [m \in Maints |-> [c \in Channels |-> NoRoot]]
  /\ events = {}
  /\ attempts = [m \in Maints |-> [r \in Reminders |-> 0]]
  /\ sent = {}
  /\ reclaimed = {}

Dispatch(e) == CancelEnqueued(e) \/ ListTargets(e) \/ Send(e)

Reminding(m, r) ==
  ProcessReminder(m, r) \/ FinishReminder(m, r) \/ ReminderError(m, r) \/ WorkerDies(m, r) \/ Reclaim(m, r)

NotifyNext ==
  \/ RunUpdateWithApply
  \/ \E e \in events : Dispatch(e) \/ DropEvent(e)
  \/ \E m \in Maints, r \in Reminders : Reminding(m, r)
  \/ \E c \in Channels : UpdateChannel(c)

NotifySpec == NotifyInit /\ [][NotifyNext]_allVars

Abandoned(m, r) == \A e \in events : ~ IsReminder(e, m, r)

\* Queue workers keep taking due tasks, a run that was begun goes on unless its
\* worker dies, and a task without a worker is taken back.
ReminderFairness ==
  \A m \in Maints, r \in Reminders :
    /\ WF_allVars(ProcessReminder(m, r))
    /\ WF_allVars(\E e \in events : IsReminder(e, m, r) /\ Dispatch(e))
    /\ WF_allVars(FinishReminder(m, r))
    /\ WF_allVars(Abandoned(m, r) /\ Reclaim(m, r))

FairNotifySpec == NotifySpec /\ ReminderFairness

-----------------------------------------------------------------------------
(* Properties.                                                             *)

\* The tables and the work in memory have the right shape.
NotifyTypeOK ==
  /\ TypeOK
  /\ address \in [Channels -> Addresses]
  /\ \A m \in Maints, c \in Channels : root[m][c] = NoRoot \/ root[m][c].address \in Addresses
  /\ \A e \in events : e.m \in Maints /\ e.todo \subseteq Channels
  /\ attempts \in [Maints -> [Reminders -> 0 .. MaxAttempts]]
  /\ \A x \in sent : x.channel \in Channels /\ x.address \in Addresses

\* A threaded message answers a message of the same maintenance that was
\* published in the same channel at the same address, although channels are
\* re-pointed between the listing, the post and the write of the root.
RepliesStayInTheirChat ==
  \A x \in sent : x.reply # Nothing =>
    \E y \in sent : /\ y.name = x.reply
                    /\ y.name[1] = x.name[1]
                    /\ y.channel = x.channel
                    /\ y.address = x.address

\* A reminder reaches a channel twice only if the queue took its task back from a
\* worker: every error dispatch returns comes before the first message, and a
\* cancellation during a run does not make the queue run the task again.
NoNeedlessRepeat ==
  \A x, y \in sent :
    /\ x.name[2] = "reminder" /\ y.name[2] = "reminder"
    /\ x.name[1] = y.name[1] /\ x.channel = y.channel /\ x.name[3][1] = y.name[3][1]
    /\ x.name # y.name
    => <<x.name[1], x.name[3][1]>> \in reclaimed

\* A due reminder task is eventually settled, through failed listings, lost
\* messages, dead workers and cancellations.
RemindersSettle ==
  \A m \in Maints, r \in Reminders :
    (tasks[m][r] = "pending" /\ now >= deferred[m][r])
      ~> tasks[m][r] \in {"done", "error", "canceled"}
=============================================================================
