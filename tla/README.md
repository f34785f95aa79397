# maintmode in TLA+

maintmode plans maintenance windows: a draft is written, approved by a person
who has seen what it collides with, started, worked through step by step, and
completed or cancelled, while messengers are told about it. Around that core sit
accounts, sign-in sessions, invitations, one-time codes, a licence with seats,
integrations with encrypted secrets, an audit trail and periodic jobs. It is a
Go server over PostgreSQL and Valkey that may run in several replicas.

This directory holds TLA+ models of that code, TLC configurations that check
them on small instances, and TLAPS proofs for every size. `PROJECT.json` names,
for each definition, the lines it models.

    tlc -workers 2 -config MCMaintenance.cfg MCMaintenance   # one run
    tlapm MaintenanceProofs.tla                              # the proofs

## Inventory

For each part: state, operations, partners, what is hard, what must hold.
Paths are under `src/internal/`.

### Modelled

**Maintenance aggregate** (`services/maint`, `storages/maintenances`, `entity`).
State: the row with status, scope, planned and actual window, approver, cancel
reason and revision; resources; ordered steps; deferred notifications; the
conflict snapshot. Operations: create and update a draft, approve, start,
complete, cancel, start/complete/cancel a step. Each runs in one transaction
under `SELECT ... FOR UPDATE`. Hard: the rule for steps looks only at the
previous one; windows are recomputed from two independent edits; every replica
stamps with its own clock; a window closed in the instant it opened, or before it
by a clock that is behind, is a range the database refuses. Must hold: steps never
overtake, recorded times lie in the actual window as far as the clocks agree, the
planned window has the length of
the steps, what was approved is frozen, terminal is final.

**Auto-cancel sweep** (`services/maint/cancel_unstarted.go`,
`goque_processors/autocancelprocessor`). State: a list of candidates read without
a lock. Hard: everything may have changed before an item is cancelled; an item
may fail, the worker may die, the batch is bounded. Must hold: nothing that has
started is labelled `not_started`; overdue maintenances are resolved in the end.

**Approval and conflicts** (`services/maint/appove_maint.go`,
`services/conflicts`, `storages/conflicts`, `storages/conflict_snapshots`,
`utils/dbtx`). State: the card as a client has read it, the transaction, row
locks. Hard: the card is read in several statements; two approvals each invisible
to the other; the snapshot's foreign key takes more row locks; the whole closure
is retried. Must hold: of two colliding approved maintenances one names the other
in its snapshot; what is approved is what was seen; no deadlock.

**Lifecycle notifications and reminders** (`services/maintnotify`,
`services/deferrednotifications`, `goque_processors/reminderprocessor`). State:
events in memory after a commit, queue tasks, thread roots, the chats. Hard:
workers die between messages and are repeated; a cancellation races them; a
channel is re-pointed while a thread is being written. Must hold: a reminder task
exists exactly for an approved maintenance's reminders, no repeat unless the queue
took the task back from a worker, replies stay in the chat of their root.

**Sessions** (`services/token`, `services/auth`, `storages/refreshtoken`,
`storages/blacklisttoken`, `storages/distributedlock`, the session side of
`services/user/block_user.go`). State: the chain of refresh tokens of each
session, the lease on a token, the per-user advisory lock, marks that cut access
tokens off, access tokens. Operations: sign-in, refresh (rotation, grace answer,
reuse), logout, logout everywhere, password change and reset, block, unblock,
retention sweep. Hard: three locks of different kinds; the lease expires under a
slow holder; a revocation is one UPDATE over the rows it can see; marks are
best-effort and in a different store. Must hold: chains never fork, ended is
ended, access tokens of an ended session are refused, sessions end in time, the
rows reuse detection needs are kept.

### Not modelled yet

**Users, roles, seats, licence** (`services/user`, `services/license`). State:
users with roles and block, the cached licence. Hard: the last active
administrator and the seat cap are counted under advisory locks taken by many
paths in ascending order. Must hold: an active administrator remains, seats taken
do not exceed the cap, the locks do not deadlock.

**Invitations** (`services/invitation`). Hard: one pending invitation per
address, acceptance against revocation, resend, expiry and pruning.

**One-time codes** (`services/otp`). Hard: concurrent requests for one slot,
attempts ceiling, single redemption, pruning in between.

**Sign-in and linking** (`services/auth`, `storages/oauthdance`). Provisioning of
a user from verified claims by two callbacks at once; state of an OAuth dance.

**Authentication settings** (last usable method, reload of the registry),
**integrations and secrets** (versioned updates, rotation of data keys against
writes), **audit trail** (publication after commit, idempotent consumption),
**resources directory**, **caches and rate limiter**, **shutdown order**.

**Left out for good**: generated query builders, configuration parsing, metrics,
rendering of texts, static Casbin table, read-only projections. They hold no
state that a rule here depends on.

## Plan

1. `MaintEntity`, `Maintenance`: the core; proofs in `MaintenanceProofs`. Done.
2. `Approval` implements `Maintenance` (refinement by the identity). Done with
   TLC; a proof of the refinement is next.
3. `MaintNotify`, composed with `Maintenance`. Done.
4. `Sessions`. Done with TLC; proofs of `OneLiveToken` and `EndedStaysEnded` for
   any number of users, tokens and requests are next.
5. `Users` with seats and the licence: last administrator and seat cap as
   invariants under concurrent transactions, lock order as absence of deadlock.
6. `Invitations` composed with `Users`: acceptance takes a seat; an abstract
   specification of an invitation (pending, then exactly one outcome) that it
   implements.
7. `OneTimeCodes`: at most one live code per user and purpose, attempts bounded,
   redeemed once; abstract specification of a code.
8. `OAuthDance`, `AuthSettings`, `Secrets` (data key rotation), `AuditOutbox`,
   `Cache`, each with its own small run.
9. The request layer of each component: which inputs reach the service.
10. Proofs: seat cap and last administrator, single redemption.

## Modules

| module | models | state | extends |
|---|---|---|---|
| `MaintEntity` | status tables, periods, scope rule, collision predicate | none | |
| `Maintenance` | handlers of the aggregate, auto-cancel runs, the clock | the tables, `now`, `sweep` | `MaintEntity` |
| `Approval` | card, gates, serializable transaction, row locks | `view`, `tx`, `lock` | `Maintenance` |
| `MaintNotify` | events, dispatch, reminder tasks, thread roots, channels | `address`, `root`, `events`, `attempts`, `sent`, `reclaimed` | `Maintenance` |
| `Sessions` | refresh tokens, leases, revocation, marks, passwords, blocks | `rt`, `lease`, `userLock`, `marked`, `access`, `req` | |
| `MaintenanceProofs` | theorems about `Maintenance` | | `Maintenance` |

`MC*` modules and `.cfg` files give the constants their values. Definitions named
`X_Y` next to a definition `X` are deliberately wrong variants of it, each with
the comment "Mutant": they show that a property notices the mistake.

### Maintenance

One action per handler, because each handler is one transaction that locks the
row first. `UpdateMaint` is the single write path and bumps the revision, as the
store does. Texts, tickets and descriptions are left out; a list of steps in a
command is its number of steps and their total duration (`Plans`). A rejected
call changes nothing and is not an action. `SweepList` reads, `SweepCancel`
handles one candidate under its row lock, `SweepItemFails` and `SweepCrash` are
the two ways it goes wrong.

`now` is the true time. No handler sees it: `xtime.UTCNow()` is the clock of the
replica that runs the handler, and `UTCNow` is the set of its possible answers,
those within `MaxSkew` of `now`. Two handlers may so stamp in the wrong order, as
`entity/maint.go:149` expects of `CloseActualPeriod`, and the claims that compare
two stamps allow for twice the skew (`StepTimesWithinSkew`). With a skew of zero
they are exact.

`ApproveMaint(m, S)` is abstract: it approves, enqueues the reminders and stores
the snapshot in one step, as the code does in one transaction, and it stores a snapshot `S` that names every
active neighbour colliding with `m` at that instant. `Approval` contains what the
code does to achieve this.

### Approval

`ViewRow`, `ViewResources`, `ViewConflicts` are the separate reads of a card.
`TxBegin` takes the snapshot of the SERIALIZABLE transaction, `TxLock` is
`GetMaintForUpdate`, `TxCommit` applies the checks of `ApproveMaint` (status,
approver, revision, conflict fingerprint) to what it read, and
`TxSerializationFailure` runs the closure again up to `MaxAttempts` times.
PostgreSQL is external. What is assumed of it is stated at the head of the
module: snapshot reads, failure of `FOR UPDATE` on a row changed since, KEY SHARE
locks of foreign keys, and that of two transactions each missing the other's
write at most one commits.

### MaintNotify

Every step of `Maintenance` leaves behind the event that
`runUpdateWithApply` derives from the transition. A dispatch asks the queue to
cancel the tasks if it is a cancellation, lists the targets, and sends one message
per channel; it may be lost at any point (`DropEvent`). Reminder tasks are taken,
run and finished by workers; `WorkerDies` loses a run, `ReminderError` fails one.

The queue (goque) and the messengers are external. Of the queue little is assumed,
and what is left open is a choice: cancelling a pending task cancels it, a settled
one is left alone, and one being processed may be cancelled or not (`CancelTask`);
`deferrednotifications/cancel.go` passes every recorded task on without looking at
its status. The report of a worker on a task that was settled or handed out again
meanwhile may be written or ignored (`Report`). A task being processed may be
taken back whether its worker is dead or only slow (`Reclaim`), so two workers may
run one task. A task is run `MaxAttempts` times at most (`Again`). A post can be
lost, published with the answer lost, published without its reply, or refused
because of its reply.

### Sessions

A request is a record with a program counter: the code's statements between two
commits are separate steps, so a lease can expire, a lock be waited for or the
server die in between (`Abort`). `LockUserSessions` is the advisory lock held to
the end of the transaction. `WithUserSessionsLocked` takes the lock and the
snapshot of the UPDATE; `RevokeCommit` commits it and only then come the marks.
In a password change the same revocation is nested in the transaction of
`installPassword`, so the order is marks first and commit last
(`InstallPassword`). A deleted row keeps its place in `rt` as `pruned`, so that a
request that read it earlier still knows it. `begun`, `ended`, `unmarked` and
`cutOff` are history variables for the properties.

## Runs

| run | instance | distinct states | shows |
|---|---|---|---|
| `maint_life` | 1 maintenance, plans of 1 and 2 steps, 1 sweep, time to 3, clocks off by 1 at most, 2 edits | 2,141,984 | step order, windows, recorded times, finality |
| `sweep` | 2 maintenances, 1 sweep with a batch of 1, time to 1 | 178,451 | `SweptNeverRan`; under fairness `OverdueIsResolved` |
| `approval` | 2 drafts, the approver and an administrator, 1 resource, 1 edit each, 2 attempts; four scenes | 160,772 | refinement, `ApprovedAsSeen`, `NoMutualBlindness`, no deadlock |
| `reminders` | 1 maintenance, 1 reminder, 2 channels, 2 attempts, no lifecycle posts | 58,642 | tasks match reminders, no needless repeat |
| `reminders_settle` | the same with 1 channel and lifecycle posts, fairness | 155,378 | every due reminder task settles |
| `threads` | 1 maintenance, 1 channel with 2 addresses | 444,446 | replies stay in the chat of their root |
| `sessions` | 1 session, 3 refresh tokens, 2 requests (refresh, reset, block, logout everywhere), clock to 1; and 2 tokens with slow refreshes and resets, clock to 2 | 1,497,838 | `OneLiveToken`, `EndedStaysEnded`, `EndedIsCutOff` |
| `revocation` | 2 sessions, 2 refresh tokens, 2 requests (logout, change), clock to 1 | 497,931 | `LogoutEndsItsSession` |
| `session_lifetime` | a break-glass session, 3 tokens, refresh only, clock to 5 | 1,314,816 | `SessionEnds`, `ReuseIsDetectable` |

Three runs are expected to end in a counterexample, because a comment in the code
says something the code does not do:

- `sweep_overdue`: the sweep's comment says it cancels what should have started
  before the cutoff. The re-check under the lock looks at the status only, so a
  draft moved to a later start after the listing is cancelled all the same.
- `stranded_session`: a comment says marks follow a successful revocation, so
  that a failed write never cuts off a living session. In a password change the
  marks precede the commit.
- `block_retry`: a comment says a failed revocation fails the block so that the
  caller retries. The retry finds the user blocked and answers success without
  revoking.

### Bounds

Two of everything that competes (approvers, requests, channels) give every
pairwise race; the locks and gates involved are per row, per token or per user,
and each decides between two at a time. Two steps are enough for "the previous
step". Three refresh tokens make a chain of two rotations, so a rotated token
whose successor is rotated too occurs. The clocks are long enough for every
deadline to be met early, exactly and late: in `session_lifetime` the limit is 2,
the clock runs to 5; in the second scene of `sessions` two requests of one unit
each use up the whole of `revokedSessionSkew`. A batch of one makes the sweep's limit bite. `MaxTime`,
`MaxEdits`, `Tokens`, `Families` and `Offered` are bounds of the model and not of
the code. `MCNoSteps` keeps steps, and `MCQuiet` lifecycle posts, out of runs that ask
nothing about them. The scenes of `approval` each open one dimension (the shared
resource, the replayed transaction, the window, the approver) and keep the others
still. The runs with `MaxSkew` 0 ask nothing that compares two stamps.
Symmetry is used only for sets that no definition orders and not with liveness.
Deadlock is not checked: with the clock and the ids used up the system may stop.

`MaxDelay` is an assumption and not a bound: a request takes at most half of
`revokedSessionSkew`, which is a minute. Nothing in the code enforces it.
`EndedIsCutOff` depends on it: a request that stalls for longer can mint an access
token that outlives its mark. `session_inactive_lifetime`, `session_max_lifetime`
and `refresh_token_ttl` are ordered as the configuration check demands.

### Fairness

`sweep`: the job is periodic, so a run is started again and again (weak fairness
of `SweepList`), and a candidate at the head of a list is not skipped for ever
(strong fairness of `SweepCancel`, since item failures and crashes are
intermittent). `reminders_settle`: workers keep taking due tasks and a run goes on
unless its worker dies, and the queue takes back a task that has no worker left.
Nothing is assumed of people: no handler is fair.

## Proofs

`MaintenanceProofs` proves about `Maintenance`, for all sets of maintenances,
resources, users, plans, reminders and sweepers and all bounds:

| theorem | states |
|---|---|
| `TypeCorrect` | `Spec => []TypeOK` |
| `StepOrder` | steps never overtake each other |
| `StepsAndWindows` | steps, actual window and planned window match the status |
| `StepTimes` | recorded step times are in order and inside the actual window, up to twice the skew |
| `SweepIsSafe` | what a sweep cancelled had not started |
| `ApprovalsSeeEachOther` | of two colliding active maintenances one names the other |
| `ReminderTasks` | reminder tasks exist exactly from the approval on |
| `TerminalStays` | a terminal maintenance does not change |
| `ApprovedPlanStays` | scope, resources, steps and window are frozen by the approval |

The assumptions are those named in `Maintenance`: plans have at least one step
and a positive length, the set of maintenances is finite, there is a user, and a
replica's clock is within `MaxSkew` of the time, whatever `MaxSkew` is.

The argument: `LifeInvariant`, the conjunction of the type invariant and seven
safety invariants, is inductive. The type invariant is needed everywhere. That a
sweep cancels only what has not run is not inductive by itself: when the sweep
finds a draft or a planned row, it is `StepsMatchStatus` and
`ActualPeriodMatchesStatus` that say its steps and its window are untouched. An
`...Effect` lemma per handler says what it changes (`EffectOfStep` collects them),
and a `...Step` lemma per invariant uses only those effects. So a change in a
handler touches one effect lemma.

`StepTimes` needs one more conjunct, `StampsInOrder`: no stamp lies further ahead of
the time than a clock may be. A new stamp is at most as far behind, so it follows
every earlier one up to twice the skew; and the order is kept between any two steps,
because the handlers compare neighbours only.

Only model-checked: everything about `Approval`, `MaintNotify` and `Sessions`,
and all liveness, which is out of the prover's reach because it needs
fairness and ENABLED.
