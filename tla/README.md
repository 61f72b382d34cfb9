# SIGILED, modelled in TLA+

SIGILED rents a driver, human or LLM, a disposable container on one git
repository. The control plane (`sigiledd/`) opens, recycles and closes
sessions, reaps idle ones, merges their branches into master under a project
lock, runs cron jobs and resident apps, and serves a browser dashboard and an
IDE gateway. The promise on top is short: *every commit is pushed, no committed
work is lost, containers are cattle* (`docs/sigiled-contract.md`). This
directory holds the specification of how the code keeps that promise, the model
checking of it on small instances, and proofs of the parts that are proved for
all instances.

## The system and its parts

| part | code | state | operations | what makes it correct |
|---|---|---|---|---|
| sessions | `sigiledd/src/sessions.rs` | records, merge debts, session locks, one project (mirror) lock per project | open, close, recycle, list, inspect | one actor per session; one record per branch; no work lost; events are true |
| reaper | `reaper.rs` | none (observes) | pass: observe, recheck under the lock, flush, destroy, remove | never removes a generation it did not observe |
| merge engine | `merge.rs` | the mirror's master | `close_merge` | master only gains what the branch holds; a conflict leaves it alone |
| persistence | `store.rs`, `main.rs` | one snapshot file | `try_persist`, `persist`, `hydrate_from_disk` | a restart brings back a state the rules can continue from |
| runtime and mirror | `runtime.rs` | containers, mirror, images | ensure mirror, image build, create, boot, autosave, destroy | an incumbent container is never touched; a build keeps its guard |
| workspace agent | `vm-base/src/` | the checkout | read, write, exec, commit and push | a commit it acknowledges is on the remote |
| IDE companion control | `ide.rs`, `ide_policy.rs`, `browser/ide_gateway/controls.rs` | the record's IDE binding: layer, started, state | prepare layer, start, stop, checkpoint, finish, flush | an editor that was ever started is never forgotten; no workspace goes with unsaved work |
| jobs | `jobs.rs` | run records (20 per job), in-flight latch | schedule, trigger, run, hydrate | one run at a time; each run's end is recorded |
| apps | `apps.rs` | app records with a build latch | upgrade, restart, stop, hydrate | one build at a time; record and container agree |
| ecosystem refresh | `ecosystem.rs`, `declaration.rs`, `manifest.rs`, `shared/bounded_process.rs` | descriptors with their revision, permits | refresh, repair batch | no older revision over a newer; a reader that will not die blocks nobody for ever |
| enrollment | `enrollment.rs` | one enrollment per project | observe, reconcile, retry, correct namespace, edit source | a phase belongs to the revision it was reached for; Memory is never ahead of the disk |
| work items | `work_items.rs` | items with revisions, on disk | create, update | no lost update |
| research operations, handoff | `browser/research/`, `ide-agent/src/handoff.rs` | durable intents, the record's handoff marker, the helper's journal | reserve, submit, accept, handoff, resume | one run per operation; a handoff is applied once |
| IDE agent | `ide-agent/src/`, `ide-agent/activity/extension.js` | terminals as observed, the editor's process group and marker, preferences, the checkpoint under way | observe, start, stop, checkpoint, finish | idle is observed, never presumed; what is pushed is what is reported |
| IDE gateway | `browser/ide_gateway/` | tickets, grants, keyed allocations | launch, issue, consume, forward | a grant dies with its session, generation and login |
| browser sessions | `browser/mod.rs`, `provider.rs` | login transactions, sessions, refresh flights | login, callback, refresh, logout | a login is used once; logout wins |
| auth | `auth.rs` | keys, approvals | verify, elevate, poll | an approval is its driver's, and expires |
| project creation, templates | `project.rs`, `github.rs`, `templates.rs`, `template_snapshot.rs` | registry, creation intents | create, adopt, resume | a creation cut short can be resumed and never doubles |
| event log | `events.rs` | a ring of events per project | record | tells the truth |
| read-only surfaces | `overview.rs`, `catalog.rs`, `contract.rs`, `skill.rs`, `browser/dashboard.rs`, `browser/memory.rs` | none of their own | | |

The parts meet in few places: everything that touches a mirror (open, close,
recycle, branch listing, app upgrade, job start, refresh, enrollment) takes the
project lock; everything that touches a session (close, recycle, reap, finish,
IDE operations, handoff) takes the session lock first; every store is written in
one snapshot; the gateway, the handoff and the IDE control rely on the session
record and its generation.

What is hard here is the order of things: handlers are async tasks that wait for
two locks and call git, docker and the workspace in between; a client that
disconnects drops its handler at an await; blocking builds run on without it;
the reaper decides on a reading it made without a lock; a crash can fall between
any two of push, persist, destroy, delete; and persist itself may fail.

## Modules

| module | stands for |
|---|---|
| `ProjectContract` | the abstract specification: what people who work on one project are promised |
| `SessionLifecycle` | sessions, reaper, merge, persistence and the parts of runtime, companion control and workspace they use; shown to implement `ProjectContract` |
| `JobContract` | the abstract specification: what the owner of a job is promised |
| `Jobs` | one job: scheduler tick, manual trigger, latch, run, records, crash; implements `JobContract` |
| `Approvals` | the operator's leg of authorization: device flows, pollers, one approval per driver |
| `Apps` | one resident app: record, container, overlapping upgrades and the builds behind them |
| `WorkItems` | the store of work items: compare-and-set on one file, saves in doubt |
| `ProjectCreation` | templates, snapshots, provider and registry: a creation resumed until it is whole |
| `ProcessGroup` | one bounded subprocess: kill, scan, reap |
| `Refresh` | reading the projects' manifests: callers with limits, a pool of readers, quarantine |
| `Enrollment` | one project's enrollment in Memory: revisions, the handshake, receipts |
| `Companion` | the control plane's hold on the editor in a workspace, and what close, recycle and reap ask of it |
| `BrowserSessions` | logins, sessions, the refresh of a rotating credential |
| `IdeGateway` | launches by key, tickets, grants and editor streams; extends `BrowserSessions` |
| `Research` | research operations: durable intent, private key, one run |
| `Handoff` | a research bundle handed into a workspace: control plane and helper, each with a journal of its own |
| `Activity` | whether a user's command runs: extension, network, evidence |
| `IdeAgent` | the agent in the workspace: editor, preferences, checkpoint |
| `MCSessionLifecycle`, `MCJobs`, `MCControlPlane`, `MCBrowser` | instances for TLC |
| `SessionLifecycle_proofs`, `SessionSafety_proofs`, `SessionBinding_proofs`, `SessionWork_proofs` | theorems on the session lifecycle, each module building on the one before |
| `Jobs_proofs`, `ControlPlane_proofs`, `Companion_proofs`, `Browser_proofs` | theorems on the other components |

Components that share no variable are checked side by side: `MCControlPlane`
holds eight, `MCBrowser` six (seven modules, two of which compose). An execution
has one component in *focus*, which moves, while the others stay where they
began; so each is explored in full and their state spaces add up instead of
multiplying.

What the components share in the code each models as it needs it. The snapshot
file is one: every module with records in it has a step like `OthersPersist`,
`AppByOthers` or `SnapshotByOthers`, in which another component writes the common
snapshot with this one's memory in it; a refused save may have replaced the file
all the same (the directory is synced after the rename); a restart hydrates from
what was written last. The project lock is the other: a job run, an app upgrade, a
creation and a refresh hold it as one more holder.

### ProjectContract

`author` says which session produced a unit of work, `master` is a set of units,
`outcome` a session's end. Sessions `Produce`, master may `Land` anything
produced, and a session may `End` once: "merged" only when all it produced is in
master, and ended it produces no more.

### SessionLifecycle

The model is one project, the one a mirror lock belongs to. State and code:

| variable | code |
|---|---|
| `recs`, `debts` | `SessionState.records`, `SessionState.debts` |
| `disk` | the file `Store::try_save` renamed into place last |
| `task` | the handlers (`open`, `close`, `recycle`, finish) and the reaper pass: program point, `local` (the record copy the function holds in a variable), the generation it expects, the debt the merge found |
| `conts` | docker's containers by name `vm-s-{id}-g{generation}`, and the one legacy alias `vm-{project}` |
| `originMaster`, `originBranch` | the remote |
| `mirrorMaster`, `heads` | the control plane's mirror: master, local session heads |
| `used`, `author`, `acked`, `outcome` | history: identities drawn, who produced what, which commits were acknowledged, what the event log says |

A unit of work stands for a change; a ref is the set of changes its commits
contain. That is what close, its ancestry tests and its merges tell apart:
`git merge-base --is-ancestor` is inclusion, a fast-forward is the larger set, a
three-way merge the union, a conflict leaves master alone. One action covers the
code from one await (or one failing call) to the next; the order of calls within
it is the code's. Locks are not a variable: where a task stands says which guards
it owns (`HoldsSession`, `HoldsMerge`), a guard that moved into a blocking build
whose request is gone included (`mirror_worker`, `session_worker`).

| actions | code |
|---|---|
| `OpenBegin`, `OpenMirror`, `OpenImage`, then `Layer`, `Create`, `Boot` | `open_inner` |
| `CloseBegin`, `Flush`, `CloseMerge`, `Publish`, `Destroy`, `CloseRemove` | `close_expected` |
| `RecycleBegin`, `Flush`, `RecycleFetch`, `RecycleRebind`, then `Layer`, `Create`, `Boot` | `recycle` |
| `ReapObserve`, `ReapBegin`, `Flush`, `Destroy`, `ReapRemove` | `reap_pass`, `reap_generation_min` |
| `FinishObserve`, `FinishBegin`, then as close | `ide.rs` `operation_inner`, action finish |
| `Edit`, `Commit` | the driver, through `fs_api.rs` and `git_api.rs` |
| `Cancel`, `WorkerDone` | a client disconnects; its blocking build ends |
| `Crash` | the process dies, `hydrate_from_disk` runs |
| `OthersPersist` | another component persists; the snapshot holds this one's memory too |

Choices a reader should know of:

- The control plane has a runtime and a push token. Without a runtime (the
  development path: local bare mirrors) the code skips the steps that can fail.
- Every failure gets one representative code except `interrupted` and
  `legacy_ownership_ambiguous`, which later steps test.
- `MaybeSaved` writes or does not: `AppState::persist` logs and goes on.
  `try_persist` stops the transition, and a failed one may have replaced the file
  all the same: the directory is synced after the rename.
- A push that is reported failed may have landed: `Publish` allows both.
- Only open, close and recycle can be cancelled: the browser's launch and finish
  run detached from the request.
- `FinishObserve` is one step: the guard is held for the companion's
  checkpoint, so nothing else moves on that session; what matters comes after,
  when the guard is dropped before the close asks for it again.
- `LateWork = FALSE` keeps drivers quiet while a transition runs on their own
  session, which is how the contract tells a driver to behave; `TRUE` lets them
  write at any moment. Work written between a close's last checkpoint and its
  destroy is uncommitted work in a container the driver asked to be removed, so
  the work-preserving properties about *all* work are checked with `FALSE`, and
  those about *acknowledged commits* with `TRUE`.
- `Rest` lets an idle system stay idle, so that a deadlock TLC reports is a real
  one: a state in which somebody waits and nobody can move.

### JobContract

`current` is the run in flight. A trigger may `Begin` when there is none, or be
refused (`Skip`) when there is one; a run may `Publish`, and it `End`s once: in
error, or with a verdict that requires its output to be published or a
complaint. Control planes die: `Abort`.

### Jobs

One job of one project. State and code:

| variable | code |
|---|---|
| `clock`, `tick` | the local clock, as far as somebody read it; `now` of the scheduler's current tick |
| `latch` | the job's key in `JobsState.inflight` |
| `ring` | its list in `JobsState.runs`, newest first |
| `log`, `disk` | the `JobRun` events; the snapshot's records and events |
| `task` | each trigger: where it stands in `trigger` / `execute_run`, its stamp (the branch name), `acquired`, the verdict and the complaint about a failed flush |
| `cont` | docker's container `vm-job-{project}-{job}`, by the run that created it |
| `remote` | the job branches, by stamp |
| `ended` | history: how a run ended, decided when its latch is released |

| actions | code |
|---|---|
| `TickBegin`, `TickEnds`, `TickFires` | `scheduler`, `scheduler_tick` |
| `ManualCheck`, `ManualTrigger` | `run`: `is_inflight`, then `trigger` |
| `Claim` (in both triggers), `PushSkip`, `PushRunning`, `Launch` | `trigger` |
| `Prepare`, `Create`, `Boot`, `Exec`, `Flush`, `Destroy`, `Settle`, `ReleaseLatch`, `LogEvent` | `execute_run` |
| `OthersPersist`, `Crash` | `try_persist` elsewhere; `hydrate_from_disk` |

- "timeout" is one more way to fail: nothing but the record's text tells it from
  "failed". The health-check ping, between destroy and settle, has no effect here.
- A run waits for the project lock only in `Prepare`, which stands for secrets,
  mirror and session image.
- The clock counts where it is read. `Distinct = TRUE` says that no two readings
  fall into one second, as when triggers are apart; `FALSE` lets them.
- A tick awaits manifests before it fires, so it may fire under a second that
  passed, and manual triggers may come in between. The next tick begins after
  the `trigger` of this one returned. A trigger without a runtime is refused by
  the manual verb, and the scheduler is not started without one.
- A second branch of the same name is refused only if the first holds output:
  two branches at the same commit of master push alike.
- A crash leaves container and branches behind; nobody removes that container.

### Approvals

`approvals` is `ApprovalStore`, one entry per driver; `flow` the device flows
with the poller each `Elevate` spawned; `decision` what the operator told the
identity provider. `PollAsks` to `PollGranted` are the poller's loop in `elevate`,
with its deadline, its wait and what each answer makes of the store. The poller knows
an answer by its field `error` alone, whatever the status: JSON without that string
grants (`PollGranted`), any error but the two that mean "not yet" denies (`PollDenied`).
So neither action looks at `decision`, and who answers is left open. `answer` and
`until` of a flow are history: how its poller ended, and until when it granted. Two
flows of one driver may overlap: nothing in the code ends the first. The clock counts
in steps of the approval window.

### Apps

`app` is the record with its action flag, which is the latch of upgrades, as
`building`. `UpgradeBegin` looks at the latch, `UpgradeLocks` has awaited the
manifest and the project lock, `UpgradeRecreates` (an image for this commit
exists) or `UpgradeBuilds` set the record and, for the latter, spawn `BuildEnds`
and `BuildSettles`, which outlive the request. `Verb` is restart or stop.

### WorkItems

`items` is the file: the store has no cache. `Transaction` is read, change,
write and rename, with an error after the rename for a directory that could not
be synced. `seen` is what a client read, `told` what it was answered.

### ProjectCreation

`registry` is the creation intent and the registry's entry, `saved` its snapshot;
`repo` the repository at the provider, whose marker names the operation that made
it, with what is on `master` and whether other heads or tags are there (`beside`);
`attempt` the requests. Between any two calls others create, fill, delete or
replace the repository of that name, an answer gets lost (`Post` may have created
what it reports as failed), or the control plane restarts. Publication is three calls:
`Publish` lists heads and tags, `Push` pushes later under a lease of `master` alone,
`Pushed` lists again and goes on only if it sees the snapshot and nothing else.
`LegacyBegin` and `LegacyEnds` are the registration without a template.

### ProcessGroup and Refresh

`ProcessGroup` is one call of `output_until_observed`: the leader and the
children it forks, `ReadEnds`, `KillGroup`, passes over `/proc` that visit one
process at a time while others fork and die (`ScanPasses`, `ScanFinds`), two quiet
passes, `Reap`. `Refresh` treats that call as a read that ends sometime or never.
`guard` is the project lock, which the worker takes along; `call` both the caller
(busy limit, deadline, grace) and its worker. A request's caller may be dropped while
it awaits lock, permit or worker (`CallerDropped`): guard and permit stay with a
worker that reads, and nobody is left to publish that its end is unconfirmed. The
repair loop's calls run in a task that nobody drops.

### Enrollment

`enrolled` is the record: revision, desired commit, snapshot, phase, what was
confirmed. `ReconcileBegin` to `Receipt` follow `reconcile_using`; a request dropped
on the way is `ReconcilerDropped`. The field `memory` is the POST on the service's
side: it asks back (`MemoryValidates`, answered under the project lock, which is then
let go) and accepts at any later time (`MemoryAccepts`), when the head, the snapshot,
the caller or the process may be others. `observe` runs in the middle of any of it.

### Companion

`bound` is the record with its IDE binding, `machine` the workspace as it really
is, `inbox` the requests the companion accepted: it carries them out whether or
not somebody still waits. An operation is `OperationBegins`, `StartVerifies`,
`StartSaves`, `StartLaunches`, `OpAsks`, an answer or `OpGivesUp`, and an end; a
close, recycle or reap is `LeaveBegins` (or `ReapBegins`, which must see an idle
editor first), `LeaveMarks`, `LeaveFlushes`, the companion's strict finish,
`LeaveRemoves`, `LeaveRebinds`. `Verdicts` is the verdict of `prove` over every
policy of the instance. What the companion does inside a request is `IdeAgent`'s;
what close and recycle do besides, with branches and master, `SessionLifecycle`'s.

### BrowserSessions and IdeGateway

`login` and `session` are the two maps of `Store`; a session's `refresh` counts the
credentials it was given, and a request that refreshes takes it out and is its
`holder`. Expiring is being removed: the code prunes before it looks. The gateway
adds `workspace` (the session records, as far as it looks at them), the keyed
`intents`, `launch` (a task of its own, which a disconnect does not drop) and
`ticket`: unused, consumed, granted, connecting, streaming. A parent session is
looked up in `BrowserSessions`'s own state.

### Research and Handoff

`Research` is the store's file, `frozen` after a save in doubt, and requests
between `reserve`, the service's answer and `accept`. `Handoff` runs both programs:
`ApplyBegins` to `ApplyCompletes` are `owned` in the control plane, which holds the
session lock and owns the `marker`; `TaskBegins` to `TaskEnds` the helper's
task, with its `journal`, the index lock, the publication by compare-and-set and
the push. Each forgets in a crash what it does not keep on disk.

### Activity and IdeAgent

`Activity` has the shells as they are, the extension's limited view, the snapshots
it `sent` (which stay deliverable, in any order, again, for `MaxDelay` newer
ones) and the agent's `observed`. `IdeAgent` has two locks and a task under each:
`duty` (start, stop) under the process lock, `saving` (checkpoint) under the sync
lock; `Writes` is everything else that touches the checkout, at any moment.

## Runs

| run | asks | instance | result |
|---|---|---|---|
| `session_failures` | do the lifecycle's promises survive any one failing step? | 2 sessions, 2 handlers, reaper, 2 units of work, every request but finish, one of persist/mirror/image/docker/boot/flush/push fails | holds, 268 thousand states |
| `session_crash` | and crashes, with older snapshots? | 2 sessions, 1 handler, reaper, every request but finish, two faults out of crash and unwritten snapshot | holds, 829 thousand states |
| `session_legacy` | are disputed legacy containers safe, are commits safe when drivers write at any moment? | 2 legacy and 2 fresh sessions, open, recycle, reap; a disconnect, an unwritten snapshot or a failed flush | holds, 311 thousand states |
| `session_liveness` | does every request end? | 2 handlers, reaper, 2 sessions, open, finish (and the close it becomes), recycle, reap; a mirror failure or a disconnect | holds, 64 thousand states |
| `session_interrupted` | do interrupted transitions come back failed? | 1 session, a crash | violated (finding 1) |
| `session_late_commit` | is an acknowledged commit safe during close? | 1 session, a driver that commits | violated (finding 2) |
| `session_debt` | does the next session inherit a debt? | 3 sessions | violated (finding 3) |
| `jobs_failures` | do records, log, branch and latch tell one story, and is the job contract kept? | 3 triggers in different seconds, a ring of 2, two faults out of crash, unwritten snapshot and six failing calls | holds, 1.3 M states |
| `jobs_same_second` | and when two triggers fall into one second? | 2 triggers, no fault | violated (finding 4) |
| `control_plane` | do the control plane's own components keep their promises under overlapping requests, refused saves, lost answers and restarts? | eight components, below | holds, 347 thousand states |
| `browser` | do gateway, sessions, research, handoff and the agent keep theirs under races, crashes of either side and reordered observations? | six components, below | holds, 375 thousand states |
| `approvals_kept` | does an approval last until it expires? | 1 driver, 2 flows | violated (finding 5) |

Properties of sessions, beyond `TypeOK`: `MutualExclusion` (of the guards, wherever they
moved), `BranchExclusive`, `OneRuntimePerSession`, `WorkPreserved`,
`CommitPreserved`, `OutcomeTruthful`, `DebtKept`, `ActiveIsRunnable`,
`ObservedGenerationOnly`, `DisputedNeverDestroyed`, `RequestsEnd`,
`ImplementsContract` (refinement: `master` is the remote's master, `author` and
`outcome` are themselves). Of jobs: `RecordsTellTheTruth`,
`LogAgreesWithRecords`, `TestimonyOrComplaint`, `InFlightListed`, `LatchIsHeld`,
`IncumbentUntouched`, `ImplementsContract` (`current` is the task between claim
and release, `published` what the branches hold, `complained` the runs that
ended with a missing output).

Of the control plane (`control_plane`):

- `AnswerBehindEveryGrant`: a driver passes a guarded verb only on the answer to an
  elevation of that very driver, until the end that answer set, whatever pollers overlap
  and snapshots return; an elevation that was denied, ran out or was cut off by a restart
  never grants again;
- `LatchIsServed`: an app shown as building has a task of this process behind it,
  though two upgrades may pass the latch together;
- `NoLostUpdate`: an edit replaces what its author read, and what a client was told
  stays, through saves in doubt;
- `CreationSound`: no master of others is overwritten, whatever is pushed between the
  look and the push (other refs stay too, but beside ours); a repository with our
  marker can be resumed, an operation publishes one commit, a complete creation is whole;
- `NothingOutlivesItsCall`: when a bounded call returns, nothing of its group is left;
- `ReaderQuarantined`: a reader that may still run owns its mirror, its caller answered
  or dropped, and its project shows a failure once the caller gave it up;
  `CallersAnswered`: callers that are not dropped are answered all the same;
- `IndexedIsCurrent`: "indexed" is about the revision and commit now desired;
  `DurableBeforeMemory`: Memory is never ahead of the disk: however late it accepts, what
  it holds is the snapshot on disk or of a revision the disk is past;
- `CompanionSound`: where an editor was ever started the record says so, on disk too;
  no workspace is removed with an editor, a command or unsaved work in it; no editor
  starts under a policy that does not protect master.

Of the browser side (`browser`):

- `BrowserSound`: a logout is final, also for refreshes and callbacks under way, and no
  credential of uncertain fate is sent again;
- `OneWorkspacePerKey`: a key opens one workspace at most, however often it is sent;
- `StreamsClose`: no editor stream outlives its user's session and its generation for ever;
- `HandoffSound`: while a helper may write, the marker blocks every transition, on disk
  too; a bundle is committed once, on the base it was checked against; complete is pushed;
- `OneRunPerOperation`: the service runs an operation once, for the request on file;
- `AgentTruthful`: idle was observed by the only observer, in its newest snapshot; one
  editor at most, marked on disk; stopped means preferences saved; finished means pushed.

Each property is checked against a mutated definition of the code and fails there.

**Bounds.** Two sessions are enough for every property that relates sessions
(branches, disputes, merges that conflict need two); two units of work give
two branches that have both moved; `MaxGen = 2` lets a session be recycled once
and be refused the second time, standing for `u64::MAX`; two handlers and a
reaper are the smallest cast in which a lock has two waiters; `MaxFaults` is 1
where the fault kinds are many and 2 where the combination is the question (a
snapshot not written, then a crash). In the legacy run two records dispute one
container and two fresh ones meet them. Sessions that are not legacy, handlers
and units of work are interchangeable (symmetry); the liveness run uses none.
`finish` is left to the liveness run, where it takes the place of `close`: from
its comparison under the session lock on it is the same code.
Disconnects meet drivers in the legacy run (acknowledged commits) and locks in the
liveness run; the crash run has none, so `WorkPreserved` is not checked under them.
For jobs, three triggers are one in flight, one refused, and one that comes after
a crash or after the end; a ring of two overflows with them, as the code's ring of
20 does with more. `MaxClock` gives each trigger a second.

In `control_plane`: two drivers and two flows, which may be one driver's (one poller
ends what the other was granted), and two lifetimes, so that the ends of two grants
differ; two upgrades and two commits (an upgrade that
overlaps with another, or with master moving); two editors, two identifiers, one
text each may also resend, three revisions; two attempts at a creation, one of them a
retry, template moves, two repositories of that name one after the other, each kind
of registration; a leader and three children (one forked before, one during the kill,
one by a child); two calls for two projects or for the same one, and one permit, so
that a stuck reader exhausts the pool; two reconcilers over four revisions and three
commits, one of which disables enrollment, and a namespace somebody else may own;
three calls of the companion over two generations (a start, what goes wrong with it,
what a close or recycle makes of that) and all policies of two rulesets. In `browser`:
two logins, two requests, a capacity of one session (so that it is reached); two
launches with two keys and two workspaces; two bundles, two requests, two
generations; three posts for two operations; two terminals with a limit of one,
two instances of the extension and packets delayed by two others; two commits
and one change of the content. `MaxEpoch`, `MaxAudit`, `LastRevision`, `MaxKey`,
`LastPacket` and the like bound counters that grow without one in the code.

Two restrictions of `MCBrowser` and `MCControlPlane` keep these small. Names that a
module does not tell apart (flows and drivers, logins, launches, bundles, posts, calls) are used in one
order, which loses no behaviour but renamings; symmetry sets would not be sound with the
liveness properties. And in focus "gateway" users have one session at a time
(`OneSession`): what several sessions do to each other is asked in focus "sessions",
and the gateway only asks whether the parent of a grant is still there.

**Fairness.** `Running` steps, which wait for nothing, are weakly fair: the
executor runs every ready task, and calls out are under time limits. `Locking`
steps are strongly fair: tokio's mutex is FIFO, so a waiter gets the lock even if
others keep taking it. Nothing is assumed of requests, drivers, disconnects or
crashes: no fairness forces them.

`RefreshFair` makes a caller's own steps weakly fair: its timers (`TooBusy`,
`Deadline`, `GivesUp`) and its return. Workers get none: `CallersAnswered` must hold
though a reader never ends and keeps lock and permit. `GatewayFair` is weak fairness
of `StreamPolls`, the timer in a stream that looks again whether its grant is good;
nothing makes an editor, a user or a provider act.

## What the violated runs show

1. `session_interrupted`: `recycle` marks the record recycling, then works on the
   copy it read before. The rebind puts and persists that copy, with lifecycle
   `active` (`sessions.rs:798`); only after the IDE layer is prepared does it put
   `recycling` again (822-824). A crash in between hydrates an active session
   without a runtime, where `docs/session-lifecycle.md:29-30` promises failed /
   interrupted. The same window opens when the client disconnects there, which
   is why `ActiveIsRunnable` is checked without `cancel` and `crash`.
2. `session_late_commit`: `close` deletes the remote branch (`sessions.rs:687`)
   after merging what it fetched at 637-640. A commit pushed in between is
   acknowledged and gone, where `docs/sigiled-contract.md:128-129` says committed
   work is never lost.
3. `session_debt`: `find_orphan` skips debtor branches and nothing else resumes
   one, where `docs/sigiled-contract.md:219-220` starts the next container from it.
   The unit test `orphan_scan_ignores_live_and_debtor_branches` agrees with the code.
4. `jobs_same_second`: `update_run` gives the verdict to the newest record with
   the run's branch (`jobs.rs:74`), and a branch is named by the second. A trigger
   refused in that second left a newer record of that name: it is turned from
   `skipped_locked` into the verdict, and the run's own stays `running`, until a
   restart makes it `aborted`. `jobs.rs:271-273` promises a recorded skip,
   `jobs.rs:100-101` takes a `running` record for a run that died.

5. `approvals_kept`: a driver that elevates again while its first flow is open has two
   pollers. When a flow runs out or is denied, its poller marks *the driver's*
   approval expired (`auth.rs:721`) or denied (745), whatever it is by then: a grant
   given on one flow is taken away by the end of the other, where
   `docs/sigiled-contract.md:64-66` has the operator approve once and SIGILED keep it.

Divergences and sharp edges met while modelling that have no run of their own (the
properties above hold with them, and the modules contain them unless it says so):

- A crash during a job leaves its container, whose name is fixed, so each later run of
  that job errors at create until somebody removes it; `docs/sigiled-contract.md:332-333`
  ends every run with "destroyed".
- `docs/session-lifecycle.md:68-69` says open holds the project lock while
  bootstrapping; the code drops it before the layer is prepared (`sessions.rs:481`).
- `apps.rs:198` calls the action flag the latch of "one build at a time per app", but it
  is read before the manifest and the project lock are awaited and set after: two
  upgrades may pass it and build one after the other. While a build runs, and after it
  failed, the record's `sha` is already the new commit (`apps.rs:35` has it as the one
  the image was built from).
- `ecosystem.rs:126` keeps a busy retry from concealing a quarantined reader. A refused
  snapshot overwrites the `unconfirmed` error first, and the busy retry after it
  overwrites that: the project still shows a failure, of another kind.
- The poller takes any JSON body without a string `error` for the approval
  (`auth.rs:749-770`): it looks neither at the status nor for an `access_token`; without
  one the human is `operator` and, if `expires_in` is missing too, the end twelve hours off.
  The comment at `auth.rs:750` says of that arm "Approved. The access token came straight
  from the IdP". So no property here has the operator behind a grant, only an answer.
- A refresh whose request was dropped while its worker is stuck in Git leaves lock and
  permit with the worker, as `ecosystem.rs:486-545` tests, but `TerminationUnconfirmed`
  is published by the caller, which is gone: the project looks as before until somebody
  asks again and is told "busy". Hence `QuarantineShown` is about callers that gave up. What holds after a
  drop is `FailureStays`: a failure once shown while a reader is at large is taken back by
  that reader's end or a restart only.
- `template_snapshot.rs:362` leases `master` alone. A branch or tag that appears between the
  listing and the push is left as it is, with the snapshot pushed beside it; the second
  listing then ends the request, and each retry, until somebody removes that ref.
- `enrollment.rs:480-510` lets go of the lock when it has answered Memory, so Memory may
  accept a revision that is not desired any more. What it holds is then behind the disk.
- A launch whose intent was saved and whose session never opened answers
  "retry_same_key" for ever (`allocation.rs:132-134`): never a second workspace, and no
  first one either.
- A session whose editor start was saved and whose companion never came up cannot be
  closed, recycled or reaped once it is failed, as the flush needs the companion
  (`ide.rs:506-513`) and a start needs an active session (`ide.rs:258`), while
  `sessions.rs:277-281` answers "recoverable". Safe, but stuck.
- A handoff that failed and is asked for again after a recycle resends the request of the
  old generation, which the helper refuses without an observation: it is quarantined
  for good. So is one whose marker could not be saved, as memory keeps it pending. And a
  helper that dies while it owns `.git/index.lock` leaves it behind.
- A `failed` observation and a delayed POST of the same operation could cross; the model
  assumes a request reaches the helper before its caller gives it up.
- After an agent restart a marked editor is `editor_ownership_unknown` until the
  workspace is recycled. A login in flight in a second tab survives a logout of the
  session it does not replace.

## Proofs

Each theorem holds for every value of the constants that meets the assumptions of
the module it is about; TLC evaluates these on every run. They say that a name for
"nothing" is none of the things (`NoneIsNoRecord`, `NoneIsNoWorkspace`,
`NoneIsNoBranch`), that bounds are natural numbers, and that sets the code cannot
find empty are not: somebody who creates and something to create from
(`CreationAssumption`), a key to launch under (`GatewayAssumption`), a commit to
push (`AgentAssumption`). A theorem that has a hypothesis of its own says so below, and
why it is needed.

### Sessions

| theorem | states | hypothesis |
|---|---|---|
| `Exclusion`, `TypeCorrect` | `[]MutualExclusion`, `[]TypeOK` | |
| `RemovesWhatItObserved` | `ObservedGenerationOnly` | |
| `BranchesExclusive` | `[]BranchExclusive` | |
| `OneRuntime` | `[]OneRuntimePerSession` | |
| `DisputedKept` | `DisputedNeverDestroyed` | |
| `ActiveRuns` | `[]ActiveIsRunnable` | neither crash nor cancellation in `Faults` |
| `DebtsKept` | `[]DebtKept` | |
| `WorkKept` | `[]WorkPreserved` | `~LateWork` |
| `OutcomesTrue` | `[]OutcomeTruthful` | `~LateWork` |
| `CommitsKept` | `[]CommitPreserved` | `~LateWork`, or no close and no finish |
| `LifecycleImplementsContract` | `ImplementsContract` | `~LateWork` |
| `MergedStaysInMaster`, `LifecycleKeepsMerged` | what the contract promises, of it and of the lifecycle | none; `~LateWork` |

`SessionLifecycle_proofs`: neither of its two claims is inductive alone. A task
that fails marks *its session's* record, so `recs` keeps its type only if that
record is still there (`RecordHeld`), and it is there because no other task that
could remove it holds the session (`MutualExclusion`); a task's generation steps to
a successor only because a recycle was refused at the last one (`LocalOK`). The
inductive invariant is `Inv`, control (`ControlInv`: types of stores and tasks,
exclusion, records held) and world (`WorldOK`: git, containers, histories). The
proof has a lemma per shared step (`StepOK`, `FailOK`, `TryPersistOK`, `PutOK`,
`MoveOK`), a lemma per action for control, and then the world's types from the
control invariant.

`SessionSafety_proofs` builds two more on it. `GenKept` says that from the
comparison under the session lock to the destroy the record's generation is still
the one compared: only `RecycleRebind` raises a generation, and it does so for the
task that holds the session. `RecordBranches` and `WorldBranches` say that every
branch known anywhere (records, snapshot, mirror heads, remote, containers) was
named by an identity drawn earlier, that a task's local copy agrees with the store
on its branch, and that records do not share branches, in memory or in the
snapshot. A fresh identity's own branch is then new, and an orphan belongs to no
record; since `BranchExclusive` holds of the snapshot too, a crash preserves it.

`SessionBinding_proofs` adds the containers. `BindInv` has three parts beside those:
which containers there are of a session, given its record (`Fit`: a generation's
container belongs to a record bound to that generation, on the container's branch; the
alias to one that is not bound), of memory and of the snapshot alike; what a task knows
where it stands (`Knows`: its copy is the record's in both, a place it is about to fill
is empty, a legacy alias that two records claim, `Disputed`, has nobody at work on it);
and that an ended session has no container (`Ended`). Since `Fit` holds of the snapshot,
it survives a crash, which replaces the records and keeps the containers.
`OneRuntime` and `DisputedKept` follow. `ActiveRuns` adds `Ready`: an active record whose
session is free is owned, and its container there and booted. Its hypothesis is needed:
if the server crashes, or the client goes away, after a recycle destroyed the former
generation and before it booted the next, the record can say active with nothing behind
it (without the hypothesis TLC finds either in a dozen steps of `session_crash`'s
instance).

`SessionWork_proofs` follows each unit of work from a checkout to master. `Refs` says
what remote and mirror hold of a branch at each point of a transition, and who answers
for a debt (`Owed`, in memory and snapshot). `Works` says that a unit of a session not
ended is in master, on its branch or in its container, that an ended one's outcome says
where it is (`Kept`), and that a task past its checkpoint takes nothing away that the
remote lacks (`Covered`). Only the last depends on `~LateWork`: a driver that writes
while its own session is being closed puts work in a tree that was flushed already.
`session_late_commit` shows the commit that is then lost; `CommitsKept` that close and
finish alone are to blame, as recycle and reap push once more. The refinement reads
master as the remote's and maps each step to one of `ProjectContract` or a stutter
(`PublishLands`, `RemoveEnds`): a session may end as merged only when all it produced is
in master, which is what `Works` supplies. The corollary takes the contract's own
invariant back to the lifecycle.

### Jobs

`Jobs_proofs`, for any set of triggers, ring size and clock bound: `LatchHeld`,
`RunsNeverOverlap` (two runs between claim and release are one run),
`OwnContainerOnly`, `TypesKept`, `TestimonyHolds`, the refinement
`EngineImplementsContract`, and for `Distinct` triggers `RecordsTrue`, `LogAgrees`
and `FlightListed`.

- `JobInv`: types of tasks (`TaskOK`), `Latched` (whoever is in flight holds the
  latch, and is the only one), `Owned` (a run that acquired the container and has
  not destroyed it is the container's creator). The latch alone is not inductive: a
  release must be the holder's, hence uniqueness; and a destroy may only follow a
  create of the same run, since a crash forgets `acquired` and keeps the container.
- `HistOK`, for the refinement: what history and branches say of each program point.
  A run in flight has not ended, its branch exists once it booted, and from the flush
  on it published or complained, or is in error. Each group of actions has a lemma
  that maps it to a step of the contract or a stutter.
- `PlainInv`: types of ring, log and snapshot, and `Answered`, that a record in either
  which says "ended, and no complaint" names a branch with output. It needs no
  distinct stamps: a run that shares a branch never empties it.
- `BookInv`, under `Distinct`: a record in ring or snapshot is about its own run
  (`Told`), no run has two (`Apart`), the log says of a run what its record says
  (`Match`), a restart leaves none running (`Live`), and before the record of the run in
  flight come refused triggers only (`Shown`). A record is found again by the second of
  its start, so with two triggers in one second one run's verdict lands on the other's
  record: `jobs_same_second` shows it, and is why the theorems assume `Distinct`.

### The control plane's components

`ControlPlane_proofs` has ten theorems, each for any sets of clients, calls, flows,
processes and so on:

- `UpdatesKept`: `WorkItemsSpec => []NoLostUpdate`, which is inductive with the types:
  an item's audit only grows, by one edit that builds on the last.
- `GroupEnds`: `ProcessSpec => []NothingOutlivesItsCall`. `ProcessInv` adds
  `QuietIsKept`: past the first kill nobody is live, so nobody forks, and what a scan
  passed as dead stays dead; without the order of kill and scan the claim is false.
- `LatchServed`: `AppsSpec => []LatchIsServed`. A build holds the project lock, so the
  upgrade that sets the flag is the only one that can be between setting and settling it.
- `GrantsAreAnswered`: `ApprovalsSpec => []AnswerBehindEveryGrant`. `Backed` says
  `GrantedBy` of memory and snapshot alike, so that hydration keeps it; `FlowsOK` that a
  flow begun has a driver, so a mark falls on that driver's entry and turns nothing into a
  grant; and a poller that is over stays as it is (`Rests`).
- `Quarantined` and `FailuresStay`: `RefreshSpec => []ReaderQuarantined` and
  `=> FailureStays`. `CallsOwn` says for each place a call can be in, left or dropped
  included, what it owns and what its descriptor shows. A call that could publish a
  success owns the lock, which the reader at large has. `FailureStays` is proved only: it
  takes two permits to be a question, and the run has one, to be exhausted.
- `IndexedTruly` and `MemoryBehindDisk`: `EnrollmentSpec => []IndexedIsCurrent` and
  `=> []DurableBeforeMemory`. `EnrollmentInv` follows the snapshot of a POST, whether
  somebody waits for it or not: it was saved before it was sent, so the disk holds it
  or a later revision, and keeps doing so; a revision has one snapshot, so what Memory
  accepts late is equal to what is on disk or behind it.
- `CreationReliable`: `CreationSpec => []CreationSound`. `OnDuty` says what the attempt
  that holds the project lock may rely on (the intent it carries is the one on disk, and
  the repository bound, published to and keyed is the same). It says nothing of the refs
  others may push between look and push: that nothing is overwritten comes from the
  lease (`PushOK`), which what was looked at could not give. `Books` says that registry,
  snapshot and provider tell of one operation and one commit, and that a creation
  complete in either of the first two is whole.
- `ControlTyped`: `MCSpec => []MCTypeOK`, for the run the components share: a step of it is
  a step of one of them and a stutter of the others (`ControlSteps`). Two of its bounds are
  more than types: readers never outnumber the permits (`Permits`), those included whose
  callers left long ago, and a recycle stops at the last generation a record can name.

`Companion_proofs` proves `EditorHeld` and `CompanionTyped`: `CompanionSpec =>
[]CompanionSound` and `=> []CompanionTypeOK`, for any number of calls, rulesets and
generations. None of its three parts is inductive.
`CompanionInv` adds what a call knows where it stands (`CallKnows`): before a launch the
record said so, in memory and on disk, under a proved policy; before a removal the
inbox is empty and the workspace clean. The second survives because a call that leaves
owns the session lock (`LockHeld`), so that nobody else can ask the companion to start an
editor, and because it asked with an empty inbox, so that no request that timed out
earlier can still start one. `OnlyEnforced` is the lemma that what `prove` accepts is
enforced, for any rulesets. `CompanionTyped` rests on `Generations`: a recycle compared
its generation with the last one before it went on, and holds the session lock from then
until it rebinds, so the record it then advances, or finds again after a restart, is still
below the last.

### The browser's components

`Browser_proofs` has seven theorems:

- `RunsOnce`: `ResearchSpec => []OneRunPerOperation`. `OnFile` says that whatever a
  request carries is on file, key and payload, and stays there; `RunsOnFile` that every
  run of the service has such an intent.
- `LeftForGood`: `BrowserSpec => []BrowserSound`. Half of `SessionsInv` follows who
  replaces whom (`Succession`: a session comes with the end of its login, once; what an
  open login is to replace, or a session replaced, is over and was not left, so a logout
  must end the open logins too), the other half in whose hands a credential is
  (`Numbered`: one in doubt was issued before the next; `Exchanges`: a request that
  sends one holds the session's lock, and the session has none).
- `OnePerKey`: `GatewaySpec => []OneWorkspacePerKey`. A workspace that was opened under
  a key is the key's intent, on disk as well (`Intended`), and a launch that opens one
  is alone with its lock, has its intent saved, and nothing is owned meanwhile (`Alone`).
- `HandoffKept`: `HandoffSpec => []HandoffSound`. `Control` says who may do what when: a
  request that has begun holds the session lock (`Ask`), while the helper runs the marker
  is pending in memory and on disk, what is complete or pushed is on the remote branch.
  `History` says what the branches hold: a bundle is on a branch once, right above the
  base its journal names, and past the commit the branch begins with base and bundle.
- `IdleObserved`: `ActivitySpec => []IdleWasObserved`, a conjunct of `AgentTruthful`.
  `Following`: the extension knows of every command of an integrated terminal, or that it
  does not, so a packet without overflow is honest. `Watching`: the agent has heard of one
  observer and of its newest snapshot, or reports a conflict.
- `AgentTells`: `ActivitySpec /\ AgentSpec => []AgentTruthful`. `DutyInv` says what each
  place of the task that holds the process lock knows of the editor (`Running`) and that
  preferences not published are marked pending (`Preferring`); `SaveInv` what each place of
  a checkpoint knows of the branch (`Keeping`), against writers who do not wait for it, and
  that what was reported finished stays so (`Finished`).
- `RunTyped`: `MCSpec => []MCTypeOK`, for the run itself: a step of it is a step of one
  component and a stutter of the others (`RunSteps`). Besides types it says that logins
  under way and sessions present never exceed their limits (`Capacity`), however callbacks,
  logouts and refreshes cross.

### Only model-checked

The liveness properties (`RequestsEnd`, `CallersAnswered`, `StreamsClose`), which the
prover cannot treat; and the five properties that the code violates. What is proved of
the bounds: nothing depends on them, as the theorems leave `MaxGen`, `MaxFaults`, `MaxClock` and the others arbitrary.

## Not modelled

- `browser/memory.rs`, `browser/dashboard.rs`, `overview.rs`, `catalog.rs`, `contract.rs`,
  `skill.rs`: validation, relays and projections; they keep no state.
- Key and token verification (`auth.rs`), cron matching (`jobs.rs`), the content of
  manifests and declarations, templates and profiles: functions of their input, taken
  here as their outcome.
- The gateway's preview targets, pages and header rewriting; the agent's direct reports
  of command start and end, which the editor's extension does not send.
- `vm-base/src` beyond writing, committing and pushing; images, edge configuration,
  scripts and tools.
- Responses that the gateway streams without an upgrade (`proxy.rs:298`): `StreamsClose` is
  about upgraded connections.
- That a session whose handoff was given up can be used again some day: `HandoffSound` is
  a safety property, and a quarantined marker stays until somebody acts.
- A control plane without a container runtime (development).
- Two reads of the policy that straddle a change of it: `Companion` takes them as one.

What would come next: lemmas towards the liveness properties (what each step of a
session's task leaves to do).

## Running

    tlc -config SessionFailures.cfg MCSessionLifecycle      # also SessionCrash, SessionLegacy, ...
    tlc -config JobsFailures.cfg MCJobs                     # also JobsSameSecond
    tlc -config ControlPlane.cfg MCControlPlane             # two to three minutes
    tlc -config Browser.cfg MCBrowser
    tlc -config ApprovalsKept.cfg Approvals
    tlapm SessionLifecycle_proofs.tla                       # and each other *_proofs module
