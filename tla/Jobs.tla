-------------------------------- MODULE Jobs --------------------------------
(***************************************************************************)
(* The runs of one job of one project: the scheduler's tick, the manual    *)
(* trigger, the latch, the run in its container, the ring of records, a    *)
(* crash of the control plane and the hydration that follows it.           *)
(*                                                                         *)
(* Code: sigiledd/src/jobs.rs and the parts of runtime.rs, main.rs and     *)
(* events.rs it calls. A run's branch "job-{name}-{stamp}" is named by the *)
(* second its trigger read off the clock.                                  *)
(***************************************************************************)
EXTENDS Naturals, Sequences, SequencesExt

CONSTANTS
  Runs,       \* triggers, by the clock or by hand; each is used once
  RingSize,   \* records kept per job (20 in the code)
  MaxClock,   \* bound on the seconds read off the clock
  Distinct,   \* do no two triggers fall into one second?
  Faults,     \* kinds of failure the environment injects
  MaxFaults,  \* bound on the failures of one behaviour
  None        \* no container, no tick, no branch

ASSUME JobsAssumption ==
  /\ None \notin Runs
  /\ RingSize \in Nat \ {0}
  /\ MaxClock \in Nat
  /\ None \notin 0..MaxClock
  /\ Distinct \in BOOLEAN
  /\ MaxFaults \in Nat

ASSUME NoneIsNoBranch == \A held \in SUBSET Runs : held # None

VARIABLES
  clock,   \* the last second anybody read off the clock
  tick,    \* the second at which the scheduler's tick began, while it runs
  latch,   \* JobsState.inflight holds the job
  ring,    \* JobsState.runs: records, newest first
  log,     \* the machine event log: what it says a run ended as
  disk,    \* the snapshot the store last renamed into place
  task,    \* each trigger and the run it launches
  cont,    \* the run that created the container vm-job-{project}-{job}
  remote,  \* the job branches, by stamp: the runs whose output they hold
  ended,   \* history: how a run ended, decided when the latch is released
  faults   \* failures injected so far

vars == <<clock, tick, latch, ring, log, disk, task, cont, remote, ended, faults>>

-----------------------------------------------------------------------------
(* Types *)

Stamps   == 0..MaxClock
Verdicts == {"succeeded", "failed", "error"}  \* "timeout" is one more way to fail
States   == Verdicts \cup {"running", "skipped_locked", "aborted"}

\* JobRunRecord; "of" is history, which trigger wrote the record. "missing" is the
\* detail that tells of a failed flush.
Record == [of: Runs, branch: Stamps, state: States, missing: BOOLEAN]

\* The points of trigger and execute_run between which other threads may act.
Launching == {"push", "persist", "prepare", "create", "boot", "exec", "flush",
              "destroy", "settle", "release"}
Refused   == {"skip", "logskip"}
Pcs       == {"idle", "checked", "log", "done"} \cup Launching \cup Refused
Task      == [pc: Pcs, stamp: Stamps, cron: BOOLEAN, acquired: BOOLEAN,
              state: Verdicts \cup {"none"}, missing: BOOLEAN]
Fresh     == [pc |-> "idle", stamp |-> 0, cron |-> FALSE, acquired |-> FALSE,
              state |-> "none", missing |-> FALSE]

-----------------------------------------------------------------------------
(* JobsState *)

\* Mutant: records are appended, so truncation drops the newest.
PushedBack(rec) ==
  IF Len(ring) < RingSize THEN Append(ring, rec) ELSE ring

\* Mutant: nothing is cut off.
PushedUncut(rec) == <<rec>> \o ring

\* push_run: insert at the front, truncate.
Pushed(rec) ==
  LET longer == <<rec>> \o ring
  IN  SubSeq(longer, 1, IF Len(longer) > RingSize THEN RingSize ELSE Len(longer))

\* Mutant: the newest record is updated, whatever its branch.
UpdatedFirst(branch, state, missing) ==
  IF ring = <<>> THEN ring
  ELSE [ring EXCEPT ![1].state = state, ![1].missing = missing]

\* update_run: the newest record of that branch, if one is left.
Updated(branch, state, missing) ==
  LET i == SelectInSeq(ring, LAMBDA rec : rec.branch = branch)
  IN  IF i = 0 THEN ring
      ELSE [ring EXCEPT ![i].state = state, ![i].missing = missing]

\* Mutant: hydration takes the records as they are.
HydratedAsIs(records) == records

\* hydrate
Hydrated(records) ==
  [i \in DOMAIN records |->
     IF records[i].state = "running" THEN [records[i] EXCEPT !.state = "aborted"]
                                     ELSE records[i]]

-----------------------------------------------------------------------------
(* Persistence and failure *)

Inject(f) == f \in Faults /\ faults < MaxFaults /\ faults' = faults + 1
NoFault   == UNCHANGED faults

\* A task at its end: its verdict is all that is remembered, as history.
Finished(k) == [Fresh EXCEPT !.pc = "done", !.state = k.state, !.missing = k.missing]

\* AppState::persist: the whole of memory in one rename, a failure only logged.
Persisted ==
  \/ disk' = [ring |-> ring', log |-> log'] /\ NoFault
  \/ Inject("persist") /\ UNCHANGED disk

Goto(r, pc) == task' = [task EXCEPT ![r].pc = pc]

\* Mutant: an error leaves execute_run, not its inner block.
ErrorsAtOnce(r, acquired) ==
  task' = [task EXCEPT ![r].pc = "done", ![r].acquired = acquired, ![r].state = "error"]

\* The "?" of execute_run's inner block: the run ends in error, its container
\* goes if the run created it.
Errors(r, acquired) ==
  task' = [task EXCEPT ![r].pc = "destroy", ![r].acquired = acquired,
                       ![r].state = "error"]

Init ==
  /\ clock = 0
  /\ tick = None
  /\ latch = FALSE
  /\ ring = <<>>
  /\ log = {}
  /\ disk = [ring |-> <<>>, log |-> {}]
  /\ task = [r \in Runs |-> Fresh]
  /\ cont = None
  /\ remote = [b \in Stamps |-> None]
  /\ ended = [r \in Runs |-> "none"]
  /\ faults = 0

-----------------------------------------------------------------------------
(* The clock, the scheduler and the manual trigger *)

\* The seconds a reader of the clock may see: time counts where it is read.
Now == {b \in Stamps : b = clock + 1 \/ (b = clock /\ ~Distinct)}

\* scheduler: read the clock; the tick then refreshes manifests, which may take
\* long, and fires later under the time it read.
TickBegin ==
  /\ tick = None
  /\ \A r \in Runs : task[r].cron => task[r].pc \notin {"push", "persist"} \cup Refused
  /\ clock' \in Now
  /\ tick' = clock'
  /\ UNCHANGED <<latch, ring, log, disk, task, cont, remote, ended, faults>>

\* Nothing due, or a manifest that cannot be read.
TickEnds ==
  /\ tick # None
  /\ tick' = None
  /\ UNCHANGED <<clock, latch, ring, log, disk, task, cont, remote, ended, faults>>

\* Mutant: the latch is taken without a look at it.
ClaimAnyway(r, stamp, cron) ==
  /\ latch' = TRUE
  /\ task' = [task EXCEPT ![r] = [Fresh EXCEPT !.pc = "push", !.stamp = stamp, !.cron = cron]]
  /\ UNCHANGED ended

\* trigger: try_claim takes the latch, or the skip is recorded.
Claim(r, stamp, cron) ==
  \/ /\ ~latch
     /\ latch' = TRUE
     /\ task' = [task EXCEPT ![r] = [Fresh EXCEPT !.pc = "push", !.stamp = stamp, !.cron = cron]]
     /\ UNCHANGED ended
  \/ /\ latch
     /\ task' = [task EXCEPT ![r] = [Fresh EXCEPT !.pc = "skip", !.stamp = stamp, !.cron = cron]]
     /\ ended' = [ended EXCEPT ![r] = "skipped_locked"]
     /\ UNCHANGED latch

TickFires(r) ==
  /\ tick # None
  /\ task[r].pc = "idle"
  /\ Claim(r, tick, TRUE)
  /\ tick' = None
  /\ UNCHANGED <<clock, ring, log, disk, cont, remote, faults>>

\* run: is_inflight answers 409 at once; it is another look than try_claim's.
ManualCheck(r) ==
  /\ task[r].pc = "idle"
  /\ ~latch
  /\ Goto(r, "checked")
  /\ UNCHANGED <<clock, tick, latch, ring, log, disk, cont, remote, ended, faults>>

ManualTrigger(r) ==
  /\ task[r].pc = "checked"
  /\ \E now \in Now : Claim(r, now, FALSE) /\ clock' = now
  /\ UNCHANGED <<tick, ring, log, disk, cont, remote, faults>>

NewRecord(r, state) ==
  [of |-> r, branch |-> task[r].stamp, state |-> state, missing |-> FALSE]

PushSkip(r) ==
  /\ task[r].pc = "skip"
  /\ ring' = Pushed(NewRecord(r, "skipped_locked"))
  /\ Goto(r, "logskip")
  /\ UNCHANGED <<clock, tick, latch, log, disk, cont, remote, ended, faults>>

PushRunning(r) ==
  /\ task[r].pc = "push"
  /\ ring' = Pushed(NewRecord(r, "running"))
  /\ Goto(r, "persist")
  /\ UNCHANGED <<clock, tick, latch, log, disk, cont, remote, ended, faults>>

\* Persist, then spawn execute_run.
Launch(r) ==
  /\ task[r].pc = "persist"
  /\ Goto(r, "prepare")
  /\ UNCHANGED <<clock, tick, latch, ring, log, cont, remote, ended>>
  /\ Persisted

-----------------------------------------------------------------------------
(* execute_run *)

\* Secrets, mirror, session image: under the project lock while it must.
Prepare(r) ==
  /\ task[r].pc = "prepare"
  /\ \/ Goto(r, "create") /\ NoFault
     \/ Inject("prepare") /\ Errors(r, FALSE)
  /\ UNCHANGED <<clock, tick, latch, ring, log, disk, cont, remote, ended>>

\* docker create owns the name atomically; an incumbent is never touched.
Create(r) ==
  /\ task[r].pc = "create"
  /\ \/ /\ cont = None
        /\ cont' = r
        /\ task' = [task EXCEPT ![r].pc = "boot", ![r].acquired = TRUE]
        /\ NoFault
     \/ cont # None /\ Errors(r, FALSE) /\ NoFault /\ UNCHANGED cont
     \/ Inject("create") /\ Errors(r, FALSE) /\ UNCHANGED cont
  /\ UNCHANGED <<clock, tick, latch, ring, log, disk, remote, ended>>

\* boot_workspace: clone, cut the branch from master, push it. A branch of that
\* name that holds output refuses the push; one that stands at master does not.
Boot(r) ==
  LET b == task[r].stamp
  IN  /\ task[r].pc = "boot"
      /\ \/ /\ remote[b] \in {None, {}}
            /\ remote' = [remote EXCEPT ![b] = {}]
            /\ Goto(r, "exec")
            /\ NoFault
         \/ /\ remote[b] \notin {None, {}}
            /\ Errors(r, TRUE)
            /\ NoFault
            /\ UNCHANGED remote
         \/ /\ Inject("boot")
            /\ Errors(r, TRUE)
            /\ remote' \in {remote, [remote EXCEPT ![b] = IF @ = None THEN {} ELSE @]}
      /\ UNCHANGED <<clock, tick, latch, ring, log, disk, cont, ended>>

\* The command under its wall clock, as run_verdict judges it.
Exec(r) ==
  /\ task[r].pc = "exec"
  /\ \/ /\ \E how \in {"succeeded", "failed"} :
             task' = [task EXCEPT ![r].pc = "flush", ![r].state = how]
        /\ NoFault
     \/ Inject("exec") /\ Errors(r, TRUE)
  /\ UNCHANGED <<clock, tick, latch, ring, log, disk, cont, remote, ended>>

\* Mutant: a failed flush is not mentioned.
FlushSilent(r) ==
  /\ task[r].pc = "flush"
  /\ Goto(r, "destroy")
  /\ \/ remote' = [remote EXCEPT ![task[r].stamp] = @ \cup {r}] /\ NoFault
     \/ Inject("flush") /\ UNCHANGED remote
  /\ UNCHANGED <<clock, tick, latch, ring, log, disk, cont, ended>>

\* Commit the leftovers and push them; a push may land and be reported failed.
Flush(r) ==
  LET pushed == [remote EXCEPT ![task[r].stamp] = @ \cup {r}]
  IN  /\ task[r].pc = "flush"
      /\ \/ remote' = pushed /\ Goto(r, "destroy") /\ NoFault
         \/ /\ Inject("flush")
            /\ remote' \in {remote, pushed}
            /\ task' = [task EXCEPT ![r].pc = "destroy", ![r].missing = TRUE]
      /\ UNCHANGED <<clock, tick, latch, ring, log, disk, cont, ended>>

\* Mutant: the container of that name goes, whoever created it.
DestroyAny(r) ==
  /\ task[r].pc = "destroy"
  /\ Goto(r, "settle")
  /\ cont' = None
  /\ UNCHANGED <<clock, tick, latch, ring, log, disk, remote, ended, faults>>

\* Destroy what this run created; nobody looks at whether it worked.
Destroy(r) ==
  /\ task[r].pc = "destroy"
  /\ Goto(r, "settle")
  /\ \/ ~task[r].acquired /\ UNCHANGED <<cont, faults>>
     \/ task[r].acquired /\ cont' = None /\ NoFault
     \/ task[r].acquired /\ Inject("destroy") /\ UNCHANGED cont
  /\ UNCHANGED <<clock, tick, latch, ring, log, disk, remote, ended>>

Settle(r) ==
  /\ task[r].pc = "settle"
  /\ ring' = Updated(task[r].stamp, task[r].state, task[r].missing)
  /\ Goto(r, "release")
  /\ UNCHANGED <<clock, tick, latch, log, disk, cont, remote, ended, faults>>

ReleaseLatch(r) ==
  /\ task[r].pc = "release"
  /\ latch' = FALSE
  /\ ended' = [ended EXCEPT ![r] = task[r].state]
  /\ Goto(r, "log")
  /\ UNCHANGED <<clock, tick, ring, log, disk, cont, remote, faults>>

\* The event, then persist: of a run that ended as of one that was skipped.
LogEvent(r) ==
  /\ task[r].pc \in {"log", "logskip"}
  /\ log' = log \cup {[of |-> r, state |-> ended[r]]}
  /\ task' = [task EXCEPT ![r] = Finished(@)]
  /\ UNCHANGED <<clock, tick, latch, ring, cont, remote, ended>>
  /\ Persisted

\* Every other part of the control plane persists the whole of memory as well.
OthersPersist ==
  /\ disk' = [ring |-> ring, log |-> log]
  /\ UNCHANGED <<clock, tick, latch, ring, log, task, cont, remote, ended, faults>>

-----------------------------------------------------------------------------
(* A crash of the control plane. The container and the branches outlive it. *)

Crash ==
  /\ Inject("crash")
  /\ tick' = None
  /\ latch' = FALSE
  /\ ring' = Hydrated(disk.ring)
  /\ log' = disk.log
  /\ task' = [r \in Runs |-> IF task[r].pc = "idle" THEN Fresh
                             ELSE Finished(task[r])]
  /\ ended' = [r \in Runs |-> IF task[r].pc \in Launching THEN "aborted" ELSE ended[r]]
  /\ UNCHANGED <<clock, disk, cont, remote>>

-----------------------------------------------------------------------------
(* Specification *)

\* What a launched run does by itself.
Running(r) ==
  \/ PushSkip(r) \/ PushRunning(r) \/ Launch(r)
  \/ Prepare(r) \/ Create(r) \/ Boot(r) \/ Exec(r) \/ Flush(r)
  \/ Destroy(r) \/ Settle(r) \/ ReleaseLatch(r) \/ LogEvent(r)

\* A job may rest once nothing is in flight.
Rest == (\A r \in Runs : task[r].pc \in {"idle", "checked", "done"}) /\ UNCHANGED vars

Next ==
  \/ TickBegin \/ TickEnds
  \/ \E r \in Runs : TickFires(r) \/ ManualCheck(r) \/ ManualTrigger(r) \/ Running(r)
  \/ OthersPersist
  \/ Crash
  \/ Rest

Spec == Init /\ [][Next]_vars

-----------------------------------------------------------------------------
(* Properties *)

InFlight == {r \in Runs : task[r].pc \in Launching}

\* Type correctness of clock, records, tasks and branches.
TypeOK ==
  /\ clock \in Stamps
  /\ tick \in Stamps \cup {None}
  /\ latch \in BOOLEAN
  /\ ring \in Seq(Record) /\ Len(ring) <= RingSize
  /\ log \subseteq [of: Runs, state: States]
  /\ disk.ring \in Seq(Record) /\ Len(disk.ring) <= RingSize
  /\ disk.log \subseteq [of: Runs, state: States]
  /\ task \in [Runs -> Task]
  /\ cont \in Runs \cup {None}
  /\ remote \in [Stamps -> (SUBSET Runs) \cup {None}]
  /\ ended \in [Runs -> States \cup {"none"}]
  /\ faults \in 0..MaxFaults

\* A record is about the run that wrote it: "running" while that run is in
\* flight, the verdict that run came to, a skip only of a trigger that was
\* refused. A lost update, a record of another run updated in its place, or a
\* restart that leaves one running would break it.
RecordsTellTheTruth ==
  \A i \in DOMAIN ring :
    LET rec == ring[i]
    IN  /\ rec.state = "running" => task[rec.of].pc \in Launching
        /\ rec.state = "skipped_locked" => ended[rec.of] = "skipped_locked"
        /\ rec.state \in Verdicts => /\ rec.state = task[rec.of].state
                                     /\ rec.missing = task[rec.of].missing

\* Event log and records are two stores of one story: after any crash, with any
\* snapshot, a run that is still listed is listed as the log says it ended.
LogAgreesWithRecords ==
  \A e \in log, i \in DOMAIN ring : ring[i].of = e.of => ring[i].state = e.state

\* A run that ended without a complaint left its output on the branch that its
\* record names (the testimony).
TestimonyOrComplaint ==
  \A i \in DOMAIN ring :
    ring[i].state \in {"succeeded", "failed"} /\ ~ring[i].missing =>
      remote[ring[i].branch] \notin {None, {}}

\* The run in flight can be seen in its job's list, unless as many triggers as
\* the list is long were refused since.
InFlightListed ==
  \A r \in Runs : task[r].pc \in Launching \ {"push"} =>
    \/ \E i \in DOMAIN ring : ring[i].of = r
    \/ Len(ring) = RingSize /\ \A i \in DOMAIN ring : ring[i].state = "skipped_locked"

\* Docker's name is its creator's: a run removes no container but its own, not
\* even one that a run before a crash left in its way.
IncumbentUntouched ==
  [][cont # None /\ cont' = None => task[cont].pc = "destroy"]_vars

\* A latch has somebody behind it who will give it back: no error, skip, crash or
\* hydration leaves a job locked for ever.
LatchIsHeld == latch => InFlight # {}

Current    == IF InFlight = {} THEN None ELSE CHOOSE r \in InFlight : TRUE
Published  == {r \in Runs : \E b \in Stamps : remote[b] # None /\ r \in remote[b]}
Complained == {r \in Runs : task[r].missing /\ ended[r] \in Verdicts}

\* The engine keeps the contract of a job: runs never overlap, each trigger ends
\* in one way only, and output is on its branch or missed aloud.
Contract == INSTANCE JobContract WITH
  current <- Current, published <- Published, complained <- Complained
ImplementsContract == Contract!Spec

=============================================================================
