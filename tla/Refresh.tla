------------------------------ MODULE Refresh ------------------------------
(***************************************************************************)
(* Observation of the projects' manifests: callers with a time budget, a   *)
(* small pool of workers, the project lock and the permit that the worker  *)
(* keeps for as long as its reader is not known to have ended, also when   *)
(* its caller, a request's handler, is dropped while it waits.             *)
(*                                                                         *)
(* Code: sigiledd/src/ecosystem.rs. What one read does to its processes is *)
(* ProcessGroup's subject; here a read ends sometime, or never.            *)
(***************************************************************************)
EXTENDS Naturals, FiniteSets

CONSTANTS
  Watched,    \* projects whose manifests are read
  Refreshes,  \* calls of refresh, by a request or by the repair loop
  Workers,    \* permits (2 in the code)
  NoRefresh   \* the project lock is free

ASSUME RefreshAssumption ==
  /\ Watched # {}
  /\ NoRefresh \notin Refreshes
  /\ Workers \in Nat \ {0}

VARIABLES
  descriptor, \* Registry.descriptors
  descDisk,   \* the descriptors of the last snapshot
  guard,      \* who owns each project lock
  call        \* the calls and their workers

refreshVars == <<descriptor, descDisk, guard, call>>

-----------------------------------------------------------------------------
Errors == {"none", "busy", "failed", "persist", "unconfirmed"}

\* Descriptor: the failure since the last good observation, and whether retry_at puts
\* the next attempt off.
Descriptor == [error: Errors, later: BOOLEAN]

CallPcs == {"idle", "guard", "permit", "waiting", "busy", "answered", "dropped"}
Worker  == {"none", "reading", "done"}
Call    == [pc: CallPcs, project: Watched, worker: Worker, late: BOOLEAN, repair: BOOLEAN]
NoCall  == [pc |-> "idle", project |-> CHOOSE p \in Watched : TRUE, worker |-> "none",
            late |-> FALSE, repair |-> FALSE]

Reading == {c \in Refreshes : call[c].worker = "reading"}

\* Nobody waits for the worker of this call any more.
Left(c) == call[c].pc \in {"answered", "dropped"}

\* Registry::failed: a busy retry does not conceal a quarantined owner.
Failed(p, error) ==
  IF error = "busy" /\ descriptor[p].error = "unconfirmed"
    THEN descriptor
    ELSE [descriptor EXCEPT ![p].error = error, ![p].later = TRUE]

\* Registry::observe
Observed(p) == [descriptor EXCEPT ![p] = [error |-> "none", later |-> TRUE]]

\* The caller leaves; of the call remains its worker, if that still reads.
Leaves(c, pc) ==
  call' = [call EXCEPT ![c] = IF call[c].worker = "reading"
                                THEN [call[c] EXCEPT !.pc = pc]
                                ELSE [NoCall EXCEPT !.pc = pc]]

Answers(c) == Leaves(c, "answered")

RefreshInit ==
  /\ descriptor = [p \in Watched |-> [error |-> "none", later |-> FALSE]]
  /\ descDisk = descriptor
  /\ guard = [p \in Watched |-> NoRefresh]
  /\ call = [c \in Refreshes |-> NoCall]

-----------------------------------------------------------------------------
\* refresh: waits for the project lock.
RefreshBegin(c, p) ==
  /\ call[c].pc = "idle"
  /\ call' = [call EXCEPT ![c].pc = "guard", ![c].project = p]
  /\ UNCHANGED <<descriptor, descDisk, guard>>

\* repair_batch: only a project that is due, and whose lock is free at once.
RepairBegin(c, p) ==
  /\ call[c].pc = "idle"
  /\ ~descriptor[p].later
  /\ guard[p] = NoRefresh
  /\ guard' = [guard EXCEPT ![p] = c]
  /\ call' = [call EXCEPT ![c].pc = "permit", ![c].project = p, ![c].repair = TRUE]
  /\ UNCHANGED <<descriptor, descDisk>>

TakeGuard(c) ==
  /\ call[c].pc = "guard"
  /\ guard[call[c].project] = NoRefresh
  /\ guard' = [guard EXCEPT ![call[c].project] = c]
  /\ call' = [call EXCEPT ![c].pc = "permit"]
  /\ UNCHANGED <<descriptor, descDisk>>

\* Mutant: one permit too many.
TakePermitTooMany(c) ==
  /\ call[c].pc = "permit"
  /\ Cardinality(Reading) <= Workers
  /\ call' = [call EXCEPT ![c].pc = "waiting", ![c].worker = "reading"]
  /\ UNCHANGED <<descriptor, descDisk, guard>>

\* The worker takes guard and permit along.
TakePermit(c) ==
  /\ call[c].pc = "permit"
  /\ Cardinality(Reading) < Workers
  /\ call' = [call EXCEPT ![c].pc = "waiting", ![c].worker = "reading"]
  /\ UNCHANGED <<descriptor, descDisk, guard>>

\* Mutant: the budget does not cover the wait for a permit.
TooBusyForGuard(c) ==
  /\ call[c].pc = "guard"
  /\ descriptor' = Failed(call[c].project, "busy")
  /\ call' = [call EXCEPT ![c].pc = "busy"]
  /\ UNCHANGED <<descDisk, guard>>

\* No lock, or no permit, within the budget: failed_attempt, first in memory.
TooBusy(c) ==
  /\ call[c].pc \in {"guard", "permit"}
  /\ descriptor' = Failed(call[c].project, "busy")
  /\ call' = [call EXCEPT ![c].pc = "busy"]
  /\ UNCHANGED <<descDisk, guard>>

ReleasedBy(c) == [p \in Watched |-> IF guard[p] = c THEN NoRefresh ELSE guard[p]]

\* ... then on disk, unless a quarantine is what there is to tell. refresh_using
\* drops the guard it was given when it returns.
BusySettles(c) ==
  LET p == call[c].project
  IN  /\ call[c].pc = "busy"
      /\ \/ /\ descriptor[p].error = "unconfirmed"
            /\ Answers(c)
            /\ UNCHANGED <<descriptor, descDisk>>
         \/ /\ descriptor[p].error # "unconfirmed"
            /\ descDisk' = descriptor
            /\ Answers(c)
            /\ UNCHANGED descriptor
         \/ /\ descriptor' = Failed(p, "persist")
            /\ Answers(c)
            /\ UNCHANGED descDisk
      /\ guard' = ReleasedBy(c)

\* The absolute deadline of the reader passes.
Deadline(c) ==
  /\ call[c].worker = "reading"
  /\ ~call[c].late
  /\ call' = [call EXCEPT ![c].late = TRUE]
  /\ UNCHANGED <<descriptor, descDisk, guard>>

\* The worker's end: what it read in time, or why it could not, is published under
\* the completion lock and persisted; guard and permit go with the task.
WorkerDone(c) ==
  LET p == call[c].project
  IN  /\ call[c].worker = "reading"
      /\ \E result \in {Failed(p, "failed")} \cup (IF call[c].late THEN {} ELSE {Observed(p)}) :
           \/ descriptor' = result /\ descDisk' = result
           \/ descriptor' = [result EXCEPT ![p].error = "persist"] /\ UNCHANGED descDisk
      /\ call' = [call EXCEPT ![c] = IF Left(c) THEN [NoCall EXCEPT !.pc = call[c].pc]
                                                ELSE [call[c] EXCEPT !.worker = "done"]]
      /\ guard' = ReleasedBy(c)

\* The caller's own limit, beyond the deadline and the time to clean up: if the
\* worker has not completed, its termination is unconfirmed; the caller leaves, the
\* worker keeps what it owns. The snapshot may be refused.
GivesUp(c) ==
  /\ call[c].pc = "waiting"
  /\ call[c].late
  /\ call[c].worker = "reading"
  /\ descriptor' = Failed(call[c].project, "unconfirmed")
  /\ descDisk' \in {descDisk, descriptor'}
  /\ Answers(c)
  /\ UNCHANGED <<guard>>

\* Mutant: the lock goes with the dropped caller, as the guard of a future would.
DroppedWithLock(c) ==
  /\ call[c].pc \in {"guard", "permit", "waiting"}
  /\ ~call[c].repair
  /\ Leaves(c, "dropped")
  /\ guard' = ReleasedBy(c)
  /\ UNCHANGED <<descriptor, descDisk>>

\* The request of a handler is cancelled while it awaits the lock, the permit or its
\* worker: nothing is published, the guard goes unless the worker has it. The worker
\* reads on, and no one is left to find its termination unconfirmed. The repair loop
\* awaits its calls in a task that nobody drops.
CallerDropped(c) ==
  /\ call[c].pc \in {"guard", "permit", "waiting"}
  /\ ~call[c].repair
  /\ Leaves(c, "dropped")
  /\ guard' = IF call[c].worker = "reading" THEN guard ELSE ReleasedBy(c)
  /\ UNCHANGED <<descriptor, descDisk>>

CallReturns(c) ==
  /\ call[c].pc = "waiting"
  /\ call[c].worker = "done"
  /\ Answers(c)
  /\ UNCHANGED <<descriptor, descDisk, guard>>

\* Time passes until the project is due again.
FallsDue(p) ==
  /\ descriptor[p].later
  /\ descriptor' = [descriptor EXCEPT ![p].later = FALSE]
  /\ UNCHANGED <<descDisk, guard, call>>

RefreshRestart ==
  /\ descriptor' = descDisk
  /\ guard' = [p \in Watched |-> NoRefresh]
  /\ call' = [c \in Refreshes |-> IF call[c].pc = "idle" \/ Left(c)
                                  THEN [NoCall EXCEPT !.pc = call[c].pc]
                                  ELSE [NoCall EXCEPT !.pc = "dropped"]]
  /\ UNCHANGED <<descDisk>>

CallRuns(c) ==
  \/ TakeGuard(c) \/ TakePermit(c) \/ TooBusy(c) \/ BusySettles(c)
  \/ Deadline(c) \/ WorkerDone(c) \/ GivesUp(c) \/ CallReturns(c) \/ CallerDropped(c)

RefreshNext ==
  \/ \E c \in Refreshes : \/ CallRuns(c)
                          \/ \E p \in Watched : RefreshBegin(c, p) \/ RepairBegin(c, p)
  \/ \E p \in Watched : FallsDue(p)
  \/ RefreshRestart

\* A caller's timers fire and its handler runs on; nothing is assumed of a worker:
\* its reader may never be known to have ended.
RefreshFair(c) ==
  /\ WF_refreshVars(TooBusy(c))
  /\ WF_refreshVars(BusySettles(c))
  /\ WF_refreshVars(Deadline(c))
  /\ WF_refreshVars(GivesUp(c))
  /\ WF_refreshVars(CallReturns(c))

RefreshSpec == RefreshInit /\ [][RefreshNext]_refreshVars /\ \A c \in Refreshes : RefreshFair(c)

-----------------------------------------------------------------------------
(* Properties *)

RefreshTypeOK ==
  /\ descriptor \in [Watched -> Descriptor]
  /\ descDisk \in [Watched -> Descriptor]
  /\ guard \in [Watched -> Refreshes \cup {NoRefresh}]
  /\ call \in [Refreshes -> Call]
  /\ Cardinality(Reading) <= Workers

\* A reader that may still run Git in a mirror owns the project lock, also when its
\* caller was answered long ago or dropped: nobody else touches the repository under it.
ReaderOwnsMirror ==
  \A c \in Reading : guard[call[c].project] = c

\* While a worker whose caller gave it up is still at large, its project shows a
\* failure: no later call and no refused snapshot makes it look observed.
QuarantineShown ==
  \A c \in Reading :
    call[c].pc = "answered" => descriptor[call[c].project].error # "none"

\* A reader whose end is not confirmed is quarantined, its mirror with it.
ReaderQuarantined == ReaderOwnsMirror /\ QuarantineShown

\* Of a worker whose caller was dropped nobody tells, until somebody asks again, finds
\* the project busy and leaves a failure. Whatever failure is shown while a reader is
\* at large, however its caller left: only that reader's end or a restart takes it
\* back, not what other calls find, publish or fail to save meanwhile.
FailureStays ==
  [][\A c \in Reading :
       LET p == call[c].project
       IN  call'[c].worker = "reading" /\ descriptor[p].error # "none" =>
             descriptor'[p].error # "none"]_refreshVars

\* Whoever asks and is not dropped is answered within its limits, however long a reader
\* keeps its lock and all the permits.
CallersAnswered ==
  \A c \in Refreshes : call[c].pc # "idle" ~> Left(c)

=============================================================================
