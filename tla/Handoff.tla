------------------------------ MODULE Handoff ------------------------------
(***************************************************************************)
(* The handoff of a research bundle into a workspace: the control plane's  *)
(* marker in the session record, the helper in the workspace with its own  *)
(* journal and observation, the session branch and its remote, and a user  *)
(* who commits there at the same time. Either side may crash at any step,  *)
(* calls and answers may be lost, saves and pushes refused.                *)
(*                                                                         *)
(* Code: sigiledd/src/browser/research/handoff.rs, ide-agent/src/handoff.rs*)
(* and the handler of ide-agent/src/main.rs. A request that reaches the    *)
(* helper does so before its caller gives it up.                           *)
(***************************************************************************)
EXTENDS Naturals, Sequences

CONSTANTS
  Bundles,      \* operations, each with its bundle
  Applies,      \* requests of the browser; each is made once
  LastEpoch,    \* bound on the generations of the session
  MaxLength,    \* bound on the commits of the branch
  Nobody0       \* no bundle, no request

ASSUME HandoffAssumption ==
  /\ Nobody0 \notin Bundles \cup Applies
  /\ LastEpoch \in Nat \ {0} /\ MaxLength \in Nat

VARIABLES
  epoch0,    \* the record's generation
  marker,    \* SessionRecord.handoff
  markerDisk,\* the marker of the last snapshot
  apply,     \* the requests
  locked,    \* who owns the session lock
  helper,    \* the helper's task and its observation; it forgets both in a crash
  journal,   \* the helper's journal files
  branch,    \* the session branch in the workspace, HEAD
  index0,    \* the branch whose tree .git/index holds
  indexLock, \* does .git/index.lock exist?
  remote     \* external: the session branch at the remote

serverVars == <<epoch0, marker, markerDisk, apply, locked>>
helperVars == <<helper, journal, branch, index0, indexLock, remote>>
handoffVars == <<serverVars, helperVars>>

-----------------------------------------------------------------------------
\* A branch is its commits: the handoff of a bundle, or somebody's work.
User   == "user"
Branch == Seq(Bundles \cup {User})

\* Marker: epoch is the generation its request names.
Marker   == [op: Bundles \cup {Nobody0}, phase: {"none", "pending", "failed", "complete"},
             epoch: 0..LastEpoch]
NoMarker == [op |-> Nobody0, phase |-> "none", epoch |-> 0]

ApplyPcs == {"idle", "status", "mark", "post", "wait", "recheck", "complete", "over"}

\* Helper: what it does, for which bundle, and what handoff-status tells.
HelperPcs == {"idle", "begin", "write", "lock", "publish", "index", "push", "end"}
Helper    == [pc: HelperPcs, op: Bundles \cup {Nobody0}, caller: Applies \cup {Nobody0},
              seen: Branch, phase: {"unknown", "busy", "failed", "complete"}]
Rested(h, phase) == [h EXCEPT !.pc = "idle", !.phase = phase]
NewHelper == [pc |-> "idle", op |-> Nobody0, caller |-> Nobody0, seen |-> <<>>,
              phase |-> "unknown"]

\* Journal: the base the bundle goes on top of.
Journal   == [there: BOOLEAN, base: Branch, commit: BOOLEAN, pushed: BOOLEAN]
NoJournal == [there |-> FALSE, base |-> <<>>, commit |-> FALSE, pushed |-> FALSE]

Pending == marker.phase = "pending"
Runs    == helper.pc # "idle"

\* handoff-status/{o}
Told(o) == IF helper.op = o THEN helper.phase ELSE "unknown"

Prefix(s, t) == Len(s) <= Len(t) /\ SubSeq(t, 1, Len(s)) = s

Acts(q, pc) == apply' = [apply EXCEPT ![q].pc = pc] /\ UNCHANGED locked
Returns(q)  == apply' = [apply EXCEPT ![q].pc = "over"] /\ locked' = Nobody0

\* persist: in memory, then the snapshot; refused, the request ends.
Marks(q, m, pc) ==
  /\ marker' = m
  /\ \/ markerDisk' = m /\ Acts(q, pc)
     \/ UNCHANGED markerDisk /\ Returns(q)

HandoffInit ==
  /\ epoch0 = 1
  /\ marker = NoMarker /\ markerDisk = NoMarker
  /\ apply = [q \in Applies |-> [pc |-> "idle", op |-> Nobody0]]
  /\ locked = Nobody0
  /\ helper = NewHelper
  /\ journal = [o \in Bundles |-> NoJournal]
  /\ branch = <<>> /\ index0 = <<>> /\ remote = <<>>
  /\ indexLock = FALSE

-----------------------------------------------------------------------------
(* The control plane: owned *)

\* Under the session lock; another operation still pending is in the way.
ApplyBegins(q, o) ==
  /\ apply[q].pc = "idle"
  /\ locked = Nobody0
  /\ ~(Pending /\ marker.op # o)
  /\ apply' = [apply EXCEPT ![q] = [pc |-> "status", op |-> o]]
  /\ locked' = q
  /\ UNCHANGED <<epoch0, marker, markerDisk, helperVars>>

\* Mutant: a helper that does not know of the operation has not run it.
ApplyObservesUnknown(q) ==
  LET o == apply[q].op
  IN  /\ apply[q].pc = "status"
      /\ \/ ~Pending /\ Acts(q, "mark") /\ UNCHANGED <<marker, markerDisk>>
         \/ Pending /\ Told(o) = "complete" /\ Acts(q, "complete")
                    /\ UNCHANGED <<marker, markerDisk>>
         \/ Pending /\ Told(o) \in {"failed", "unknown", "busy"}
                    /\ Marks(q, [marker EXCEPT !.phase = "failed"], "mark")
      /\ UNCHANGED <<epoch0, helperVars>>

\* What the helper says of a pending operation: finished, failed, or, in any other
\* case, it stays in quarantine.
ApplyObserves(q) ==
  LET o == apply[q].op
  IN  /\ apply[q].pc = "status"
      /\ \/ ~Pending /\ Acts(q, "mark") /\ UNCHANGED <<marker, markerDisk>>
         \/ Pending /\ Told(o) = "complete" /\ Acts(q, "complete")
                    /\ UNCHANGED <<marker, markerDisk>>
         \/ Pending /\ Told(o) = "failed"
                    /\ Marks(q, [marker EXCEPT !.phase = "failed"], "mark")
         \/ Pending /\ Told(o) \in {"unknown", "busy"} /\ Returns(q)
                    /\ UNCHANGED <<marker, markerDisk>>
      /\ UNCHANGED <<epoch0, helperVars>>

\* The marker is durable before the helper is asked. The request of an earlier marker
\* of this operation is used again as it was, its generation included.
ApplyMarks(q) ==
  LET o == apply[q].op
  IN  /\ apply[q].pc = "mark"
      /\ Marks(q, [op |-> o, phase |-> "pending",
                   epoch |-> IF marker.op = o THEN marker.epoch ELSE epoch0], "post")
      /\ UNCHANGED <<epoch0, helperVars>>

\* POST handoff. The helper refuses another generation's request, and any while it is
\* busy; a request may also never arrive.
ApplyPosts(q) ==
  /\ apply[q].pc = "post"
  /\ \/ /\ ~Runs /\ helper.phase # "busy"
        /\ marker.epoch = epoch0
        /\ helper' = [NewHelper EXCEPT !.pc = "begin", !.op = apply[q].op, !.caller = q,
                                       !.phase = "busy"]
        /\ Acts(q, "wait")
     \/ /\ Runs \/ helper.phase = "busy" \/ marker.epoch # epoch0
        /\ Acts(q, "recheck")
        /\ UNCHANGED helper
     \/ Returns(q) /\ UNCHANGED helper
  /\ UNCHANGED <<epoch0, marker, markerDisk, journal, branch, index0, indexLock, remote>>

\* The answer of the task that ended; or none, and the caller leaves.
ApplyAnswered(q) ==
  /\ apply[q].pc = "wait"
  /\ \/ /\ ~Runs /\ helper.caller = q
        /\ Acts(q, IF helper.phase = "complete" THEN "complete" ELSE "recheck")
     \/ Returns(q)
  /\ UNCHANGED <<epoch0, marker, markerDisk, helperVars>>

\* An error is not a release: only what handoff-status confirms.
ApplyRechecks(q) ==
  /\ apply[q].pc = "recheck"
  /\ \/ /\ Told(apply[q].op) = "failed"
        /\ marker' = [marker EXCEPT !.phase = "failed"]
        /\ markerDisk' \in {marker', markerDisk}
     \/ /\ Told(apply[q].op) # "failed"
        /\ UNCHANGED <<marker, markerDisk>>
  /\ Returns(q)
  /\ UNCHANGED <<epoch0, helperVars>>

\* complete: the receipt is stored with the research operation first.
ApplyCompletes(q) ==
  /\ apply[q].pc = "complete"
  /\ marker' = [marker EXCEPT !.phase = "complete"]
  /\ markerDisk' \in {marker', markerDisk}
  /\ Returns(q)
  /\ UNCHANGED <<epoch0, helperVars>>

\* It ends before that: changed bundle, unreadable log, refused receipt, debt.
ApplyFails(q) ==
  /\ apply[q].pc \in {"status", "mark", "complete"}
  /\ Returns(q)
  /\ UNCHANGED <<epoch0, marker, markerDisk, helperVars>>

\* recycle, with a pending marker out of the question: a new workspace from the
\* remote branch, after what was left was pushed or given up.
HandoffRecycle ==
  /\ locked = Nobody0
  /\ ~Pending
  /\ epoch0 < LastEpoch
  /\ epoch0' = epoch0 + 1
  /\ remote' \in {remote} \cup (IF Prefix(remote, branch) THEN {branch} ELSE {})
  /\ branch' = remote' /\ index0' = remote'
  /\ helper' = NewHelper
  /\ journal' = [o \in Bundles |-> NoJournal]
  /\ indexLock' = FALSE
  /\ UNCHANGED <<marker, markerDisk, apply, locked>>

MarkerByOthers ==
  /\ markerDisk' = marker
  /\ UNCHANGED <<epoch0, marker, apply, locked, helperVars>>

ServerRestart ==
  /\ marker' = markerDisk
  /\ apply' = [q \in Applies |-> IF apply[q].pc = "idle" THEN apply[q]
                                 ELSE [apply[q] EXCEPT !.pc = "over"]]
  /\ locked' = Nobody0
  /\ UNCHANGED <<epoch0, markerDisk, helperVars>>

-----------------------------------------------------------------------------
(* The helper: a detached task around apply *)

Task(pc) == helper.pc = pc /\ UNCHANGED serverVars

Commit(o) == Append(journal[o].base, o)

\* The editor is stopped and the checkout validated. Without a journal the worktree
\* must be clean, and the base is recorded; with one, HEAD and index must be where a
\* crash can have left them. The index is captured.
TaskBegins ==
  LET o == helper.op
  IN  /\ Task("begin")
      /\ \/ ~journal[o].there
            /\ index0 = branch
            /\ o \notin {branch[i] : i \in 1..Len(branch)}
            /\ journal' = [journal EXCEPT ![o] = [NoJournal EXCEPT !.there = TRUE,
                                                                   !.base = branch]]
         \/ /\ journal[o].there
            /\ UNCHANGED journal
            /\ branch = journal[o].base \/ (journal[o].commit /\ branch = Commit(o))
            /\ index0 = journal[o].base \/ (journal[o].commit /\ index0 = Commit(o))
      /\ helper' = [helper EXCEPT !.pc = IF journal[o].commit THEN "lock" ELSE "write",
                                  !.seen = index0]
      /\ UNCHANGED <<branch, index0, indexLock, remote>>

\* The files, then the commit through a private index; HEAD and index must not have
\* moved. The commit is journaled before any ref points to it.
TaskWrites ==
  LET o == helper.op
  IN  /\ Task("write")
      /\ branch = journal[o].base
      /\ index0 = helper.seen
      /\ journal' = [journal EXCEPT ![o].commit = TRUE]
      /\ helper' = [helper EXCEPT !.pc = "lock"]
      /\ UNCHANGED <<branch, index0, indexLock, remote>>

TaskLocks ==
  /\ Task("lock")
  /\ ~indexLock
  /\ index0 = helper.seen
  /\ indexLock' = TRUE
  /\ helper' = [helper EXCEPT !.pc = "publish"]
  /\ UNCHANGED <<journal, branch, index0, remote>>

\* update-ref, compare-and-swap; already done if a crash came after it.
TaskPublishes ==
  LET o == helper.op
  IN  /\ Task("publish")
      /\ branch \in {journal[o].base, Commit(o)}
      /\ branch' = Commit(o)
      /\ helper' = [helper EXCEPT !.pc = "index"]
      /\ UNCHANGED <<journal, index0, indexLock, remote>>

TaskIndexes ==
  /\ Task("index")
  /\ index0' = Commit(helper.op)
  /\ indexLock' = FALSE
  /\ helper' = [helper EXCEPT !.pc = "push"]
  /\ UNCHANGED <<journal, branch, remote>>

\* The immutable commit is pushed, unless the journal says it was.
TaskPushes ==
  LET o == helper.op
  IN  /\ Task("push")
      /\ \/ journal[o].pushed /\ UNCHANGED <<journal, remote>>
         \/ /\ ~journal[o].pushed
            /\ \/ Prefix(remote, Commit(o)) /\ remote' = Commit(o)
               \/ Prefix(Commit(o), remote) /\ UNCHANGED remote
            /\ journal' = [journal EXCEPT ![o].pushed = TRUE]
      /\ helper' = [helper EXCEPT !.pc = "end"]
      /\ UNCHANGED <<branch, index0, indexLock>>

TaskEnds ==
  /\ Task("end")
  /\ helper' = Rested(helper, "complete")
  /\ UNCHANGED <<journal, branch, index0, indexLock, remote>>

\* A check fails, Git fails, a push is refused or its answer is lost.
TaskFails ==
  LET o == helper.op
  IN  /\ helper.pc \notin {"idle", "end"}
      /\ helper' = Rested(helper, "failed")
      /\ indexLock' = (indexLock /\ helper.pc \notin {"publish", "index"})
      /\ \/ UNCHANGED remote
         \/ helper.pc = "push" /\ Prefix(remote, Commit(o)) /\ remote' = Commit(o)
      /\ UNCHANGED <<serverVars, journal, branch, index0>>

\* The companion restarts: files stay, an index lock included.
HelperCrash ==
  /\ helper # NewHelper
  /\ helper' = NewHelper
  /\ UNCHANGED <<serverVars, journal, branch, index0, indexLock, remote>>

\* The driver commits in the same checkout, and its commit is pushed.
UserCommits ==
  /\ ~indexLock
  /\ Len(branch) < MaxLength
  /\ branch' = Append(branch, User)
  /\ index0' = branch'
  /\ remote' \in {remote} \cup (IF Prefix(remote, branch') THEN {branch'} ELSE {})
  /\ UNCHANGED <<serverVars, helper, journal, indexLock>>

ApplyRuns(q) ==
  \/ ApplyObserves(q) \/ ApplyMarks(q) \/ ApplyPosts(q) \/ ApplyAnswered(q)
  \/ ApplyRechecks(q) \/ ApplyCompletes(q) \/ ApplyFails(q)

TaskRuns ==
  \/ TaskBegins \/ TaskWrites \/ TaskLocks \/ TaskPublishes \/ TaskIndexes
  \/ TaskPushes \/ TaskEnds \/ TaskFails

HandoffNext ==
  \/ \E q \in Applies : ApplyRuns(q) \/ \E o \in Bundles : ApplyBegins(q, o)
  \/ TaskRuns
  \/ HandoffRecycle \/ MarkerByOthers \/ ServerRestart \/ HelperCrash \/ UserCommits

HandoffSpec == HandoffInit /\ [][HandoffNext]_handoffVars

-----------------------------------------------------------------------------
(* Properties *)

HandoffTypeOK ==
  /\ epoch0 \in 1..LastEpoch
  /\ marker \in Marker /\ markerDisk \in Marker
  /\ apply \in [Applies -> [pc: ApplyPcs, op: Bundles \cup {Nobody0}]]
  /\ locked \in Applies \cup {Nobody0}
  /\ helper \in Helper
  /\ journal \in [Bundles -> Journal]
  /\ branch \in Branch /\ index0 \in Branch /\ remote \in Branch
  /\ indexLock \in BOOLEAN

\* "Timeout, absence, unknown helper state, a replacement generation, or a controller
\* restart cannot clear it": while a task may still write into the workspace, the
\* marker that blocks close, recycle, reap and the editor is pending, on disk as well.
HelperQuarantined ==
  Runs => /\ marker.phase = "pending" /\ marker.op = helper.op
          /\ markerDisk = marker

\* However often an operation is retried, across crashes of either side, a bundle is
\* committed once at most, and never on top of work it was not checked against.
AppliedOnce ==
  \A b \in {branch, remote} : \A i \in 1..Len(b) : b[i] # User =>
    /\ \A k \in 1..Len(b) : b[k] = b[i] => k = i
    /\ journal[b[i]].there => journal[b[i]].base = SubSeq(b, 1, i - 1)

\* A handoff reported complete is on the remote branch.
CompleteIsPushed ==
  \A m \in {marker, markerDisk} : m.phase = "complete" =>
    m.op \in {remote[i] : i \in 1..Len(remote)}

\* The two journals agree on what was done.
HandoffSound == HelperQuarantined /\ AppliedOnce /\ CompleteIsPushed

=============================================================================
