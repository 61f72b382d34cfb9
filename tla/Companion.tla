----------------------------- MODULE Companion -----------------------------
(***************************************************************************)
(* The control plane's hold on the editor in a workspace: start, stop,     *)
(* checkpoint and finish through the companion in the container, and what  *)
(* close, recycle and reap ask of it before they remove the workspace.     *)
(* Requests time out while the companion still carries them out, saves are *)
(* refused, companion, editor and control plane die at any step.           *)
(*                                                                         *)
(* Code: sigiledd/src/ide.rs, ide_policy.rs, browser/ide_gateway/          *)
(* controls.rs, and their callers in sessions.rs and reaper.rs (what those *)
(* do besides is SessionLifecycle's). The companion is IdeAgent's, here a  *)
(* request at a time. A request is accepted before its caller gives it up. *)
(***************************************************************************)
EXTENDS Naturals, Sequences, FiniteSets

CONSTANTS
  Calls,           \* requests of drivers and passes of the reaper; each is made once
  Rulesets,        \* rulesets of the repository
  LastGeneration,  \* bound on the generations of the session
  NoCaller         \* no call

ASSUME CompanionAssumption == NoCaller \notin Calls /\ LastGeneration \in Nat \ {0}

VARIABLES
  bound,       \* the session's record and its IDE binding
  boundDisk,   \* the record of the last snapshot
  operation,   \* the calls
  sessionLock, \* who owns the session lock
  machine,     \* external: the workspace, its companion and editor
  inbox,       \* requests the companion has accepted, in order
  proved,      \* history: was the policy enforced when a start last read it?
  removed      \* history: the workspaces removed, as they were

companionVars == <<bound, boundDisk, operation, sessionLock, machine, inbox, proved, removed>>

-----------------------------------------------------------------------------
(* The policy of master: rules in effect, and the rulesets they come from *)

RuleTypes == {"update", "deletion", "other"}
Ruleset   == [active: BOOLEAN, own: BOOLEAN, visible: BOOLEAN, bypass: SUBSET {"host", "other"}]
Policies  == [rules: SUBSET (RuleTypes \X Rulesets), of: [Rulesets -> Ruleset]]

\* prove: only what is known to be enforced counts, and everything must be known.
Prove(p) ==
  /\ \A r \in p.rules : /\ r[1] \in {"update", "deletion"}
                        /\ p.of[r[2]].active /\ p.of[r[2]].own
                        /\ p.of[r[2]].visible /\ p.of[r[2]].bypass = {"host"}
  /\ \E r \in p.rules : r[1] = "update"

\* What is to be proved: master moves by the host's hand alone, and the host may.
Enforced(p) ==
  /\ \E r \in p.rules : r[1] = "update" /\ p.of[r[2]].active /\ "other" \notin p.of[r[2]].bypass
  /\ \A r \in p.rules : p.of[r[2]].active => "host" \in p.of[r[2]].bypass

\* verify_ide_policy
Verdicts == {Enforced(p) : p \in {q \in Policies : Prove(q)}}

-----------------------------------------------------------------------------
Bound == [generation: 1..LastGeneration, owned: BOOLEAN, layer: BOOLEAN, started: BOOLEAN,
          lifecycle: {"active", "closing", "recycling", "failed", "gone"},
          state: {"stopped", "starting", "ready", "failed"}]

Kinds  == {"start", "stop", "checkpoint", "finish", "close", "recycle", "reap"}
OpPcs  == {"idle", "verify", "save", "launch", "ask", "wait", "ok", "err", "again", "leave",
           "flush", "remove", "rebind", "over"}
Operation == [pc: OpPcs, kind: Kinds, generation: 1..LastGeneration, there: BOOLEAN]

\* owned: the companion's process; marker: .editor-running; command: a user's command
\* runs; observed: the terminals are; unsaved: work that is not on the session branch.
Machine == [companion: BOOLEAN, owned: BOOLEAN, editor: BOOLEAN, marker: BOOLEAN,
            command: BOOLEAN, observed: BOOLEAN, unsaved: BOOLEAN]
Empty   == [companion |-> FALSE, owned |-> FALSE, editor |-> FALSE, marker |-> FALSE,
            command |-> FALSE, observed |-> FALSE, unsaved |-> FALSE]

Paths   == {"start", "stop", "checkpoint", "finish"}
Request == [caller: Calls \cup {NoCaller}, path: Paths]

\* ide_layer: an image for this generation, with a companion that has not been started.
Layered(b, there) == [b EXCEPT !.layer = there, !.started = FALSE, !.state = "stopped"]

CompanionInit ==
  /\ bound = [generation |-> 1, owned |-> TRUE, layer |-> TRUE, started |-> FALSE,
              lifecycle |-> "active", state |-> "stopped"]
  /\ boundDisk = bound
  /\ operation = [c \in Calls |-> [pc |-> "idle", kind |-> "start", generation |-> 1,
                                   there |-> FALSE]]
  /\ sessionLock = NoCaller
  /\ machine = Empty
  /\ inbox = <<>>
  /\ proved = FALSE
  /\ removed = {}

OpAt(c, pc)   == operation[c].pc = pc
OpGoes(c, pc) == operation' = [operation EXCEPT ![c].pc = pc] /\ UNCHANGED sessionLock
OpEnds(c)     == operation' = [operation EXCEPT ![c].pc = "over"] /\ sessionLock' = NoCaller

MachineStays == UNCHANGED <<machine, inbox, removed>>

\* put and try_persist: refused, the snapshot may be replaced all the same.
Kept(b)    == bound' = b /\ boundDisk' = b
Refused(b) == bound' = b /\ boundDisk' \in {boundDisk, b}

\* failure: lifecycle failed, saved if that is possible.
Failure(c) == Refused([bound EXCEPT !.lifecycle = "failed"]) /\ OpEnds(c)

\* The companion's status, within a second: there is one, nothing else keeps it.
Status   == machine.companion /\ inbox = <<>>
Observing == machine.owned => machine.observed
Quiet    == Observing /\ ~machine.command

-----------------------------------------------------------------------------
(* Calls begin: under the session lock *)

Takes0(c, kind, pc) ==
  /\ OpAt(c, "idle")
  /\ sessionLock = NoCaller
  /\ sessionLock' = c
  /\ operation' = [operation EXCEPT ![c] = [pc |-> pc, kind |-> kind, there |-> FALSE,
                                            generation |-> bound.generation]]
  /\ UNCHANGED <<bound, boundDisk, proved>> /\ MachineStays

\* operation_inner
OperationBegins(c, kind) ==
  /\ kind \in Paths
  /\ bound.lifecycle = "active" /\ bound.owned /\ bound.layer
  /\ Takes0(c, kind, IF kind = "start" THEN "verify" ELSE "ask")

\* close, recycle
LeaveBegins(c, kind) ==
  /\ kind = "close" \/ (kind = "recycle" /\ bound.generation < LastGeneration)
  /\ bound.lifecycle # "gone" /\ bound.owned
  /\ Takes0(c, kind, "leave")

\* A runtime that is not the record's own is left alone.
LeaveRefuses(c, kind) ==
  /\ kind \in {"close", "recycle"} \/ (kind = "reap" /\ bound.lifecycle = "active")
  /\ bound.lifecycle # "gone" /\ ~bound.owned
  /\ OpAt(c, "idle") /\ sessionLock = NoCaller
  /\ Failure(c)
  /\ UNCHANGED proved /\ MachineStays

\* reap: an editor in use must be seen to be idle, by now.
ReapBegins(c) ==
  /\ bound.lifecycle = "active" /\ bound.owned
  /\ bound.started => Status /\ Quiet
  /\ Takes0(c, "reap", "leave")

-----------------------------------------------------------------------------
(* start *)

\* verify_ide_policy, then a dry push to master with the host's credential.
StartVerifies(c) ==
  /\ OpAt(c, "verify")
  /\ \/ /\ proved' \in Verdicts
        /\ \E there \in {Status, FALSE} :
             operation' = [operation EXCEPT ![c].pc = "save", ![c].there = there]
        /\ UNCHANGED sessionLock
     \/ OpEnds(c) /\ UNCHANGED proved
  /\ UNCHANGED <<bound, boundDisk>> /\ MachineStays

\* Mutant: a refused save is no reason to stop.
StartSavesAnyway(c) ==
  LET b == [bound EXCEPT !.started = TRUE, !.state = "starting"]
  IN  /\ OpAt(c, "save")
      /\ Kept(b) \/ Refused(b)
      /\ OpGoes(c, IF operation[c].there THEN "ask" ELSE "launch")
      /\ UNCHANGED proved /\ MachineStays

\* Saved before anything is started in the workspace.
StartSaves(c) ==
  LET b == [bound EXCEPT !.started = TRUE, !.state = "starting"]
  IN  /\ OpAt(c, "save")
      /\ \/ Kept(b) /\ OpGoes(c, IF operation[c].there THEN "ask" ELSE "launch")
         \/ Refused(b) /\ OpEnds(c)
      /\ UNCHANGED proved /\ MachineStays

\* start_companion; beside a companion that is there, another finds its port in use. A
\* call that fails may have started it.
StartLaunches(c) ==
  /\ OpAt(c, "launch")
  /\ machine' \in {[machine EXCEPT !.companion = TRUE], machine}
  /\ \/ OpGoes(c, "ask") /\ UNCHANGED <<bound, boundDisk>>
     \/ Refused([bound EXCEPT !.state = "failed"]) /\ OpEnds(c)
  /\ UNCHANGED <<inbox, proved, removed>>

StartEnds(c) ==
  /\ operation[c].kind = "start"
  /\ OpAt(c, "ok") \/ OpAt(c, "err")
  /\ Refused([bound EXCEPT !.state = IF OpAt(c, "ok") THEN "ready" ELSE "failed"])
  /\ OpEnds(c)
  /\ UNCHANGED proved /\ MachineStays

-----------------------------------------------------------------------------
(* request *)

Path(c) == IF operation[c].kind \in Paths THEN operation[c].kind ELSE "finish"

\* stop and finish look at the status first.
OpAsks(c) ==
  /\ OpAt(c, "ask")
  /\ \/ /\ machine.companion
        /\ Path(c) \in {"stop", "finish"} => Status /\ Quiet
        /\ inbox' = Append(inbox, [caller |-> c, path |-> Path(c)])
        /\ OpGoes(c, "wait")
     \/ OpGoes(c, "err") /\ UNCHANGED inbox
  /\ UNCHANGED <<bound, boundDisk, machine, proved, removed>>

\* Forty seconds, or the answer is lost.
OpGivesUp(c) ==
  /\ OpAt(c, "wait")
  /\ OpGoes(c, "err")
  /\ UNCHANGED <<bound, boundDisk, proved>> /\ MachineStays

StopEnds(c) ==
  /\ operation[c].kind \in {"stop", "checkpoint"}
  /\ \/ /\ OpAt(c, "ok") /\ operation[c].kind = "stop"
        /\ Refused([bound EXCEPT !.state = "stopped"])
     \/ /\ OpAt(c, "err") \/ (OpAt(c, "ok") /\ operation[c].kind = "checkpoint")
        /\ UNCHANGED <<bound, boundDisk>>
  /\ OpEnds(c)
  /\ UNCHANGED proved /\ MachineStays

\* The lock is released, and taken again by close_expected, for this generation.
FinishEnds(c) ==
  /\ operation[c].kind = "finish"
  /\ \/ /\ OpAt(c, "ok")
        /\ operation' = [operation EXCEPT ![c].pc = "again"]
        /\ sessionLock' = NoCaller
     \/ OpAt(c, "err") /\ OpEnds(c)
  /\ UNCHANGED <<bound, boundDisk, proved>> /\ MachineStays

FinishCloses(c) ==
  /\ OpAt(c, "again")
  /\ sessionLock = NoCaller
  /\ \/ /\ bound.lifecycle # "gone" /\ bound.owned
        /\ bound.generation = operation[c].generation
        /\ operation' = [operation EXCEPT ![c].pc = "leave", ![c].kind = "close"]
        /\ sessionLock' = c
     \/ OpEnds(c)
  /\ UNCHANGED <<bound, boundDisk, proved>> /\ MachineStays

-----------------------------------------------------------------------------
(* close, recycle, reap *)

LeaveMarks(c) ==
  LET b == [bound EXCEPT !.lifecycle = IF operation[c].kind = "recycle" THEN "recycling"
                                       ELSE "closing"]
  IN  /\ OpAt(c, "leave")
      /\ \/ Kept(b) /\ OpGoes(c, "flush")
         \/ Failure(c)
      /\ UNCHANGED proved /\ MachineStays

\* flush_record: the companion's strict finish, or, where no editor was ever started,
\* the workspace agent's commit and push.
LeaveFlushes(c) ==
  /\ OpAt(c, "flush")
  /\ \/ bound.started /\ OpGoes(c, "ask")
     \/ ~bound.started /\ (OpGoes(c, "ok") \/ OpGoes(c, "err"))
  /\ UNCHANGED <<bound, boundDisk, proved>> /\ MachineStays

\* What follows the flush may fail; a removal that is not confirmed may have happened.
LeaveFails(c) ==
  /\ operation[c].kind \in {"close", "recycle", "reap"}
  /\ \/ OpAt(c, "err") /\ MachineStays
     \/ /\ OpAt(c, "ok")
        /\ \/ MachineStays
           \/ machine' = Empty /\ inbox' = <<>> /\ removed' = removed \cup {machine}
  /\ Failure(c)
  /\ UNCHANGED proved

\* The workspace is removed; with it goes the record, or the generation. A recycle puts
\* the record back with the lifecycle it had read before it marked it.
LeaveRemoves(c) ==
  /\ OpAt(c, "ok")
  /\ machine' = Empty /\ inbox' = <<>> /\ removed' = removed \cup {machine}
  /\ \/ /\ operation[c].kind \in {"close", "reap"}
        /\ Refused([bound EXCEPT !.lifecycle = "gone"])
        /\ OpEnds(c)
     \/ /\ operation[c].kind = "recycle"
        /\ \E read \in {"active", "failed"} :
             LET b == [Layered(bound, FALSE) EXCEPT !.generation = @ + 1, !.owned = FALSE,
                                                    !.lifecycle = read]
             IN  \/ Kept(b) /\ OpGoes(c, "rebind")
                 \/ Refused([b EXCEPT !.lifecycle = "failed"]) /\ OpEnds(c)
  /\ UNCHANGED proved

\* prepare_layer, then a container with it, or with the project's own image.
LeaveRebinds(c) ==
  /\ OpAt(c, "rebind")
  /\ \/ \E there \in BOOLEAN :
          Kept([Layered(bound, there) EXCEPT !.owned = TRUE, !.lifecycle = "active"])
        /\ OpEnds(c)
     \/ \E there, owned \in BOOLEAN :
          Refused([Layered(bound, there) EXCEPT !.owned = owned, !.lifecycle = "failed"])
        /\ OpEnds(c)
  /\ UNCHANGED proved /\ MachineStays

-----------------------------------------------------------------------------
(* External: the companion carries out the first request it accepted *)

NotMine == ~machine.owned /\ machine.marker
Refuses(path) == IF path = "start" THEN NotMine
                 ELSE ~Quiet \/ (path # "checkpoint" /\ NotMine)

Stopped0 == [machine EXCEPT !.owned = FALSE, !.editor = FALSE, !.marker = FALSE,
                            !.command = FALSE]

\* One that runs is ready; another starts unobserved.
Running == IF machine.owned /\ machine.editor THEN machine
           ELSE [machine EXCEPT !.owned = TRUE, !.editor = TRUE, !.marker = TRUE,
                                !.observed = FALSE]

Effects(path) ==
  CASE path = "start"      -> {Running}
    [] path = "stop"       -> {Stopped0}
    [] path = "checkpoint" -> {[machine EXCEPT !.unsaved = FALSE]}
    [] path = "finish"     -> {[Stopped0 EXCEPT !.unsaved = FALSE]}

\* A failed finish may have stopped the editor, a failed start may have to keep its own.
Damage(path) ==
  CASE path = "start"              -> {machine, Stopped0, Running}
    [] path = "checkpoint"         -> {machine}
    [] path \in {"stop", "finish"} -> {machine, Stopped0}

Answered(caller, pc) ==
  operation' = IF caller # NoCaller /\ operation[caller].pc = "wait"
                 THEN [operation EXCEPT ![caller].pc = pc] ELSE operation

CompanionServes ==
  /\ inbox # <<>>
  /\ LET r == Head(inbox)
     IN  \/ ~Refuses(r.path) /\ machine' \in Effects(r.path) /\ Answered(r.caller, "ok")
         \/ Refuses(r.path) /\ UNCHANGED machine /\ Answered(r.caller, "err")
         \/ ~Refuses(r.path) /\ machine' \in Damage(r.path) /\ Answered(r.caller, "err")
  /\ inbox' = Tail(inbox)
  /\ UNCHANGED <<bound, boundDisk, sessionLock, proved, removed>>

\* The companion, or its editor, dies; editors stay, and so does the marker.
CompanionDies ==
  /\ machine.companion
  /\ machine' = [machine EXCEPT !.companion = FALSE, !.owned = FALSE]
  /\ inbox' = <<>>
  /\ UNCHANGED <<bound, boundDisk, operation, sessionLock, proved, removed>>

EditorDies0 ==
  /\ machine.editor
  /\ machine' = [machine EXCEPT !.editor = FALSE, !.command = FALSE]
  /\ UNCHANGED <<bound, boundDisk, operation, sessionLock, inbox, proved, removed>>

\* The user edits, runs commands; the observation of the terminals comes and goes.
UserWorks ==
  /\ machine.editor
  /\ machine' \in {[machine EXCEPT !.unsaved = TRUE], [machine EXCEPT !.observed = ~@],
                   [machine EXCEPT !.command = ~@, !.unsaved = TRUE]}
  /\ UNCHANGED <<bound, boundDisk, operation, sessionLock, inbox, proved, removed>>

SnapshotByOthers ==
  /\ boundDisk' = bound
  /\ UNCHANGED <<bound, operation, sessionLock, proved>> /\ MachineStays

\* hydrate: what was between two states is failed.
ControlRestart ==
  /\ bound' = IF boundDisk.lifecycle \in {"closing", "recycling"}
                THEN [boundDisk EXCEPT !.lifecycle = "failed"] ELSE boundDisk
  /\ operation' = [c \in Calls |-> IF operation[c].pc = "idle" THEN operation[c]
                                   ELSE [operation[c] EXCEPT !.pc = "over"]]
  /\ sessionLock' = NoCaller
  /\ UNCHANGED <<boundDisk, proved>> /\ MachineStays

OpRuns(c) ==
  \/ StartVerifies(c) \/ StartSaves(c) \/ StartLaunches(c) \/ StartEnds(c)
  \/ OpAsks(c) \/ OpGivesUp(c) \/ StopEnds(c) \/ FinishEnds(c) \/ FinishCloses(c)
  \/ LeaveMarks(c) \/ LeaveFlushes(c) \/ LeaveFails(c) \/ LeaveRemoves(c) \/ LeaveRebinds(c)

CompanionNext ==
  \/ \E c \in Calls : \/ OpRuns(c) \/ ReapBegins(c)
                      \/ \E kind \in Kinds : OperationBegins(c, kind) \/ LeaveBegins(c, kind)
                                         \/ LeaveRefuses(c, kind)
  \/ CompanionServes \/ CompanionDies \/ EditorDies0 \/ UserWorks
  \/ SnapshotByOthers \/ ControlRestart

CompanionSpec == CompanionInit /\ [][CompanionNext]_companionVars

-----------------------------------------------------------------------------
(* Properties *)

CompanionTypeOK ==
  /\ bound \in Bound /\ boundDisk \in Bound
  /\ operation \in [Calls -> Operation]
  /\ sessionLock \in Calls \cup {NoCaller}
  /\ machine \in Machine
  /\ inbox \in Seq(Request)
  /\ proved \in BOOLEAN
  /\ removed \subseteq Machine

\* "A restart must never mistake an IDE-used generation for an ordinary agent-only
\* workspace and reap its work": where anything of the editor was ever started, the
\* record says so, in memory and on disk.
UseIsDurable ==
  machine # Empty => bound.started /\ boundDisk.started

\* IDE-used close, recycle and reap require the strict finish: no workspace is removed
\* with an editor left in it, or with work that is not on the session branch, whatever
\* was started, stopped, lost or restarted before.
NothingUnsavedRemoved ==
  \A m \in removed : ~m.editor /\ ~m.command /\ ~m.unsaved

\* An editor is only started where master was found to move by the host's hand alone.
StartedUnderPolicy ==
  machine.companion => proved

CompanionSound == UseIsDurable /\ NothingUnsavedRemoved /\ StartedUnderPolicy

=============================================================================
