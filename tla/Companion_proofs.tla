------------------------- MODULE Companion_proofs -------------------------
(***************************************************************************)
(* The control plane's hold on the editor, proved for any number of calls, *)
(* rulesets and generations: what is on disk of an editor, what a          *)
(* workspace holds when it is removed, and under which policy an editor    *)
(* was ever started.                                                       *)
(***************************************************************************)
EXTENDS Companion, TLAPS

-----------------------------------------------------------------------------
(* The inductive invariant *)

Leaving == {"close", "recycle", "reap"}
Resting == {"idle", "over", "again"}

\* Bound and Operation, of any generation.
AnyBound == [generation: Nat, owned: BOOLEAN, layer: BOOLEAN, started: BOOLEAN,
             lifecycle: {"active", "closing", "recycling", "failed", "gone"},
             state: {"stopped", "starting", "ready", "failed"}]
AnyOperation == [pc: OpPcs, kind: Kinds, generation: Nat, there: BOOLEAN]

RecordsTyped == bound \in AnyBound /\ boundDisk \in AnyBound
CallsTyped   == operation \in [Calls -> AnyOperation]
WorldTyped   == machine \in Machine /\ inbox \in Seq(Request) /\ proved \in BOOLEAN

\* A call that is on its way holds the session lock.
LockHeld(c) == operation[c].pc \notin Resting => sessionLock = c

\* Requests die with the companion.
InboxThere == inbox # <<>> => machine.companion

\* A request in the inbox is its caller's, and for what the caller is about.
EntryOf(r)   == /\ r.caller \in Calls
                /\ operation[r.caller].pc # "idle" /\ r.path = Path(r.caller)
InboxEntries == \A i \in 1..Len(inbox) : EntryOf(inbox[i])

Clean(m) == ~m.editor /\ ~m.command /\ ~m.unsaved

\* What a call knows where it stands.
CallKnows(c) ==
  /\ OpAt(c, "save") => proved
  /\ OpAt(c, "launch") => proved /\ bound.started /\ boundDisk.started
  /\ OpAt(c, "rebind") => machine = Empty
  /\ OpAt(c, "again") => operation[c].kind = "finish"
  /\ operation[c].kind \in Leaving /\ OpAt(c, "wait") => Len(inbox) <= 1
  /\ operation[c].kind \in Leaving /\ OpAt(c, "ok") => inbox = <<>> /\ Clean(machine)

CompanionInv ==
  /\ RecordsTyped /\ CallsTyped /\ WorldTyped
  /\ \A c \in Calls : LockHeld(c) /\ CallKnows(c)
  /\ InboxThere /\ InboxEntries
  /\ CompanionSound

-----------------------------------------------------------------------------
(* Lemmas *)

\* What prove accepts is enforced: the editor's policy check errs on the safe side only.
LEMMA OnlyEnforced == Verdicts \subseteq {TRUE}
<1>1. SUFFICES ASSUME NEW p \in Policies, Prove(p) PROVE Enforced(p)
  BY DEF Verdicts
<1>2. PICK r \in p.rules : r[1] = "update"
  BY <1>1 DEF Prove
<1>3. \A s \in p.rules : p.of[s[2]].active /\ p.of[s[2]].bypass = {"host"}
  BY <1>1 DEF Prove
<1> QED BY <1>2, <1>3 DEF Enforced

\* One call moves, under the lock it has or takes; the others rest.
Moves(c) ==
  /\ CallsTyped'
  /\ \A d \in Calls : d # c => operation'[d] = operation[d]
  /\ sessionLock \in {c, NoCaller}
  /\ operation'[c].pc \in Resting \/ sessionLock' = c
  /\ operation'[c].pc # "idle"
  /\ operation[c].pc # "idle" => Path(c)' = Path(c)

\* The requests are those there were, or one more of the call's.
InboxFrom(c) ==
  \A i \in 1..Len(inbox') :
    \/ \E j \in 1..Len(inbox) : inbox'[i] = inbox[j]
    \/ inbox'[i].caller = c /\ inbox'[i].path = Path(c)'

LEMMA CallAdvances ==
  ASSUME CompanionInv, NEW c \in Calls, Moves(c), InboxFrom(c),
         RecordsTyped', WorldTyped', InboxThere', CallKnows(c)', CompanionSound'
  PROVE  CompanionInv'
<1>1. ASSUME NEW d \in Calls, d # c
      PROVE  LockHeld(d)' /\ CallKnows(d)'
  <2>1. operation[d].pc \in Resting /\ operation'[d] = operation[d]
    BY <1>1, CompanionAssumption DEF CompanionInv, LockHeld, Moves
  <2> QED BY <2>1 DEF CompanionInv, LockHeld, CallKnows, OpAt, Resting
<1>2. LockHeld(c)'
  BY DEF Moves, LockHeld
<1>3. ASSUME NEW i \in 1..Len(inbox')
      PROVE  EntryOf(inbox[i])'
  <2>1. ASSUME NEW j \in 1..Len(inbox), inbox'[i] = inbox[j]
        PROVE  EntryOf(inbox[i])'
    <3>1. EntryOf(inbox[j])
      BY DEF CompanionInv, InboxEntries
    <3>2. CASE inbox[j].caller = c
      BY <2>1, <3>1, <3>2 DEF EntryOf, Moves
    <3>3. CASE inbox[j].caller # c
      BY <2>1, <3>1, <3>3 DEF EntryOf, Moves, Path
    <3> QED BY <3>2, <3>3
  <2>2. CASE inbox'[i].caller = c /\ inbox'[i].path = Path(c)'
    BY <2>2 DEF EntryOf, Moves
  <2> QED BY <1>3, <2>1, <2>2 DEF InboxFrom
<1>4. InboxEntries'
  BY <1>3 DEF InboxEntries
<1> QED BY <1>1, <1>2, <1>4 DEF CompanionInv, Moves

\* A step of the workspace's, or of the snapshot: no call moves.
LEMMA NoCallMoves ==
  ASSUME CompanionInv, UNCHANGED <<operation, sessionLock>>,
         RecordsTyped', WorldTyped', InboxThere', CompanionSound',
         \A c \in Calls : CallKnows(c)',
         \A i \in 1..Len(inbox') : \E j \in 1..Len(inbox) : inbox'[i] = inbox[j]
  PROVE  CompanionInv'
<1>1. CallsTyped' /\ \A c \in Calls : LockHeld(c)'
  BY DEF CompanionInv, CallsTyped, LockHeld
<1>2. InboxEntries'
  BY DEF CompanionInv, InboxEntries, EntryOf, Path
<1> QED BY <1>1, <1>2 DEF CompanionInv

-----------------------------------------------------------------------------
(* How calls move, and what they write into the record *)

LEMMA Going ==
  ASSUME CompanionInv, NEW c \in Calls, NEW pc \in OpPcs \ Resting,
         operation[c].pc \notin Resting, OpGoes(c, pc)
  PROVE  Moves(c) /\ operation'[c].pc = pc /\ operation'[c].kind = operation[c].kind
<1>1. operation \in [Calls -> AnyOperation] /\ sessionLock = c
  BY DEF CompanionInv, CallsTyped, LockHeld
<1>2. /\ operation' = [operation EXCEPT ![c] = [operation[c] EXCEPT !.pc = pc]]
      /\ sessionLock' = c
  BY <1>1 DEF OpGoes
<1>3. [operation[c] EXCEPT !.pc = pc] \in AnyOperation
  BY <1>1 DEF AnyOperation
<1>4. CallsTyped'
  BY <1>1, <1>2, <1>3 DEF CallsTyped
<1>5. operation'[c].pc = pc /\ operation'[c].kind = operation[c].kind
  BY <1>1, <1>2 DEF AnyOperation
<1> QED BY <1>1, <1>2, <1>4, <1>5 DEF Moves, Path, Resting

LEMMA Ending ==
  ASSUME CompanionInv, NEW c \in Calls, sessionLock \in {c, NoCaller}, OpEnds(c)
  PROVE  Moves(c) /\ operation'[c].pc = "over" /\ CallKnows(c)'
<1>1. operation \in [Calls -> AnyOperation]
  BY DEF CompanionInv, CallsTyped
<1>2. operation' = [operation EXCEPT ![c] = [operation[c] EXCEPT !.pc = "over"]]
  BY <1>1 DEF OpEnds
<1>3. [operation[c] EXCEPT !.pc = "over"] \in AnyOperation
  BY <1>1 DEF AnyOperation, OpPcs
<1>4. CallsTyped'
  BY <1>1, <1>2, <1>3 DEF CallsTyped
<1>5. operation'[c].pc = "over" /\ operation'[c].kind = operation[c].kind
  BY <1>1, <1>2 DEF AnyOperation
<1>6. Moves(c)
  BY <1>1, <1>2, <1>4, <1>5 DEF Moves, Path, Resting
<1> QED BY <1>5, <1>6 DEF CallKnows, OpAt

\* A call that runs holds the lock.
LEMMA RunningHolds ==
  ASSUME CompanionInv, NEW c \in Calls, operation[c].pc \notin Resting
  PROVE  sessionLock = c
  BY DEF CompanionInv, LockHeld

LEMMA CallOnly ==
  ASSUME CompanionInv, NEW c \in Calls, Moves(c), CallKnows(c)',
         UNCHANGED <<bound, boundDisk, machine, inbox, proved, removed>>
  PROVE  CompanionInv'
<1>1. RecordsTyped' /\ WorldTyped' /\ InboxThere' /\ CompanionSound' /\ InboxFrom(c)
  BY DEF CompanionInv, RecordsTyped, WorldTyped, InboxThere, CompanionSound, UseIsDurable,
         NothingUnsavedRemoved, StartedUnderPolicy, InboxFrom
<1> QED BY <1>1, CallAdvances

LEMMA RecordMoves ==
  ASSUME CompanionInv, NEW c \in Calls, Moves(c), CallKnows(c)',
         UNCHANGED <<machine, inbox, proved, removed>>, RecordsTyped', UseIsDurable'
  PROVE  CompanionInv'
<1>1. WorldTyped' /\ InboxThere' /\ CompanionSound' /\ InboxFrom(c)
  BY DEF CompanionInv, WorldTyped, InboxThere, CompanionSound,
         NothingUnsavedRemoved, StartedUnderPolicy, InboxFrom
<1> QED BY <1>1, CallAdvances

\* The record changes a field; what it says of the editor stays or comes true.
LEMMA RecordMarked ==
  ASSUME NEW b \in AnyBound,
         NEW l \in {"active", "closing", "recycling", "failed", "gone"},
         NEW s \in {"stopped", "starting", "ready", "failed"}
  PROVE  /\ [b EXCEPT !.lifecycle = l] \in AnyBound
         /\ [b EXCEPT !.lifecycle = l].started = b.started
         /\ [b EXCEPT !.state = s] \in AnyBound
         /\ [b EXCEPT !.state = s].started = b.started
  BY DEF AnyBound

LEMMA Started ==
  ASSUME NEW b \in AnyBound
  PROVE  /\ [b EXCEPT !.started = TRUE, !.state = "starting"] \in AnyBound
         /\ [b EXCEPT !.started = TRUE, !.state = "starting"].started
<1> DEFINE b1 == [b EXCEPT !.started = TRUE]
<1>1. b1 \in AnyBound /\ b1.started
  BY DEF AnyBound
<1> HIDE DEF b1
<1>2. [b1 EXCEPT !.state = "starting"] \in AnyBound /\ [b1 EXCEPT !.state = "starting"].started
  BY <1>1 DEF AnyBound
<1> QED BY <1>2 DEF b1

\* Refused or kept, what memory and disk both said is still said.
LEMMA Written ==
  ASSUME CompanionInv, NEW b \in AnyBound, bound.started => b.started,
         Kept(b) \/ Refused(b), UNCHANGED machine
  PROVE  RecordsTyped' /\ UseIsDurable'
  BY DEF CompanionInv, RecordsTyped, CompanionSound, UseIsDurable, Kept, Refused

LEMMA Failing ==
  ASSUME CompanionInv, NEW c \in Calls, sessionLock \in {c, NoCaller}, Failure(c),
         UNCHANGED <<machine, inbox, removed, proved>>
  PROVE  CompanionInv'
<1> DEFINE b == [bound EXCEPT !.lifecycle = "failed"]
<1>1. b \in AnyBound /\ b.started = bound.started
  BY RecordMarked DEF CompanionInv, RecordsTyped
<1>2. Refused(b) /\ OpEnds(c)
  BY DEF Failure
<1> HIDE DEF b
<1>3. RecordsTyped' /\ UseIsDurable'
  BY <1>1, <1>2, Written
<1> QED BY <1>2, <1>3, Ending, RecordMoves

-----------------------------------------------------------------------------
(* Calls begin *)

LEMMA TakesKeeps ==
  ASSUME CompanionInv, NEW c \in Calls, NEW kind \in Kinds,
         NEW pc \in {"verify", "ask", "leave"}, Takes0(c, kind, pc)
  PROVE  CompanionInv'
<1>1. operation \in [Calls -> AnyOperation] /\ bound \in AnyBound
  BY DEF CompanionInv, CallsTyped, RecordsTyped
<1> DEFINE o == [pc |-> pc, kind |-> kind, there |-> FALSE, generation |-> bound.generation]
<1>2. o \in AnyOperation /\ o.pc = pc
  BY <1>1 DEF AnyOperation, AnyBound, OpPcs
<1>3. operation' = [operation EXCEPT ![c] = o]
  BY DEF Takes0
<1> HIDE DEF o
<1>4. CallsTyped' /\ operation'[c] = o
  BY <1>1, <1>2, <1>3 DEF CallsTyped
<1>5. Moves(c)
  BY <1>1, <1>2, <1>3, <1>4 DEF Moves, Takes0, OpAt
<1>6. CallKnows(c)'
  BY <1>2, <1>4 DEF CallKnows, OpAt
<1> QED BY <1>5, <1>6, CallOnly DEF Takes0, MachineStays

LEMMA BeginsKeep ==
  ASSUME CompanionInv, NEW c \in Calls, NEW kind \in Kinds,
         OperationBegins(c, kind) \/ LeaveBegins(c, kind) \/ LeaveRefuses(c, kind)
           \/ ReapBegins(c)
  PROVE  CompanionInv'
<1>1. CASE OperationBegins(c, kind)
  BY <1>1, TakesKeeps DEF OperationBegins
<1>2. CASE LeaveBegins(c, kind)
  BY <1>2, TakesKeeps DEF LeaveBegins
<1>3. CASE LeaveRefuses(c, kind)
  BY <1>3, Failing DEF LeaveRefuses, MachineStays
<1>4. CASE ReapBegins(c)
  BY <1>4, TakesKeeps DEF ReapBegins, Kinds
<1> QED BY <1>1, <1>2, <1>3, <1>4

-----------------------------------------------------------------------------
(* start *)

LEMMA VerifiesKeeps ==
  ASSUME CompanionInv, NEW c \in Calls, StartVerifies(c)
  PROVE  CompanionInv'
<1>1. sessionLock = c /\ operation \in [Calls -> AnyOperation]
  BY RunningHolds DEF CompanionInv, CallsTyped, StartVerifies, OpAt, Resting
<1>2. CASE OpEnds(c) /\ UNCHANGED proved
  BY <1>1, <1>2, Ending, CallOnly DEF StartVerifies, MachineStays
<1>3. CASE ~(OpEnds(c) /\ UNCHANGED proved)
  <2>1. proved' /\ sessionLock' = c
    BY <1>1, <1>3, OnlyEnforced DEF StartVerifies
  <2>2. PICK there \in {Status, FALSE} :
          operation' = [operation EXCEPT ![c].pc = "save", ![c].there = there]
    BY <1>3 DEF StartVerifies
  <2>3. there \in BOOLEAN
    BY DEF Status
  <2> DEFINE o1 == [operation[c] EXCEPT !.pc = "save"]
             o  == [o1 EXCEPT !.there = there]
  <2>4. o1 \in AnyOperation /\ o1.pc = "save" /\ o1.kind = operation[c].kind
    BY <1>1 DEF AnyOperation, OpPcs
  <2>5. o \in AnyOperation /\ o.pc = "save" /\ o.kind = operation[c].kind
    <3> HIDE DEF o1
    <3> QED BY <2>4, <2>3 DEF AnyOperation
  <2>6. operation' = [operation EXCEPT ![c] = o]
    BY <1>1, <2>2
  <2> HIDE DEF o
  <2>7. CallsTyped' /\ operation'[c] = o
    BY <1>1, <2>5, <2>6 DEF CallsTyped
  <2>8. Moves(c)
    BY <1>1, <2>1, <2>5, <2>6, <2>7 DEF Moves, Path, Resting
  <2>9. CallKnows(c)'
    BY <2>1, <2>5, <2>7 DEF CallKnows, OpAt
  <2>10. /\ RecordsTyped' /\ WorldTyped' /\ InboxThere' /\ CompanionSound'
        /\ InboxFrom(c)
    BY <2>1 DEF CompanionInv, RecordsTyped, WorldTyped, InboxThere, CompanionSound,
                UseIsDurable, NothingUnsavedRemoved, StartedUnderPolicy, InboxFrom,
                StartVerifies, MachineStays
  <2> QED BY <2>8, <2>9, <2>10, CallAdvances
<1> QED BY <1>2, <1>3 DEF StartVerifies

LEMMA StartSavesKeeps ==
  ASSUME CompanionInv, NEW c \in Calls, StartSaves(c)
  PROVE  CompanionInv'
<1> DEFINE b == [bound EXCEPT !.started = TRUE, !.state = "starting"]
<1>1. b \in AnyBound /\ b.started
  BY Started DEF CompanionInv, RecordsTyped
<1>2. /\ \/ Kept(b) /\ OpGoes(c, IF operation[c].there THEN "ask" ELSE "launch")
         \/ Refused(b) /\ OpEnds(c)
      /\ UNCHANGED <<machine, inbox, removed, proved>> /\ OpAt(c, "save")
  BY DEF StartSaves, MachineStays
<1>3. sessionLock = c /\ proved
  BY <1>2, RunningHolds DEF CompanionInv, CallKnows, OpAt, Resting
<1> HIDE DEF b
<1>4. RecordsTyped' /\ UseIsDurable'
  BY <1>1, <1>2, Written
<1>5. CASE Refused(b) /\ OpEnds(c)
  BY <1>2, <1>3, <1>4, <1>5, Ending, RecordMoves
<1>6. CASE Kept(b) /\ OpGoes(c, IF operation[c].there THEN "ask" ELSE "launch")
  <2>1. PICK pc \in {"ask", "launch"} : OpGoes(c, pc)
    BY <1>6
  <2>2. Moves(c) /\ operation'[c].pc = pc
    BY <1>2, <2>1, Going DEF OpAt, OpPcs, Resting
  <2>3. bound'.started /\ boundDisk'.started
    BY <1>1, <1>6 DEF Kept
  <2>4. CallKnows(c)'
    BY <1>2, <1>3, <2>1, <2>2, <2>3 DEF CallKnows, OpAt
  <2> QED BY <1>2, <1>4, <2>2, <2>4, RecordMoves
<1> QED BY <1>2, <1>5, <1>6

\* The record said so, on disk too, before anything is in the workspace.
LEMMA LaunchesKeeps ==
  ASSUME CompanionInv, NEW c \in Calls, StartLaunches(c)
  PROVE  CompanionInv'
<1>1. /\ sessionLock = c /\ proved
      /\ bound.started /\ boundDisk.started
  BY RunningHolds DEF CompanionInv, CallKnows, StartLaunches, OpAt, Resting
<1> DEFINE b == [bound EXCEPT !.state = "failed"]
<1>2. b \in AnyBound /\ b.started
  BY <1>1, RecordMarked DEF CompanionInv, RecordsTyped
<1>3. \/ OpGoes(c, "ask") /\ UNCHANGED <<bound, boundDisk>>
      \/ Refused(b) /\ OpEnds(c)
  BY DEF StartLaunches
<1> HIDE DEF b
<1>4. RecordsTyped' /\ bound'.started /\ boundDisk'.started
  BY <1>1, <1>2, <1>3 DEF CompanionInv, RecordsTyped, Refused
<1>5. Moves(c) /\ CallKnows(c)'
  <2>1. CASE OpGoes(c, "ask")
    <3>1. Moves(c) /\ operation'[c].pc = "ask"
      BY <2>1, Going DEF StartLaunches, OpAt, OpPcs, Resting
    <3> QED BY <3>1 DEF CallKnows, OpAt
  <2>2. CASE OpEnds(c)
    BY <1>1, <2>2, Ending
  <2> QED BY <1>3, <2>1, <2>2
<1>6. machine' \in Machine /\ machine' \in {[machine EXCEPT !.companion = TRUE], machine}
  BY DEF StartLaunches, CompanionInv, WorldTyped, Machine
<1>7. WorldTyped' /\ InboxThere' /\ InboxFrom(c)
  BY <1>6 DEF StartLaunches, CompanionInv, WorldTyped, Machine, InboxThere, InboxFrom
<1>8. CompanionSound'
  BY <1>1, <1>4 DEF StartLaunches, CompanionInv, CompanionSound, UseIsDurable,
                    NothingUnsavedRemoved, StartedUnderPolicy
<1> QED BY <1>4, <1>5, <1>7, <1>8, CallAdvances

LEMMA EndsKeep ==
  ASSUME CompanionInv, NEW c \in Calls, StartEnds(c) \/ StopEnds(c)
  PROVE  CompanionInv'
<1>1. sessionLock = c
  BY RunningHolds DEF StartEnds, StopEnds, OpAt, Resting
<1>2. /\ OpEnds(c) /\ UNCHANGED <<machine, inbox, removed, proved>>
      /\ \/ UNCHANGED <<bound, boundDisk>>
         \/ \E s \in {"ready", "failed", "stopped"} : Refused([bound EXCEPT !.state = s])
  BY DEF StartEnds, StopEnds, MachineStays
<1>3. CASE UNCHANGED <<bound, boundDisk>>
  BY <1>1, <1>2, <1>3, Ending, CallOnly
<1>4. ASSUME NEW s \in {"ready", "failed", "stopped"}, Refused([bound EXCEPT !.state = s])
      PROVE  CompanionInv'
  <2> DEFINE b == [bound EXCEPT !.state = s]
  <2>1. b \in AnyBound /\ b.started = bound.started /\ Refused(b)
    BY <1>4, RecordMarked DEF CompanionInv, RecordsTyped
  <2> HIDE DEF b
  <2>2. RecordsTyped' /\ UseIsDurable'
    BY <1>2, <2>1, Written
  <2> QED BY <1>1, <1>2, <2>2, Ending, RecordMoves
<1> QED BY <1>2, <1>3, <1>4

-----------------------------------------------------------------------------
(* Requests to the companion *)

\* A finish is asked of a companion that has nothing else to do.
LEMMA AsksKeeps ==
  ASSUME CompanionInv, NEW c \in Calls, OpAsks(c)
  PROVE  CompanionInv'
<1>1. sessionLock = c /\ inbox \in Seq(Request) /\ operation \in [Calls -> AnyOperation]
  BY RunningHolds DEF CompanionInv, WorldTyped, CallsTyped, OpAsks, OpAt, Resting
<1>2. CASE OpGoes(c, "err") /\ UNCHANGED inbox
  <2>1. Moves(c) /\ operation'[c].pc = "err"
    BY <1>2, Going DEF OpAsks, OpAt, OpPcs, Resting
  <2>2. CallKnows(c)'
    BY <2>1 DEF CallKnows, OpAt
  <2> QED BY <1>2, <2>1, <2>2, CallOnly DEF OpAsks
<1>3. CASE ~(OpGoes(c, "err") /\ UNCHANGED inbox)
  <2>1. /\ machine.companion
        /\ Path(c) \in {"stop", "finish"} => Status /\ Quiet
        /\ inbox' = Append(inbox, [caller |-> c, path |-> Path(c)])
        /\ OpGoes(c, "wait")
    BY <1>3 DEF OpAsks
  <2> DEFINE r == [caller |-> c, path |-> Path(c)]
  <2>2. /\ Moves(c) /\ operation'[c].pc = "wait" /\ operation'[c].kind = operation[c].kind
        /\ Path(c)' = Path(c)
    BY <2>1, Going DEF OpAsks, OpAt, OpPcs, Resting, Path
  <2>3. r \in Request
    BY <1>1 DEF Request, Path, AnyOperation, Paths, Kinds
  <2>4. inbox' = Append(inbox, r)
    BY <2>1
  <2>5. Path(c) = "finish" => inbox = <<>>
    BY <2>1 DEF Status
  <2>6. inbox' \in Seq(Request) /\ Len(inbox') = Len(inbox) + 1
    BY <1>1, <2>3, <2>4
  <2>7. \A i \in 1..Len(inbox') :
          \/ i \in 1..Len(inbox) /\ inbox'[i] = inbox[i]
          \/ inbox'[i] = r
    BY <1>1, <2>3, <2>4, <2>6
  <2>8. InboxFrom(c)
    BY <2>2, <2>7 DEF InboxFrom
  <2> HIDE DEF r
  <2>9. CallKnows(c)'
    BY <2>2, <2>5, <2>6 DEF CallKnows, OpAt, Path, Leaving, Paths
  <2>10. RecordsTyped' /\ WorldTyped' /\ InboxThere' /\ CompanionSound'
    BY <2>1, <2>6 DEF OpAsks, CompanionInv, RecordsTyped, WorldTyped, InboxThere, CompanionSound,
                      UseIsDurable, NothingUnsavedRemoved, StartedUnderPolicy
  <2> QED BY <2>2, <2>8, <2>9, <2>10, CallAdvances
<1> QED BY <1>2, <1>3 DEF OpAsks

LEMMA GivesUpKeeps ==
  ASSUME CompanionInv, NEW c \in Calls, OpGivesUp(c)
  PROVE  CompanionInv'
<1>1. Moves(c) /\ operation'[c].pc = "err"
  BY Going DEF OpGivesUp, OpAt, OpPcs, Resting
<1>2. CallKnows(c)'
  BY <1>1 DEF CallKnows, OpAt
<1> QED BY <1>1, <1>2, CallOnly DEF OpGivesUp, MachineStays

LEMMA FinishKeeps ==
  ASSUME CompanionInv, NEW c \in Calls, FinishEnds(c) \/ FinishCloses(c)
  PROVE  CompanionInv'
<1>1. operation \in [Calls -> AnyOperation]
  BY DEF CompanionInv, CallsTyped
<1>2. UNCHANGED <<bound, boundDisk, machine, inbox, proved, removed>>
  BY DEF FinishEnds, FinishCloses, MachineStays
<1>3. CASE OpEnds(c)
  <2>1. sessionLock \in {c, NoCaller}
    BY RunningHolds DEF FinishEnds, FinishCloses, OpAt, Resting
  <2> QED BY <1>2, <1>3, <2>1, Ending, CallOnly
<1>4. CASE FinishEnds(c) /\ ~OpEnds(c)
  <2>1. /\ operation' = [operation EXCEPT ![c] = [operation[c] EXCEPT !.pc = "again"]]
        /\ sessionLock = c
    BY <1>1, <1>4, RunningHolds DEF FinishEnds, OpAt, Resting
  <2>2. [operation[c] EXCEPT !.pc = "again"] \in AnyOperation
    BY <1>1 DEF AnyOperation, OpPcs
  <2>3. CallsTyped'
    BY <1>1, <2>1, <2>2 DEF CallsTyped
  <2>4. operation'[c].pc = "again" /\ operation'[c].kind = operation[c].kind
    BY <1>1, <2>1 DEF AnyOperation
  <2>5. Moves(c)
    BY <1>1, <2>1, <2>3, <2>4 DEF Moves, Path, Resting
  <2>6. CallKnows(c)'
    BY <1>4, <2>1, <2>4 DEF CallKnows, OpAt, FinishEnds
  <2> QED BY <1>2, <2>5, <2>6, CallOnly
<1>5. CASE FinishCloses(c) /\ ~OpEnds(c)
  <2> DEFINE o1 == [operation[c] EXCEPT !.pc = "leave"]
             o  == [o1 EXCEPT !.kind = "close"]
  <2>1. operation' = [operation EXCEPT ![c] = o] /\ sessionLock = NoCaller /\ sessionLock' = c
    BY <1>1, <1>5 DEF FinishCloses
  <2>2. o1 \in AnyOperation /\ o1.pc = "leave"
    BY <1>1 DEF AnyOperation, OpPcs
  <2>3. o \in AnyOperation /\ o.pc = "leave" /\ o.kind = "close"
    <3> HIDE DEF o1
    <3> QED BY <2>2 DEF AnyOperation, Kinds
  <2> HIDE DEF o
  <2>4. CallsTyped' /\ operation'[c] = o
    BY <1>1, <2>1, <2>3 DEF CallsTyped
  <2>5. operation[c].pc = "again" /\ operation[c].kind = "finish"
    BY <1>5 DEF FinishCloses, OpAt, CompanionInv, CallKnows
  <2>6. Moves(c)
    BY <1>1, <2>1, <2>3, <2>4, <2>5 DEF Moves, Path, Paths, Resting
  <2>7. CallKnows(c)'
    BY <2>3, <2>4 DEF CallKnows, OpAt
  <2> QED BY <1>2, <2>6, <2>7, CallOnly
<1> QED BY <1>3, <1>4, <1>5 DEF FinishEnds, FinishCloses

-----------------------------------------------------------------------------
(* close, recycle, reap *)

LEMMA MarksKeeps ==
  ASSUME CompanionInv, NEW c \in Calls, LeaveMarks(c)
  PROVE  CompanionInv'
<1>1. sessionLock = c
  BY RunningHolds DEF LeaveMarks, OpAt, Resting
<1>2. CASE Failure(c)
  BY <1>1, <1>2, Failing DEF LeaveMarks, MachineStays
<1>3. CASE ~Failure(c)
  <2> DEFINE mark == IF operation[c].kind = "recycle" THEN "recycling" ELSE "closing"
             b    == [bound EXCEPT !.lifecycle = mark]
  <2>1. b \in AnyBound /\ b.started = bound.started
    BY RecordMarked DEF CompanionInv, RecordsTyped
  <2>2. Kept(b) /\ OpGoes(c, "flush") /\ UNCHANGED <<machine, inbox, removed, proved>>
    BY <1>3 DEF LeaveMarks, MachineStays
  <2> HIDE DEF b
  <2>3. RecordsTyped' /\ UseIsDurable'
    BY <2>1, <2>2, Written
  <2>4. Moves(c) /\ operation'[c].pc = "flush"
    BY <2>2, Going DEF LeaveMarks, OpAt, OpPcs, Resting
  <2>5. CallKnows(c)'
    BY <2>4 DEF CallKnows, OpAt
  <2> QED BY <2>2, <2>3, <2>4, <2>5, RecordMoves
<1> QED BY <1>2, <1>3

\* Where no editor was ever started, the workspace holds nothing of one.
LEMMA FlushesKeeps ==
  ASSUME CompanionInv, NEW c \in Calls, LeaveFlushes(c)
  PROVE  CompanionInv'
<1>1. PICK pc \in {"ask", "ok", "err"} : OpGoes(c, pc) /\ (pc = "ok" => ~bound.started)
  BY DEF LeaveFlushes
<1>2. Moves(c) /\ operation'[c].pc = pc
  BY <1>1, Going DEF LeaveFlushes, OpAt, OpPcs, Resting
<1>3. UNCHANGED <<bound, boundDisk, machine, inbox, proved, removed>>
  BY DEF LeaveFlushes, MachineStays
<1>4. ~bound.started => inbox = <<>> /\ Clean(machine)
  BY DEF CompanionInv, CompanionSound, UseIsDurable, InboxThere, Empty, Clean
<1>5. CallKnows(c)'
  BY <1>1, <1>2, <1>3, <1>4 DEF CallKnows, OpAt, Clean
<1> QED BY <1>2, <1>3, <1>5, CallOnly

\* A workspace goes when its call was told that it is clean.
LEMMA WorkspaceGoes ==
  ASSUME CompanionInv, NEW c \in Calls, OpAt(c, "ok"), operation[c].kind \in Leaving,
         machine' = Empty, inbox' = <<>>, removed' = removed \cup {machine},
         UNCHANGED proved, Moves(c), CallKnows(c)', RecordsTyped'
  PROVE  CompanionInv'
<1>1. Clean(machine)
  BY DEF CompanionInv, CallKnows
<1>2. WorldTyped' /\ InboxThere'
  BY DEF CompanionInv, WorldTyped, InboxThere, Machine, Empty
<1>3. CompanionSound'
  BY <1>1 DEF CompanionInv, CompanionSound, UseIsDurable, NothingUnsavedRemoved,
              StartedUnderPolicy, Clean, Empty
<1>4. InboxFrom(c)
  BY DEF InboxFrom
<1> QED BY <1>2, <1>3, <1>4, CallAdvances

LEMMA FailsKeeps ==
  ASSUME CompanionInv, NEW c \in Calls, LeaveFails(c)
  PROVE  CompanionInv'
<1>1. sessionLock = c /\ Failure(c) /\ UNCHANGED proved /\ operation[c].kind \in Leaving
  BY RunningHolds DEF LeaveFails, OpAt, Resting, Leaving
<1>2. CASE MachineStays
  BY <1>1, <1>2, Failing DEF MachineStays
<1>3. CASE ~MachineStays
  <2> DEFINE b == [bound EXCEPT !.lifecycle = "failed"]
  <2>1. b \in AnyBound /\ boundDisk \in AnyBound
    BY RecordMarked DEF CompanionInv, RecordsTyped
  <2>2. Refused(b) /\ OpEnds(c)
    BY <1>1 DEF Failure
  <2> HIDE DEF b
  <2>3. RecordsTyped'
    BY <2>1, <2>2 DEF RecordsTyped, Refused
  <2>4. Moves(c) /\ CallKnows(c)'
    BY <1>1, <2>2, Ending
  <2>5. /\ OpAt(c, "ok")
        /\ machine' = Empty /\ inbox' = <<>> /\ removed' = removed \cup {machine}
    BY <1>3 DEF LeaveFails
  <2> QED BY <1>1, <2>3, <2>4, <2>5, WorkspaceGoes
<1> QED BY <1>2, <1>3

LEMMA Relayered ==
  ASSUME NEW b \in AnyBound, NEW there \in BOOLEAN
  PROVE  Layered(b, there) \in AnyBound
<1> DEFINE b1 == [b EXCEPT !.layer = there]
           b2 == [b1 EXCEPT !.started = FALSE]
           b3 == [b2 EXCEPT !.state = "stopped"]
<1>1. b1 \in AnyBound
  BY DEF AnyBound
<1>2. b2 \in AnyBound
  <2> HIDE DEF b1
  <2> QED BY <1>1 DEF AnyBound
<1>3. b3 \in AnyBound
  <2> HIDE DEF b2
  <2> QED BY <1>2 DEF AnyBound
<1>4. Layered(b, there) = b3
  BY DEF Layered, AnyBound
<1> QED BY <1>3, <1>4

LEMMA Rebound ==
  ASSUME NEW b \in AnyBound, NEW owned \in BOOLEAN, NEW l \in {"active", "failed"}
  PROVE  /\ [b EXCEPT !.owned = owned, !.lifecycle = l] \in AnyBound
         /\ [b EXCEPT !.generation = @ + 1, !.owned = owned, !.lifecycle = l] \in AnyBound
<1>1. ASSUME NEW d \in AnyBound
      PROVE  [d EXCEPT !.owned = owned, !.lifecycle = l] \in AnyBound
  <2> DEFINE d1 == [d EXCEPT !.owned = owned]
  <2>1. d1 \in AnyBound
    BY <1>1 DEF AnyBound
  <2> HIDE DEF d1
  <2>2. [d1 EXCEPT !.lifecycle = l] \in AnyBound
    BY <2>1 DEF AnyBound
  <2> QED BY <2>2 DEF d1
<1> DEFINE e == [b EXCEPT !.generation = @ + 1]
<1>2. e \in AnyBound
  BY DEF AnyBound
<1> HIDE DEF e
<1>3. [e EXCEPT !.owned = owned, !.lifecycle = l] \in AnyBound
  BY <1>1, <1>2
<1> QED BY <1>1, <1>3 DEF e

LEMMA RemovesKeeps ==
  ASSUME CompanionInv, NEW c \in Calls, LeaveRemoves(c)
  PROVE  CompanionInv'
<1>1. sessionLock = c /\ bound \in AnyBound /\ boundDisk \in AnyBound
  BY RunningHolds DEF CompanionInv, RecordsTyped, LeaveRemoves, OpAt, Resting
<1>2. /\ OpAt(c, "ok") /\ operation[c].kind \in Leaving /\ UNCHANGED proved
      /\ machine' = Empty /\ inbox' = <<>> /\ removed' = removed \cup {machine}
  BY DEF LeaveRemoves, Leaving
<1>3. \E b \in AnyBound : \/ Refused(b) /\ OpEnds(c)
                          \/ Kept(b) /\ OpGoes(c, "rebind")
  <2>1. CASE operation[c].kind \in {"close", "reap"}
    <3>1. Refused([bound EXCEPT !.lifecycle = "gone"]) /\ OpEnds(c)
      BY <2>1 DEF LeaveRemoves
    <3>2. [bound EXCEPT !.lifecycle = "gone"] \in AnyBound
      BY <1>1, RecordMarked
    <3> QED BY <3>1, <3>2
  <2>2. CASE operation[c].kind = "recycle"
    <3> DEFINE base       == Layered(bound, FALSE)
               next(read) == [base EXCEPT !.generation = @ + 1, !.owned = FALSE,
                                          !.lifecycle = read]
    <3>1. PICK read \in {"active", "failed"} :
            \/ Kept(next(read)) /\ OpGoes(c, "rebind")
            \/ Refused([next(read) EXCEPT !.lifecycle = "failed"]) /\ OpEnds(c)
      BY <2>2 DEF LeaveRemoves
    <3>2. base \in AnyBound
      BY <1>1, Relayered
    <3> HIDE DEF base
    <3>3. next(read) \in AnyBound
      BY <3>2, Rebound
    <3> HIDE DEF next
    <3>4. [next(read) EXCEPT !.lifecycle = "failed"] \in AnyBound
      BY <3>3, RecordMarked
    <3> QED BY <3>1, <3>3, <3>4
  <2> QED BY <1>2, <2>1, <2>2 DEF Leaving
<1>4. PICK b \in AnyBound : \/ Refused(b) /\ OpEnds(c)
                            \/ Kept(b) /\ OpGoes(c, "rebind")
  BY <1>3
<1>5. RecordsTyped'
  BY <1>1, <1>4 DEF RecordsTyped, Refused, Kept
<1>6. Moves(c) /\ CallKnows(c)'
  <2>1. CASE OpEnds(c)
    BY <1>1, <2>1, Ending
  <2>2. CASE OpGoes(c, "rebind")
    <3>1. Moves(c) /\ operation'[c].pc = "rebind"
      BY <1>2, <2>2, Going DEF OpAt, OpPcs, Resting
    <3> QED BY <1>2, <3>1 DEF CallKnows, OpAt
  <2> QED BY <1>4, <2>1, <2>2
<1> QED BY <1>2, <1>5, <1>6, WorkspaceGoes

LEMMA RebindsKeeps ==
  ASSUME CompanionInv, NEW c \in Calls, LeaveRebinds(c)
  PROVE  CompanionInv'
<1>1. sessionLock = c /\ bound \in AnyBound /\ boundDisk \in AnyBound
  BY RunningHolds DEF CompanionInv, RecordsTyped, LeaveRebinds, OpAt, Resting
<1>2. /\ machine = Empty /\ OpEnds(c)
      /\ UNCHANGED <<machine, inbox, removed, proved>>
  BY DEF LeaveRebinds, MachineStays, CompanionInv, CallKnows
<1>3. PICK there, owned \in BOOLEAN, l \in {"active", "failed"} :
        LET b == [Layered(bound, there) EXCEPT !.owned = owned, !.lifecycle = l]
        IN  Kept(b) \/ Refused(b)
  BY DEF LeaveRebinds
<1> DEFINE base == Layered(bound, there)
<1>4. base \in AnyBound
  BY <1>1, Relayered
<1> HIDE DEF base
<1> DEFINE b == [base EXCEPT !.owned = owned, !.lifecycle = l]
<1>5. b \in AnyBound
  BY <1>4, Rebound
<1>6. Kept(b) \/ Refused(b)
  BY <1>3 DEF base
<1> HIDE DEF b
<1>7. RecordsTyped' /\ UseIsDurable'
  BY <1>1, <1>2, <1>5, <1>6 DEF RecordsTyped, Kept, Refused, UseIsDurable
<1> QED BY <1>1, <1>2, <1>7, Ending, RecordMoves

-----------------------------------------------------------------------------
(* The companion, the user, crashes *)

LEMMA Stops ==
  ASSUME machine \in Machine
  PROVE  /\ Stopped0 \in Machine /\ Stopped0.companion = machine.companion
         /\ ~Stopped0.editor /\ ~Stopped0.command
         /\ [Stopped0 EXCEPT !.unsaved = FALSE] \in Machine
         /\ [Stopped0 EXCEPT !.unsaved = FALSE].companion = machine.companion
         /\ Clean([Stopped0 EXCEPT !.unsaved = FALSE])
<1> DEFINE m1 == [machine EXCEPT !.owned = FALSE]
           m2 == [m1 EXCEPT !.editor = FALSE]
           m3 == [m2 EXCEPT !.marker = FALSE]
           m4 == [m3 EXCEPT !.command = FALSE]
<1>1. Stopped0 = m4
  BY DEF Stopped0, Machine
<1>2. m1 \in Machine /\ m1.companion = machine.companion
  BY DEF Machine
<1>3. m2 \in Machine /\ m2.companion = machine.companion /\ ~m2.editor
  <2> HIDE DEF m1
  <2> QED BY <1>2 DEF Machine
<1>4. m3 \in Machine /\ m3.companion = machine.companion /\ ~m3.editor
  <2> HIDE DEF m2
  <2> QED BY <1>3 DEF Machine
<1>5. m4 \in Machine /\ m4.companion = machine.companion /\ ~m4.editor /\ ~m4.command
  <2> HIDE DEF m3
  <2> QED BY <1>4 DEF Machine
<1> HIDE DEF m4
<1>6. /\ [m4 EXCEPT !.unsaved = FALSE] \in Machine
      /\ [m4 EXCEPT !.unsaved = FALSE].companion = machine.companion
      /\ Clean([m4 EXCEPT !.unsaved = FALSE])
  BY <1>5 DEF Machine, Clean
<1> QED BY <1>1, <1>5, <1>6

LEMMA Runs ==
  ASSUME machine \in Machine
  PROVE  Running \in Machine /\ Running.companion = machine.companion
<1> DEFINE m == [companion |-> machine.companion, owned |-> TRUE, editor |-> TRUE,
                 marker |-> TRUE, command |-> machine.command, observed |-> FALSE,
                 unsaved |-> machine.unsaved]
<1>1. Running \in {machine, m}
  BY DEF Running, Machine
<1>2. m \in Machine /\ m.companion = machine.companion
  BY DEF Machine
<1> QED BY <1>1, <1>2

\* What a request may do to the workspace; a finish that succeeds leaves it clean.
LEMMA Does ==
  ASSUME machine \in Machine, NEW path \in Paths, NEW m \in Effects(path) \cup Damage(path)
  PROVE  /\ m \in Machine /\ m.companion = machine.companion
         /\ path = "finish" /\ m \in Effects(path) => Clean(m)
<1>1. CASE path = "start"
  BY <1>1, Runs, Stops DEF Effects, Damage
<1>2. CASE path = "stop"
  BY <1>2, Stops DEF Effects, Damage
<1>3. CASE path = "checkpoint"
  <2>1. [machine EXCEPT !.unsaved = FALSE] \in Machine
    BY DEF Machine
  <2>2. [machine EXCEPT !.unsaved = FALSE].companion = machine.companion
    BY DEF Machine
  <2> QED BY <1>3, <2>1, <2>2 DEF Effects, Damage
<1>4. CASE path = "finish"
  BY <1>4, Stops DEF Effects, Damage
<1> QED BY <1>1, <1>2, <1>3, <1>4 DEF Paths

LEMMA ServesKeeps ==
  ASSUME CompanionInv, CompanionServes
  PROVE  CompanionInv'
<1>1. /\ inbox \in Seq(Request) /\ inbox # <<>> /\ machine \in Machine
      /\ inbox' = Tail(inbox) /\ machine.companion
      /\ UNCHANGED <<bound, boundDisk, sessionLock, proved, removed>>
  BY DEF CompanionServes, CompanionInv, WorldTyped, InboxThere
<1>2. /\ Head(inbox) = inbox[1] /\ 1 \in 1..Len(inbox) /\ Head(inbox) \in Request
      /\ inbox' \in Seq(Request) /\ Len(inbox') = Len(inbox) - 1
      /\ \A i \in 1..Len(inbox') : i + 1 \in 1..Len(inbox) /\ inbox'[i] = inbox[i + 1]
  BY <1>1
<1>3. PICK r \in Request, c \in Calls \cup {NoCaller} : r = Head(inbox) /\ c = r.caller
  BY <1>2 DEF Request
<1>4. EntryOf(r)
  BY <1>2, <1>3 DEF CompanionInv, InboxEntries
<1>5. PICK pc \in {"ok", "err"} :
        /\ Answered(c, pc)
        /\ machine' \in Effects(r.path) \cup Damage(r.path) \cup {machine}
        /\ pc = "ok" => machine' \in Effects(r.path)
  BY <1>1, <1>3 DEF CompanionServes
<1>6. c \in Calls /\ c # NoCaller /\ r.path = Path(c) /\ r.path \in Paths
  BY <1>3, <1>4, CompanionAssumption DEF EntryOf, Request
<1>7. /\ machine' \in Machine /\ machine'.companion
      /\ pc = "ok" /\ r.path = "finish" => Clean(machine')
  BY <1>1, <1>5, <1>6, Does
<1>8. RecordsTyped' /\ WorldTyped' /\ InboxThere' /\ CompanionSound'
  BY <1>1, <1>2, <1>7 DEF CompanionInv, RecordsTyped, WorldTyped, InboxThere, CompanionSound,
     UseIsDurable, NothingUnsavedRemoved, StartedUnderPolicy, Empty
<1>9. CASE operation[c].pc = "wait"
  <2>1. OpGoes(c, pc)
    BY <1>1, <1>5, <1>6, <1>9 DEF Answered, OpGoes
  <2>2. Moves(c) /\ operation'[c].pc = pc /\ operation'[c].kind = operation[c].kind
    BY <1>6, <1>9, <2>1, Going DEF OpPcs, Resting
  <2>3. InboxFrom(c)
    BY <1>2 DEF InboxFrom
  <2>4. CASE pc = "err"
    <3>1. CallKnows(c)'
      BY <2>2, <2>4 DEF CallKnows, OpAt
    <3> QED BY <1>6, <1>8, <2>2, <2>3, <3>1, CallAdvances
  <2>5. CASE pc = "ok"
    <3>1. ASSUME operation[c].kind \in Leaving
          PROVE  inbox' = <<>> /\ Clean(machine')
      <4>1. Path(c) = "finish"
        BY <3>1 DEF Path, Paths, Leaving
      <4>2. Len(inbox) <= 1
        BY <1>6, <1>9, <3>1 DEF CompanionInv, CallKnows, OpAt
      <4>3. Len(inbox') = 0 /\ inbox' \in Seq(Request)
        BY <1>1, <1>2, <4>2
      <4> QED BY <1>6, <1>7, <2>5, <4>1, <4>3
    <3>2. CallKnows(c)'
      BY <2>2, <2>5, <3>1 DEF CallKnows, OpAt, Clean
    <3> QED BY <1>6, <1>8, <2>2, <2>3, <3>2, CallAdvances
  <2> QED BY <2>4, <2>5
<1>10. CASE operation[c].pc # "wait"
  <2>1. UNCHANGED <<operation, sessionLock>>
    BY <1>1, <1>5, <1>10 DEF Answered
  <2>2. ASSUME NEW d \in Calls
        PROVE  CallKnows(d)'
    <3>1. CallKnows(d)
      BY DEF CompanionInv
    <3>2. machine # Empty
      BY <1>1 DEF Empty
    <3>3. Len(inbox) <= 1 => Len(inbox') <= 1
      BY <1>1, <1>2
    <3> QED BY <1>1, <2>1, <3>1, <3>2, <3>3 DEF CallKnows, OpAt
  <2> QED BY <1>2, <1>8, <2>1, <2>2, NoCallMoves
<1> QED BY <1>9, <1>10

\* A dead companion forgets its requests; a clean workspace has no editor to make it dirty.
LEMMA WorkspaceKeeps ==
  ASSUME CompanionInv, CompanionDies \/ EditorDies0 \/ UserWorks
  PROVE  CompanionInv'
<1>1. /\ machine \in Machine /\ machine # Empty
      /\ inbox' \in {inbox, <<>>}
      /\ UNCHANGED <<bound, boundDisk, operation, sessionLock, proved, removed>>
  BY DEF CompanionInv, WorldTyped, CompanionDies, EditorDies0, UserWorks, Empty
<1>2. /\ machine' \in Machine /\ machine'.companion \in {machine.companion, FALSE}
      /\ machine'.companion = machine.companion \/ inbox' = <<>>
      /\ Clean(machine) => Clean(machine')
  <2>1. CASE CompanionDies
    <3> DEFINE m1 == [machine EXCEPT !.companion = FALSE]
               m  == [m1 EXCEPT !.owned = FALSE]
    <3>1. /\ m1 \in Machine /\ m1.companion = FALSE
          /\ Clean(machine) => Clean(m1)
      BY <1>1 DEF Machine, Clean
    <3>2. m \in Machine /\ m.companion = FALSE /\ (Clean(m1) => Clean(m))
      <4> HIDE DEF m1
      <4> QED BY <3>1 DEF Machine, Clean
    <3>3. machine' = m /\ inbox' = <<>>
      BY <2>1, <1>1 DEF CompanionDies, Machine
    <3> HIDE DEF m, m1
    <3> QED BY <3>1, <3>2, <3>3
  <2>2. CASE EditorDies0
    <3>1. machine.editor
      BY <2>2 DEF EditorDies0
    <3> DEFINE m1 == [machine EXCEPT !.editor = FALSE]
               m  == [m1 EXCEPT !.command = FALSE]
    <3>2. m1 \in Machine /\ m1.companion = machine.companion
      BY <1>1 DEF Machine
    <3>3. m \in Machine /\ m.companion = machine.companion
      <4> HIDE DEF m1
      <4> QED BY <3>2 DEF Machine
    <3>4. machine' = m
      BY <2>2, <1>1 DEF EditorDies0, Machine
    <3> HIDE DEF m, m1
    <3> QED BY <3>1, <3>3, <3>4 DEF Clean
  <2>3. CASE UserWorks
    <3>1. machine.editor
      BY <2>3 DEF UserWorks
    <3>2. PICK m0 \in {machine, [machine EXCEPT !.command = ~@],
                       [machine EXCEPT !.observed = ~@]} :
            machine' \in {m0, [m0 EXCEPT !.unsaved = TRUE]}
      BY <2>3, <1>1 DEF UserWorks, Machine
    <3>3. m0 \in Machine /\ m0.companion = machine.companion
      BY <1>1, <3>2 DEF Machine
    <3>4. machine' \in Machine /\ machine'.companion = machine.companion
      BY <3>2, <3>3 DEF Machine
    <3> QED BY <3>1, <3>4 DEF Clean
  <2> QED BY <2>1, <2>2, <2>3
<1>3. RecordsTyped' /\ WorldTyped' /\ InboxThere' /\ CompanionSound'
  <2>1. RecordsTyped' /\ NothingUnsavedRemoved'
    BY <1>1 DEF CompanionInv, RecordsTyped, CompanionSound, NothingUnsavedRemoved
  <2>2. inbox' \in Seq(Request)
    <3>1. inbox \in Seq(Request) /\ <<>> \in Seq(Request)
      BY DEF CompanionInv, WorldTyped
    <3> QED BY <1>1, <3>1
  <2>3. WorldTyped' /\ InboxThere'
    BY <1>1, <1>2, <2>2 DEF CompanionInv, WorldTyped, InboxThere
  <2>4. UseIsDurable'
    BY <1>1 DEF CompanionInv, CompanionSound, UseIsDurable
  <2>5. StartedUnderPolicy'
    BY <1>1, <1>2 DEF CompanionInv, CompanionSound, StartedUnderPolicy
  <2> QED BY <2>1, <2>3, <2>4, <2>5 DEF CompanionSound
<1>4. ASSUME NEW d \in Calls
      PROVE  CallKnows(d)'
  <2>1. CallKnows(d)
    BY DEF CompanionInv
  <2>2. Len(inbox') <= Len(inbox) /\ (inbox = <<>> => inbox' = <<>>)
    BY <1>1 DEF CompanionInv, WorldTyped
  <2> QED BY <1>1, <1>2, <2>1, <2>2 DEF CallKnows, OpAt, CompanionInv, WorldTyped
<1>5. \A i \in 1..Len(inbox') : \E j \in 1..Len(inbox) : inbox'[i] = inbox[j]
  BY <1>1
<1> QED BY <1>1, <1>3, <1>4, <1>5, NoCallMoves

LEMMA SnapshotKeeps ==
  ASSUME CompanionInv, SnapshotByOthers
  PROVE  CompanionInv'
<1>1. /\ boundDisk' = bound
      /\ UNCHANGED <<bound, operation, sessionLock, proved, machine, inbox, removed>>
  BY DEF SnapshotByOthers, MachineStays
<1>2. RecordsTyped' /\ WorldTyped' /\ InboxThere' /\ CompanionSound'
  BY <1>1 DEF CompanionInv, RecordsTyped, WorldTyped, InboxThere, CompanionSound,
     UseIsDurable, NothingUnsavedRemoved, StartedUnderPolicy
<1>3. \A d \in Calls : CallKnows(d)'
  BY <1>1 DEF CompanionInv, CallKnows, OpAt
<1> QED BY <1>1, <1>2, <1>3, NoCallMoves

\* Calls are gone with the control plane, what it started is not.
LEMMA RestartKeeps ==
  ASSUME CompanionInv, ControlRestart
  PROVE  CompanionInv'
<1>1. /\ UNCHANGED <<boundDisk, proved, machine, inbox, removed>>
      /\ operation \in [Calls -> AnyOperation]
      /\ operation' = [c \in Calls |-> IF operation[c].pc = "idle" THEN operation[c]
                                       ELSE [operation[c] EXCEPT !.pc = "over"]]
  BY DEF ControlRestart, MachineStays, CompanionInv, CallsTyped
<1>2. RecordsTyped' /\ bound'.started = boundDisk.started
  <2>1. boundDisk \in AnyBound
    BY DEF CompanionInv, RecordsTyped
  <2>2. /\ [boundDisk EXCEPT !.lifecycle = "failed"] \in AnyBound
        /\ [boundDisk EXCEPT !.lifecycle = "failed"].started = boundDisk.started
    BY <2>1, RecordMarked
  <2>3. bound' \in {boundDisk, [boundDisk EXCEPT !.lifecycle = "failed"]}
    BY DEF ControlRestart
  <2> QED BY <1>1, <2>1, <2>2, <2>3 DEF RecordsTyped
<1>3. ASSUME NEW c \in Calls
      PROVE  /\ operation'[c] \in AnyOperation /\ operation'[c].kind = operation[c].kind
             /\ operation'[c].pc = IF operation[c].pc = "idle" THEN "idle" ELSE "over"
  <2>1. operation[c] \in AnyOperation
    BY <1>1
  <2>2. /\ [operation[c] EXCEPT !.pc = "over"] \in AnyOperation
        /\ [operation[c] EXCEPT !.pc = "over"].kind = operation[c].kind
        /\ [operation[c] EXCEPT !.pc = "over"].pc = "over"
    BY <2>1 DEF AnyOperation, OpPcs
  <2> QED BY <1>1, <2>1, <2>2
<1>4. CallsTyped'
  BY <1>1, <1>3 DEF CallsTyped
<1>5. \A c \in Calls : LockHeld(c)' /\ CallKnows(c)'
  BY <1>3 DEF LockHeld, CallKnows, OpAt, Resting
<1>6. InboxEntries'
  <2>1. ASSUME NEW i \in 1..Len(inbox)
        PROVE  EntryOf(inbox[i])'
    <3>1. EntryOf(inbox[i])
      BY DEF CompanionInv, InboxEntries
    <3> QED BY <1>1, <1>3, <3>1 DEF EntryOf, Path
  <2> QED BY <1>1, <2>1 DEF InboxEntries
<1>7. WorldTyped' /\ InboxThere' /\ CompanionSound'
  BY <1>1, <1>2 DEF CompanionInv, WorldTyped, InboxThere, CompanionSound,
     UseIsDurable, NothingUnsavedRemoved, StartedUnderPolicy
<1> QED BY <1>2, <1>4, <1>5, <1>6, <1>7 DEF CompanionInv

-----------------------------------------------------------------------------
(* The theorem *)

LEMMA CompanionStarts ==
  CompanionInit => CompanionInv
<1> SUFFICES ASSUME CompanionInit PROVE CompanionInv
  OBVIOUS
<1>1. RecordsTyped /\ CallsTyped /\ WorldTyped
  <2>1. RecordsTyped
    BY DEF CompanionInit, RecordsTyped, AnyBound
  <2>2. CallsTyped
    BY DEF CompanionInit, CallsTyped, AnyOperation, OpPcs, Kinds
  <2>3. machine \in Machine /\ proved \in BOOLEAN
    BY DEF CompanionInit, Machine, Empty
  <2>4. inbox \in Seq(Request)
    BY DEF CompanionInit
  <2> QED BY <2>1, <2>2, <2>3, <2>4 DEF WorldTyped
<1>2. \A c \in Calls : LockHeld(c) /\ CallKnows(c)
  BY DEF CompanionInit, LockHeld, CallKnows, OpAt, Resting
<1>3. InboxThere /\ InboxEntries /\ CompanionSound
  BY DEF CompanionInit, InboxThere, InboxEntries, CompanionSound, UseIsDurable,
         NothingUnsavedRemoved, StartedUnderPolicy, Empty
<1> QED BY <1>1, <1>2, <1>3 DEF CompanionInv

LEMMA CompanionKeeps ==
  CompanionInv /\ [CompanionNext]_companionVars => CompanionInv'
<1> SUFFICES ASSUME CompanionInv, [CompanionNext]_companionVars PROVE CompanionInv'
  OBVIOUS
<1>1. ASSUME NEW c \in Calls, OpRuns(c)
      PROVE  CompanionInv'
  BY <1>1, VerifiesKeeps, StartSavesKeeps, LaunchesKeeps, EndsKeep, AsksKeeps, GivesUpKeeps,
     FinishKeeps, MarksKeeps, FlushesKeeps, FailsKeeps, RemovesKeeps, RebindsKeeps DEF OpRuns
<1>2. ASSUME NEW c \in Calls, NEW kind \in Kinds,
             OperationBegins(c, kind) \/ LeaveBegins(c, kind) \/ LeaveRefuses(c, kind)
               \/ ReapBegins(c)
      PROVE  CompanionInv'
  BY <1>2, BeginsKeep
<1>3. "reap" \in Kinds
  BY DEF Kinds
<1>4. CASE CompanionNext
  BY <1>1, <1>2, <1>3, <1>4, ServesKeeps, WorkspaceKeeps, SnapshotKeeps, RestartKeeps
     DEF CompanionNext
<1>5. CASE UNCHANGED companionVars
  BY <1>5 DEF companionVars, CompanionInv, RecordsTyped, CallsTyped, WorldTyped, LockHeld,
     CallKnows, OpAt, InboxThere, InboxEntries, EntryOf, Path, CompanionSound, UseIsDurable,
     NothingUnsavedRemoved, StartedUnderPolicy
<1> QED BY <1>4, <1>5

\* Whatever is started, stopped, lost, refused or restarted: the record on disk says so
\* where an editor was started, no workspace is removed with an editor or unsaved work
\* in it, and no editor is started under a policy that does not protect master.
THEOREM EditorHeld == CompanionSpec => []CompanionSound
<1>1. CompanionInv => CompanionSound
  BY DEF CompanionInv
<1> QED BY <1>1, CompanionStarts, CompanionKeeps, PTL DEF CompanionSpec

-----------------------------------------------------------------------------
(* Generations: a recycle is only begun where there is a next one *)

NotLast(c) ==
  operation[c].kind = "recycle" /\ operation[c].pc \notin Resting \cup {"rebind"} =>
    bound.generation < LastGeneration

Generations ==
  /\ bound.generation \in 1..LastGeneration /\ boundDisk.generation \in 1..LastGeneration
  /\ \A c \in Calls : operation[c].generation \in 1..LastGeneration /\ NotLast(c)
  /\ sessionLock \in Calls \cup {NoCaller}
  /\ removed \subseteq Machine

LEMMA CompanionTypes ==
  ASSUME CompanionInv, Generations
  PROVE  CompanionTypeOK
<1>1. bound \in Bound /\ boundDisk \in Bound
  BY DEF CompanionInv, RecordsTyped, Generations, AnyBound, Bound
<1>2. operation \in [Calls -> Operation]
  <2>1. \A c \in Calls : operation[c] \in AnyOperation /\ operation[c].generation \in 1..LastGeneration
    BY DEF CompanionInv, CallsTyped, Generations
  <2>2. \A c \in Calls : operation[c] \in Operation
    BY <2>1 DEF AnyOperation, Operation
  <2> QED BY <2>2 DEF CompanionInv, CallsTyped
<1> QED BY <1>1, <1>2 DEF CompanionInv, WorldTyped, Generations, CompanionTypeOK

\* One call moves; it has the generation it had, or the present one.
OneCall(c) ==
  /\ \A d \in Calls \ {c} : operation'[d] = operation[d]
  /\ operation'[c].generation \in {operation[c].generation, bound.generation}
  /\ operation'[c].kind = "recycle" /\ operation'[c].pc \notin Resting \cup {"rebind"} =>
       bound.generation < LastGeneration
  /\ sessionLock' \in {sessionLock, c, NoCaller}

SameGeneration ==
  /\ bound'.generation = bound.generation
  /\ boundDisk'.generation \in {bound.generation, boundDisk.generation}

LEMMA GenerationsKept ==
  ASSUME CompanionInv, Generations, NEW c \in Calls, OneCall(c), SameGeneration,
         removed' \in {removed, removed \cup {machine}}
  PROVE  Generations'
<1>1. machine \in Machine
  BY DEF CompanionInv, WorldTyped
<1>2. ASSUME NEW d \in Calls
      PROVE  operation'[d].generation \in 1..LastGeneration /\ NotLast(d)'
  <2>1. CASE d = c
    BY <2>1 DEF Generations, OneCall, SameGeneration, NotLast
  <2>2. CASE d # c
    BY <2>2 DEF Generations, OneCall, SameGeneration, NotLast
  <2> QED BY <2>1, <2>2
<1> QED BY <1>1, <1>2 DEF Generations, OneCall, SameGeneration

LEMMA GoesOn ==
  ASSUME CompanionInv, Generations, NEW c \in Calls, NEW pc,
         operation[c].pc \notin Resting \cup {"rebind"}, OpGoes(c, pc)
  PROVE  OneCall(c)
<1>1. operation \in [Calls -> AnyOperation]
  BY DEF CompanionInv, CallsTyped
<1>2. operation' = [operation EXCEPT ![c] = [operation[c] EXCEPT !.pc = pc]]
      /\ sessionLock' = sessionLock
  BY <1>1 DEF OpGoes
<1>3. /\ operation'[c].generation = operation[c].generation
      /\ operation'[c].kind = operation[c].kind
  BY <1>1, <1>2 DEF AnyOperation
<1> QED BY <1>1, <1>2, <1>3 DEF OneCall, Generations, NotLast

LEMMA GoesOver ==
  ASSUME CompanionInv, NEW c \in Calls, NEW pc \in Resting \cup {"rebind"},
         operation' = [operation EXCEPT ![c].pc = pc], sessionLock' \in {sessionLock, NoCaller}
  PROVE  OneCall(c)
<1>1. operation \in [Calls -> AnyOperation]
  BY DEF CompanionInv, CallsTyped
<1>2. operation' = [operation EXCEPT ![c] = [operation[c] EXCEPT !.pc = pc]]
  BY <1>1
<1>3. operation'[c].pc = pc /\ operation'[c].generation = operation[c].generation
  BY <1>1, <1>2 DEF AnyOperation
<1> QED BY <1>1, <1>2, <1>3 DEF OneCall

LEMMA Ends0 ==
  ASSUME CompanionInv, NEW c \in Calls, OpEnds(c)
  PROVE  OneCall(c)
  BY GoesOver DEF OpEnds, Resting

\* What is written is the record of this generation.
LEMMA Writes0 ==
  ASSUME NEW b, b.generation = bound.generation, Kept(b) \/ Refused(b)
  PROVE  SameGeneration
  BY DEF SameGeneration, Kept, Refused

LEMMA Fields ==
  ASSUME NEW b \in AnyBound, NEW l, NEW s, NEW there, NEW owned
  PROVE  /\ [b EXCEPT !.lifecycle = l].generation = b.generation
         /\ [b EXCEPT !.state = s].generation = b.generation
         /\ [b EXCEPT !.started = TRUE, !.state = s].generation = b.generation
         /\ Layered(b, there).generation = b.generation
         /\ [Layered(b, there) EXCEPT !.owned = owned, !.lifecycle = l].generation = b.generation
  BY DEF AnyBound, Layered

LEMMA FailureEnds ==
  ASSUME CompanionInv, NEW c \in Calls, Failure(c)
  PROVE  OneCall(c) /\ SameGeneration
<1>1. OpEnds(c) /\ Refused([bound EXCEPT !.lifecycle = "failed"])
  BY DEF Failure
<1>2. [bound EXCEPT !.lifecycle = "failed"].generation = bound.generation
  BY Fields DEF CompanionInv, RecordsTyped
<1>3. SameGeneration
  BY <1>1, <1>2, Writes0
<1> QED BY <1>1, <1>3, Ends0

LEMMA BeginsTyped ==
  ASSUME CompanionInv, Generations, NEW c \in Calls, NEW kind \in Kinds,
         OperationBegins(c, kind) \/ LeaveBegins(c, kind) \/ LeaveRefuses(c, kind)
           \/ ReapBegins(c)
  PROVE  Generations'
<1>0. operation \in [Calls -> AnyOperation]
  BY DEF CompanionInv, CallsTyped
<1>1. ASSUME NEW k, NEW pc, Takes0(c, k, pc), k = "recycle" => bound.generation < LastGeneration
      PROVE  Generations'
  <2>1. /\ operation'[c].kind = k /\ operation'[c].generation = bound.generation
        /\ \A d \in Calls \ {c} : operation'[d] = operation[d]
        /\ sessionLock' = c /\ UNCHANGED <<bound, boundDisk, removed>>
    BY <1>0, <1>1 DEF Takes0, MachineStays
  <2>2. OneCall(c) /\ SameGeneration
    BY <1>1, <2>1 DEF OneCall, SameGeneration
  <2> QED BY <2>1, <2>2, GenerationsKept
<1>2. CASE OperationBegins(c, kind)
  BY <1>1, <1>2 DEF OperationBegins, Paths
<1>3. CASE LeaveBegins(c, kind)
  BY <1>1, <1>3 DEF LeaveBegins
<1>4. CASE LeaveRefuses(c, kind)
  BY <1>4, FailureEnds, GenerationsKept DEF LeaveRefuses, MachineStays
<1>5. CASE ReapBegins(c)
  BY <1>1, <1>5 DEF ReapBegins
<1> QED BY <1>2, <1>3, <1>4, <1>5

LEMMA StartTyped ==
  ASSUME CompanionInv, Generations, NEW c \in Calls,
         StartVerifies(c) \/ StartSaves(c) \/ StartLaunches(c) \/ StartEnds(c)
  PROVE  Generations'
<1>0. operation \in [Calls -> AnyOperation] /\ bound \in AnyBound
  BY DEF CompanionInv, CallsTyped, RecordsTyped
<1>1. CASE StartVerifies(c)
  <2>1. UNCHANGED <<bound, boundDisk, removed>> /\ operation[c].pc = "verify"
    BY <1>1 DEF StartVerifies, MachineStays, OpAt
  <2>2. ASSUME NEW there, UNCHANGED sessionLock,
               operation' = [operation EXCEPT ![c].pc = "save", ![c].there = there]
        PROVE  OneCall(c)
    <3>1. /\ operation'[c].kind = operation[c].kind
          /\ operation'[c].generation = operation[c].generation
          /\ \A d \in Calls \ {c} : operation'[d] = operation[d]
      BY <1>0, <2>2 DEF AnyOperation
    <3> QED BY <2>1, <2>2, <3>1 DEF OneCall, Generations, NotLast, Resting
  <2>3. OneCall(c)
    BY <1>1, <2>2, Ends0 DEF StartVerifies
  <2>4. SameGeneration
    BY <2>1 DEF SameGeneration
  <2> QED BY <2>1, <2>3, <2>4, GenerationsKept
<1>2. CASE StartSaves(c)
  <2> DEFINE b == [bound EXCEPT !.started = TRUE, !.state = "starting"]
  <2>1. b.generation = bound.generation
    BY <1>0, Fields
  <2>2. Kept(b) \/ Refused(b)
    BY <1>2 DEF StartSaves
  <2> HIDE DEF b
  <2>3. SameGeneration
    BY <2>1, <2>2, Writes0
  <2>4. OneCall(c)
    BY <1>2, GoesOn, Ends0 DEF StartSaves, OpAt, Resting
  <2> QED BY <1>2, <2>3, <2>4, GenerationsKept DEF StartSaves, MachineStays
<1>3. CASE StartLaunches(c)
  <2>1. [bound EXCEPT !.state = "failed"].generation = bound.generation
    BY <1>0, Fields
  <2>2. UNCHANGED <<bound, boundDisk>> \/ Refused([bound EXCEPT !.state = "failed"])
    BY <1>3 DEF StartLaunches
  <2>3. SameGeneration
    BY <2>1, <2>2, Writes0 DEF SameGeneration
  <2>4. OneCall(c)
    BY <1>3, GoesOn, Ends0 DEF StartLaunches, OpAt, Resting
  <2> QED BY <1>3, <2>3, <2>4, GenerationsKept DEF StartLaunches
<1>4. CASE StartEnds(c)
  <2>1. PICK s \in {"ready", "failed"} : Refused([bound EXCEPT !.state = s])
    BY <1>4 DEF StartEnds
  <2>2. [bound EXCEPT !.state = s].generation = bound.generation
    BY <1>0, Fields
  <2>3. SameGeneration
    BY <2>1, <2>2, Writes0
  <2> QED BY <1>4, <2>3, Ends0, GenerationsKept DEF StartEnds, MachineStays
<1> QED BY <1>1, <1>2, <1>3, <1>4

LEMMA RequestTyped ==
  ASSUME CompanionInv, Generations, NEW c \in Calls,
         OpAsks(c) \/ OpGivesUp(c) \/ StopEnds(c) \/ FinishEnds(c) \/ FinishCloses(c)
  PROVE  Generations'
<1>0. operation \in [Calls -> AnyOperation] /\ bound \in AnyBound
  BY DEF CompanionInv, CallsTyped, RecordsTyped
<1>1. UNCHANGED removed
  BY DEF OpAsks, OpGivesUp, StopEnds, FinishEnds, FinishCloses, MachineStays
<1>2. SameGeneration
  <2>1. [bound EXCEPT !.state = "stopped"].generation = bound.generation
    BY <1>0, Fields
  <2>2. UNCHANGED <<bound, boundDisk>> \/ Refused([bound EXCEPT !.state = "stopped"])
    BY DEF OpAsks, OpGivesUp, StopEnds, FinishEnds, FinishCloses
  <2> QED BY <2>1, <2>2, Writes0 DEF SameGeneration
<1>3. CASE OpAsks(c) \/ OpGivesUp(c)
  <2>1. OneCall(c)
    BY <1>3, GoesOn DEF OpAsks, OpGivesUp, OpAt, Resting
  <2> QED BY <1>1, <1>2, <2>1, GenerationsKept
<1>4. CASE StopEnds(c) \/ FinishEnds(c)
  <2>1. OneCall(c)
    BY <1>4, GoesOver, Ends0 DEF StopEnds, FinishEnds, Resting
  <2> QED BY <1>1, <1>2, <2>1, GenerationsKept
<1>5. CASE FinishCloses(c)
  <2>1. ASSUME operation' = [operation EXCEPT ![c].pc = "leave", ![c].kind = "close"],
               sessionLock' = c
        PROVE  OneCall(c)
    <3>1. /\ operation'[c].kind = "close"
          /\ operation'[c].generation = operation[c].generation
          /\ \A d \in Calls \ {c} : operation'[d] = operation[d]
      BY <1>0, <2>1 DEF AnyOperation
    <3> QED BY <2>1, <3>1 DEF OneCall
  <2>2. OneCall(c)
    BY <1>5, <2>1, Ends0 DEF FinishCloses
  <2> QED BY <1>1, <1>2, <2>2, GenerationsKept
<1> QED BY <1>3, <1>4, <1>5

\* A recycle raises the generation under the session lock, when nobody else is on the way.
LEMMA RemovesTyped ==
  ASSUME CompanionInv, Generations, NEW c \in Calls, LeaveRemoves(c)
  PROVE  Generations'
<1>0. /\ operation \in [Calls -> AnyOperation] /\ bound \in AnyBound /\ machine \in Machine
      /\ sessionLock = c /\ operation[c].pc = "ok" /\ removed' = removed \cup {machine}
  BY RunningHolds DEF CompanionInv, CallsTyped, RecordsTyped, WorldTyped, LeaveRemoves, OpAt, Resting
<1>1. CASE operation[c].kind # "recycle"
  <2>1. OpEnds(c) /\ Refused([bound EXCEPT !.lifecycle = "gone"])
    BY <1>1 DEF LeaveRemoves
  <2>2. [bound EXCEPT !.lifecycle = "gone"].generation = bound.generation
    BY <1>0, Fields
  <2>3. SameGeneration
    BY <2>1, <2>2, Writes0
  <2> QED BY <1>0, <2>1, <2>3, Ends0, GenerationsKept
<1>2. CASE operation[c].kind = "recycle"
  <2> DEFINE base       == Layered(bound, FALSE)
             next(read) == [base EXCEPT !.generation = @ + 1, !.owned = FALSE,
                                        !.lifecycle = read]
             up         == bound.generation + 1
  <2>1. PICK read \in {"active", "failed"} :
          \/ Kept(next(read)) /\ OpGoes(c, "rebind")
          \/ Refused([next(read) EXCEPT !.lifecycle = "failed"]) /\ OpEnds(c)
    BY <1>2 DEF LeaveRemoves
  <2>2. base \in AnyBound /\ base.generation = bound.generation
    BY <1>0, Relayered, Fields
  <2> HIDE DEF base
  <2>3. next(read) \in AnyBound /\ next(read).generation = up
    <3>1. next(read) \in AnyBound
      BY <2>2, Rebound
    <3> QED BY <2>2, <3>1 DEF AnyBound
  <2> HIDE DEF next
  <2>4. [next(read) EXCEPT !.lifecycle = "failed"].generation = up
    BY <2>3, Fields
  <2>5. bound'.generation = up /\ boundDisk'.generation \in {up, boundDisk.generation}
    BY <2>1, <2>3, <2>4 DEF Kept, Refused
  <2>6. bound.generation < LastGeneration /\ bound.generation \in 1..LastGeneration
    BY <1>0, <1>2 DEF Generations, NotLast, Resting
  <2>7. up \in 1..LastGeneration
    BY <2>6, CompanionAssumption
  <2>8. OpGoes(c, "rebind") \/ OpEnds(c)
    BY <2>1
  <2>9. PICK pc \in {"rebind", "over"} :
           /\ operation' = [operation EXCEPT ![c].pc = pc]
           /\ sessionLock' \in {sessionLock, NoCaller}
    BY <2>8 DEF OpGoes, OpEnds
  <2>10. ASSUME NEW d \in Calls
         PROVE  operation'[d].generation = operation[d].generation
                /\ operation'[d].pc \in Resting \cup {"rebind"}
    <3>1. CASE d = c
      BY <1>0, <2>9, <3>1 DEF AnyOperation, Resting
    <3>2. CASE d # c
      <4>1. operation'[d] = operation[d]
        BY <1>0, <2>9, <3>2
      <4>2. operation[d].pc \in Resting
        BY <1>0, <3>2 DEF CompanionInv, LockHeld
      <4> QED BY <4>1, <4>2
    <3> QED BY <3>1, <3>2
  <2> HIDE DEF up
  <2> QED BY <1>0, <2>5, <2>7, <2>9, <2>10 DEF Generations, NotLast
<1> QED BY <1>1, <1>2

LEMMA LeaveTyped ==
  ASSUME CompanionInv, Generations, NEW c \in Calls,
         LeaveMarks(c) \/ LeaveFlushes(c) \/ LeaveFails(c) \/ LeaveRebinds(c)
  PROVE  Generations'
<1>0. bound \in AnyBound
  BY DEF CompanionInv, RecordsTyped
<1>1. CASE LeaveMarks(c)
  <2>1. CASE Failure(c)
    BY <1>1, <2>1, FailureEnds, GenerationsKept DEF LeaveMarks, MachineStays
  <2>2. CASE ~Failure(c)
    <3> DEFINE mark == IF operation[c].kind = "recycle" THEN "recycling" ELSE "closing"
               b    == [bound EXCEPT !.lifecycle = mark]
    <3>1. b.generation = bound.generation
      BY <1>0, Fields
    <3>2. Kept(b) /\ OpGoes(c, "flush")
      BY <1>1, <2>2 DEF LeaveMarks
    <3> HIDE DEF b
    <3>3. SameGeneration
      BY <3>1, <3>2, Writes0
    <3>4. OneCall(c)
      BY <1>1, <3>2, GoesOn DEF LeaveMarks, OpAt, Resting
    <3> QED BY <1>1, <3>3, <3>4, GenerationsKept DEF LeaveMarks, MachineStays
  <2> QED BY <2>1, <2>2
<1>2. CASE LeaveFlushes(c)
  <2>1. OneCall(c)
    BY <1>2, GoesOn DEF LeaveFlushes, OpAt, Resting
  <2> QED BY <1>2, <2>1, GenerationsKept DEF LeaveFlushes, MachineStays, SameGeneration
<1>3. CASE LeaveFails(c)
  <2>1. removed' \in {removed, removed \cup {machine}}
    BY <1>3 DEF LeaveFails, MachineStays
  <2> QED BY <1>3, <2>1, FailureEnds, GenerationsKept DEF LeaveFails
<1>4. CASE LeaveRebinds(c)
  <2>1. PICK there, owned \in BOOLEAN, l \in {"active", "failed"} :
          LET b == [Layered(bound, there) EXCEPT !.owned = owned, !.lifecycle = l]
          IN  Kept(b) \/ Refused(b)
    BY <1>4 DEF LeaveRebinds
  <2>2. [Layered(bound, there) EXCEPT !.owned = owned, !.lifecycle = l].generation
          = bound.generation
    BY <1>0, Fields
  <2>3. SameGeneration
    BY <2>1, <2>2, Writes0
  <2> QED BY <1>4, <2>3, Ends0, GenerationsKept DEF LeaveRebinds, MachineStays
<1> QED BY <1>1, <1>2, <1>3, <1>4

LEMMA OutsideTyped ==
  ASSUME CompanionInv, Generations,
         CompanionServes \/ CompanionDies \/ EditorDies0 \/ UserWorks \/ SnapshotByOthers
  PROVE  Generations'
<1>0. operation \in [Calls -> AnyOperation]
  BY DEF CompanionInv, CallsTyped
<1>1. UNCHANGED <<bound, sessionLock, removed>> /\ boundDisk' \in {boundDisk, bound}
  BY DEF CompanionServes, CompanionDies, EditorDies0, UserWorks, SnapshotByOthers, MachineStays
<1>2. ASSUME NEW d \in Calls
      PROVE  /\ operation'[d].generation = operation[d].generation
             /\ operation'[d].kind = operation[d].kind
             /\ operation'[d].pc \notin Resting \cup {"rebind"} =>
                  operation[d].pc \notin Resting \cup {"rebind"}
  <2>1. CASE UNCHANGED operation
    BY <2>1
  <2>2. CASE CompanionServes
    <3> DEFINE caller == Head(inbox).caller
    <3>1. PICK pc \in {"ok", "err"} : Answered(caller, pc)
      BY <2>2 DEF CompanionServes
    <3> HIDE DEF caller
    <3>2. CASE d = caller /\ operation[d].pc = "wait"
      <4>1. operation'[d] \in {operation[d], [operation[d] EXCEPT !.pc = pc]}
        BY <1>0, <3>1, <3>2 DEF Answered
      <4> QED BY <1>0, <3>2, <4>1 DEF AnyOperation, Resting
    <3>3. CASE ~(d = caller /\ operation[d].pc = "wait")
      <4>1. operation'[d] = operation[d]
        BY <1>0, <3>1, <3>3 DEF Answered
      <4> QED BY <4>1
    <3> QED BY <3>2, <3>3
  <2> QED BY <2>1, <2>2 DEF CompanionDies, EditorDies0, UserWorks, SnapshotByOthers
<1> QED BY <1>1, <1>2 DEF Generations, NotLast

LEMMA RestartTyped ==
  ASSUME CompanionInv, Generations, ControlRestart
  PROVE  Generations'
<1>0. operation \in [Calls -> AnyOperation] /\ boundDisk \in AnyBound
  BY DEF CompanionInv, CallsTyped, RecordsTyped
<1>1. bound'.generation = boundDisk.generation /\ UNCHANGED <<boundDisk, removed>>
      /\ sessionLock' = NoCaller
  BY <1>0, Fields DEF ControlRestart, MachineStays
<1>2. ASSUME NEW d \in Calls
      PROVE  operation'[d].generation = operation[d].generation
             /\ operation'[d].pc \in Resting
  BY <1>0 DEF ControlRestart, AnyOperation, Resting
<1> QED BY <1>1, <1>2 DEF Generations, NotLast

LEMMA GenerationsKeep ==
  ASSUME CompanionInv, Generations, [CompanionNext]_companionVars
  PROVE  Generations'
<1>1. ASSUME NEW c \in Calls, OpRuns(c)
      PROVE  Generations'
  BY <1>1, StartTyped, RequestTyped, RemovesTyped, LeaveTyped DEF OpRuns
<1>2. ASSUME NEW c \in Calls, NEW kind \in Kinds,
             OperationBegins(c, kind) \/ LeaveBegins(c, kind) \/ LeaveRefuses(c, kind)
               \/ ReapBegins(c)
      PROVE  Generations'
  BY <1>2, BeginsTyped
<1>3. "reap" \in Kinds
  BY DEF Kinds
<1>4. CASE CompanionNext
  BY <1>1, <1>2, <1>3, <1>4, OutsideTyped, RestartTyped DEF CompanionNext
<1>5. CASE UNCHANGED companionVars
  BY <1>5 DEF companionVars, Generations, NotLast
<1> QED BY <1>4, <1>5

LEMMA GenerationsStart == CompanionInit => Generations
  BY CompanionAssumption DEF CompanionInit, Generations, NotLast, Resting

\* A recycle stops at the last generation the record can name, whatever restarts, refused
\* saves and late answers come between its look at the record and its next generation.
THEOREM CompanionTyped == CompanionSpec => []CompanionTypeOK
<1>1. CompanionInv /\ Generations => CompanionTypeOK
  BY CompanionTypes
<1>2. CompanionInv /\ Generations /\ [CompanionNext]_companionVars => Generations'
  BY GenerationsKeep
<1> QED BY <1>1, <1>2, CompanionStarts, GenerationsStart, CompanionKeeps, PTL DEF CompanionSpec

=============================================================================
