------------------------- MODULE SessionSafety_proofs -------------------------
(***************************************************************************)
(* Safety of the session lifecycle beyond exclusion and types: what is     *)
(* removed is what was observed, and a branch belongs to one session.      *)
(***************************************************************************)
EXTENDS SessionLifecycle_proofs

-----------------------------------------------------------------------------
(* Generations                                                             *)
(*                                                                         *)
(* A task reads a generation, waits for the session lock, compares, and    *)
(* acts several steps later. In between only the task itself may replace   *)
(* the record, and it does so only when it is past the steps below.        *)

Bound(k) == k.pc \in {"flush", "mirror", "publish", "destroy"}

GenKept == \A t \in Tasks : Bound(task[t]) => recs[task[t].sid].gen = task[t].seen

GenInv == ControlInv /\ GenKept

\* One task moves, rewriting at most the record of a session that is its own.
LEMMA GenStep ==
  ASSUME GenInv, NEW t \in Tasks, NEW s \in Sessions, Mine(t, s),
         \A o \in Sessions \ {s} : recs'[o] = recs[o],
         NEW k, task' = [task EXCEPT ![t] = k],
         Bound(k) => k.sid = s /\ recs'[s].gen = k.seen
  PROVE  GenKept'
  <1>1. task'[t] = k /\ \A u \in Tasks \ {t} : task'[u] = task[u]
    BY DEF GenInv, ControlInv, ControlOK
  <1> SUFFICES ASSUME NEW u \in Tasks, Bound(task'[u])
               PROVE  recs'[task'[u].sid].gen = task'[u].seen
    BY DEF GenKept, Bound
  <1>2. CASE u = t
    BY <1>1, <1>2
  <1>3. CASE u # t
    <2>1. Bound(task[u]) /\ Working(task[u])  BY <1>1, <1>3 DEF Bound, Working
    <2>2. task[u].sid \in Sessions /\ HeldSession(task[u], task[u].sid)
      BY <2>1 DEF GenInv, ControlInv, ControlOK, LocalOK, HeldSession, Bound
    <2>3. task[u].sid # s
      BY <1>3, <2>2, MineIsMine DEF GenInv
    <2> QED  BY <1>1, <1>3, <2>1, <2>2, <2>3 DEF GenInv, GenKept
  <1> QED  BY <1>2, <1>3

\* A task that gives up what it holds leaves no expectation behind.
LEMMA GenRelease ==
  ASSUME GenInv, NEW t \in Tasks, Release(t), UNCHANGED recs
  PROVE  GenKept'
  <1>1. task' = [task EXCEPT ![t] = Idle] /\ ~Bound(Idle)  BY DEF Release, Bound, Idle
  <1> QED  BY <1>1 DEF GenInv, GenKept, ControlInv, ControlOK, Bound

LEMMA GenFailed ==
  ASSUME GenInv, NEW t \in Tasks, NEW s \in Sessions, Mine(t, s),
         NEW r \in Stores, r[s] \in BoundRecord, \A o \in Sessions \ {s} : r[o] = recs[o],
         NEW d, NEW code \in Failure, Failed(t, s, code, r, d)
  PROVE  GenKept'
  <1>1. \A o \in Sessions \ {s} : recs'[o] = recs[o]
    BY MarkOK DEF Failed, Lifecycle
  <1>2. task' = [task EXCEPT ![t] = Idle] /\ ~Bound(Idle)
    BY DEF Failed, Release, Bound, Idle
  <1> QED  BY <1>1, <1>2, GenStep

LEMMA GenFailWhereItStands ==
  ASSUME GenInv, NEW t \in Tasks, NEW s \in Sessions, Mine(t, s), recs[s] \in BoundRecord,
         NEW f, FailHere(t, s) \/ FailInjected(t, f, s)
  PROVE  GenKept'
  <1>1. Fail(t, s, "other", recs, debts) /\ recs \in Stores
    BY DEF FailHere, FailInjected, GenInv, ControlInv, ControlOK
  <1> QED  BY <1>1, GenFailed DEF Failure, Fail

LEMMA GenPersist ==
  ASSUME GenInv, NEW t \in Tasks, NEW s \in Sessions, Mine(t, s),
         NEW r \in Stores, r[s] \in BoundRecord, \A o \in Sessions \ {s} : r[o] = recs[o],
         NEW d, NEW k, Bound(k) => k.sid = s /\ r[s].gen = k.seen,
         TryPersist(t, s, r, d, k)
  PROVE  GenKept'
  <1>1. CASE Failed(t, s, "other", r, d)
    BY <1>1, GenFailed DEF Failure
  <1>2. CASE recs' = r /\ task' = [task EXCEPT ![t] = k]
    BY <1>2, GenStep
  <1> QED  BY <1>1, <1>2 DEF TryPersist

\* A task at work puts a record of its session and stops caring about what it saw.
LEMMA GenPut ==
  ASSUME GenInv, NEW t \in Tasks, Working(task[t]), NEW l \in BoundRecord, NEW d,
         NEW k, ~Bound(k),
         TryPersist(t, task[t].sid, [recs EXCEPT ![task[t].sid] = l], d, k)
  PROVE  GenKept'
  <1> DEFINE s == task[t].sid
             r == [recs EXCEPT ![s] = l]
  <1>0. ControlInv  BY DEF GenInv
  <1>1. r \in Stores /\ r[s] \in BoundRecord /\ \A o \in Sessions \ {s} : r[o] = recs[o]
    BY <1>0, WorkingOK DEF Stores
  <1>2. TryPersist(t, s, r, d, k)  OBVIOUS
  <1> HIDE DEF r
  <1> QED  BY <1>0, <1>1, <1>2, WorkingOK, GenPersist

\* A task at work moves on within the steps that keep what it saw.
LEMMA GenMove ==
  ASSUME GenInv, NEW t \in Tasks, Working(task[t]), UNCHANGED recs,
         NEW k \in TaskType, task' = [task EXCEPT ![t] = k],
         Bound(k) => Bound(task[t]) /\ k.sid = task[t].sid /\ k.seen = task[t].seen
  PROVE  GenKept'
  BY WorkingOK, GenStep DEF GenInv, GenKept

LEMMA GenClaim ==
  ASSUME GenInv, NEW t \in Tasks, NEW s \in Sessions, SessionFree(s), recs[s] # None,
         NEW kind, NEW life \in {"closing", "recycling"},
         Claim(t, s, kind, recs[s].gen, life)
  PROVE  GenKept'
  <1> DEFINE k == [Idle EXCEPT !.pc = "flush", !.kind = kind, !.sid = s,
                               !.seen = recs[s].gen, !.local = recs[s]]
             r == Mark(recs, s, life, "none")
  <1>1. recs \in Stores /\ recs[s] \in BoundRecord /\ Mine(t, s)
    BY DEF GenInv, ControlInv, ControlOK, Stores, Mine
  <1>2. CASE Fail(t, s, "legacy_ownership_ambiguous", recs, debts)
    BY <1>1, <1>2, GenFailed DEF Failure, Fail
  <1>3. CASE FailHere(t, s)
    BY <1>1, <1>3, GenFailWhereItStands
  <1>4. CASE TryPersist(t, s, r, debts, k)
    <2>1. life \in Lifecycle /\ "none" \in Failure  BY DEF Lifecycle, Failure
    <2>2. r \in Stores /\ r[s] \in BoundRecord /\ \A o \in Sessions \ {s} : r[o] = recs[o]
      BY <1>1, <2>1, MarkOK
    <2>3. r[s].gen = recs[s].gen
      BY <1>1 DEF Mark, Stores, BoundRecord, Record
    <2>4. k.sid = s /\ k.seen = recs[s].gen
      BY DEF Idle
    <2> HIDE DEF r, k
    <2> QED  BY <1>1, <1>4, <2>2, <2>3, <2>4, GenPersist
  <1> QED  BY <1>2, <1>3, <1>4 DEF Claim

LEMMA GenRequest ==
  ASSUME GenInv, NEW t \in Tasks, NEW s \in Sessions, Request(t, s)
  PROVE  GenKept'
  <1>1. ASSUME NEW kind, OpenBegin(t, s, kind)  PROVE GenKept'
    <2> DEFINE k == [Idle EXCEPT !.pc = "orphan", !.kind = kind, !.sid = s,
                                 !.local = NewRecord(s)]
               r == [recs EXCEPT ![s] = NewRecord(s)]
    <2>1. Mine(t, s) /\ TryPersist(t, s, r, debts, k)
      BY <1>1 DEF OpenBegin, Mine
    <2>2. r \in Stores /\ r[s] \in BoundRecord /\ \A o \in Sessions \ {s} : r[o] = recs[o]
      BY NewRecordOK DEF Stores, GenInv, ControlInv, ControlOK
    <2>3. ~Bound(k)  BY DEF Bound, Idle
    <2> HIDE DEF r, k
    <2> QED  BY <2>1, <2>2, <2>3, GenPersist
  <1>2. CASE CloseBegin(t, s)
    BY <1>2, GenClaim DEF CloseBegin
  <1>3. CASE RecycleBegin(t, s)
    BY <1>3, GenClaim DEF RecycleBegin
  <1>4. ASSUME NEW kind, Observed(t, s, kind), UNCHANGED recs  PROVE GenKept'
    <2> DEFINE k == [Idle EXCEPT !.pc = "observed", !.kind = kind, !.sid = s,
                                 !.seen = recs[s].gen]
    <2>1. task' = [task EXCEPT ![t] = k] /\ ~Bound(k)
      BY <1>4 DEF Observed, Bound, Idle
    <2> HIDE DEF k
    <2> QED  BY <1>4, <2>1 DEF GenInv, GenKept, ControlInv, ControlOK, Bound
  <1> QED
    BY <1>1, <1>2, <1>3, <1>4 DEF Request, FinishObserve, ReapObserve, memory

LEMMA GenObserved ==
  ASSUME GenInv, NEW t \in Tasks, FinishBegin(t) \/ ReapBegin(t)
  PROVE  GenKept'
  <1>1. task[t].sid \in Sessions
    BY DEF FinishBegin, ReapBegin, GenInv, ControlInv, ControlOK, LocalOK
  <1>2. CASE Release(t) /\ UNCHANGED <<memory, disk>>
    BY <1>2, GenRelease DEF memory
  <1>3. CASE FinishBegin(t) /\ ~(Release(t) /\ UNCHANGED <<memory, disk>>)
    BY <1>1, <1>3, GenClaim DEF FinishBegin
  <1>4. CASE ReapBegin(t) /\ ~(Release(t) /\ UNCHANGED <<memory, disk>>)
    BY <1>1, <1>4, GenClaim DEF ReapBegin
  <1> QED  BY <1>2, <1>3, <1>4

\* The steps of open and the tail it shares with recycle.
LEMMA GenOpen ==
  ASSUME GenInv, NEW t \in Tasks,
         OpenMirror(t) \/ OpenImage(t) \/ Layer(t) \/ Create(t) \/ Boot(t)
         \/ RecycleRebind(t)
  PROVE  GenKept'
  <1> DEFINE s == task[t].sid
  <1>0. ControlInv  BY DEF GenInv
  <1>1. Working(task[t])
    BY DEF OpenMirror, OpenImage, Layer, Create, Boot, RecycleRebind, Working
  <1>2. task[t] \in TaskType /\ s \in Sessions /\ task[t].local \in BoundRecord
        /\ Mine(t, s) /\ recs[s] \in BoundRecord
    BY <1>0, <1>1, WorkingOK
  <1>3. ASSUME NEW f, FailInjected(t, f, s) \/ FailHere(t, s)
        PROVE  GenKept'
    BY <1>2, <1>3, GenFailWhereItStands
  <1>4. ASSUME NEW l \in BoundRecord, NEW p \in {"image", "layer", "create", "boot"},
               TryPersist(t, s, [recs EXCEPT ![s] = l], debts,
                          [task[t] EXCEPT !.pc = p, !.local = l])
        PROVE  GenKept'
    <2> DEFINE k == [task[t] EXCEPT !.pc = p, !.local = l]
    <2>1. ~Bound(k)  BY <1>2 DEF Bound, TaskType
    <2> HIDE DEF k
    <2> QED  BY <1>1, <1>4, <2>1, GenPut DEF k
  <1>5. CASE OpenMirror(t)
    <2>1. \A b \in Sessions : [task[t].local EXCEPT !.branch = b] \in BoundRecord
      BY <1>2 DEF BoundRecord, Record
    <2>2. task[t].local.branch \in Sessions /\ Orphans \subseteq Sessions
      BY <1>2 DEF BoundRecord, Record, Orphans
    <2> QED  BY <1>3, <1>4, <1>5, <2>1, <2>2 DEF OpenMirror
  <1>6. CASE OpenImage(t)
    <2>1. CASE Goto(t, "layer") /\ UNCHANGED memory
      <3> DEFINE k == [task[t] EXCEPT !.pc = "layer"]
      <3>1. task' = [task EXCEPT ![t] = k] /\ k \in TaskType /\ ~Bound(k)
        BY <1>2, <2>1 DEF Goto, GenInv, ControlInv, ControlOK, TaskType, Pcs, Bound
      <3> HIDE DEF k
      <3> QED  BY <1>1, <2>1, <3>1, GenMove DEF memory
    <2> QED  BY <1>3, <1>6, <2>1 DEF OpenImage
  <1>7. CASE Layer(t)
    <2> DEFINE l == IF task[t].kind = "recycle"
                      THEN [task[t].local EXCEPT !.owned = FALSE, !.life = "recycling"]
                      ELSE task[t].local
    <2>1. l \in BoundRecord  BY <1>2 DEF BoundRecord, Record, Lifecycle
    <2>2. TryPersist(t, s, [recs EXCEPT ![s] = l], debts,
                     [task[t] EXCEPT !.pc = "create", !.local = l])
      BY <1>7 DEF Layer
    <2> HIDE DEF l
    <2> QED  BY <1>4, <2>1, <2>2
  <1>8. CASE Create(t)
    <2>1. [task[t].local EXCEPT !.owned = TRUE] \in BoundRecord
      BY <1>2 DEF BoundRecord, Record
    <2> QED  BY <1>3, <1>4, <1>8, <2>1 DEF Create
  <1>9. CASE Boot(t)
    <2> DEFINE l == [task[t].local EXCEPT !.life = "active", !.err = "none"]
    <2>1. l \in BoundRecord  BY <1>2 DEF BoundRecord, Record, Lifecycle, Failure
    <2>2. ~Bound(Idle)  BY DEF Bound, Idle
    <2>3. CASE TryPersist(t, s, [recs EXCEPT ![s] = l], debts, Idle)
      <3> HIDE DEF l
      <3> QED  BY <1>1, <2>1, <2>2, <2>3, GenPut
    <2> QED  BY <1>3, <1>9, <2>3 DEF Boot
  <1>10. CASE RecycleRebind(t)
    <2> DEFINE l == [task[t].local EXCEPT !.gen = @ + 1, !.bound = TRUE, !.owned = FALSE]
    <2>1. task[t].local.gen \in 0..MaxGen /\ task[t].local.gen < MaxGen
      BY <1>0, <1>1, <1>2, <1>10
      DEF RecycleRebind, ControlInv, ControlOK, LocalOK, BoundRecord, Record
    <2>2. task[t].local.gen + 1 \in 0..MaxGen /\ task[t].local.gen + 1 \in 1..MaxGen
      BY <2>1, ConstantsAssumption
    <2>3. l \in Record  BY <1>2, <2>2 DEF BoundRecord, Record
    <2>4. l.gen = task[t].local.gen + 1  BY <1>2 DEF BoundRecord, Record
    <2>5. l \in BoundRecord  BY <2>2, <2>3, <2>4 DEF BoundRecord
    <2>6. CASE TryPersist(t, s, [recs EXCEPT ![s] = l], debts,
                          [task[t] EXCEPT !.pc = "layer", !.local = l])
      <3> HIDE DEF l
      <3> QED  BY <1>4, <2>5, <2>6
    <2> QED  BY <1>3, <1>10, <2>6 DEF RecycleRebind
  <1> QED  BY <1>5, <1>6, <1>7, <1>8, <1>9, <1>10

\* The steps of close, recycle and reap that keep, then use, what was seen.
LEMMA GenClose ==
  ASSUME GenInv, NEW t \in Tasks,
         Flush(t) \/ CloseMerge(t) \/ RecycleFetch(t) \/ Publish(t) \/ Destroy(t)
  PROVE  GenKept'
  <1> DEFINE s == task[t].sid
  <1>0. ControlInv  BY DEF GenInv
  <1>1. Working(task[t]) /\ Bound(task[t])
    BY DEF Flush, CloseMerge, RecycleFetch, Publish, Destroy, Working, Bound
  <1>2. task[t] \in TaskType /\ s \in Sessions /\ Mine(t, s) /\ recs[s] \in BoundRecord
        /\ recs \in Stores
    BY <1>0, <1>1, WorkingOK
  <1>3. ASSUME NEW f, FailInjected(t, f, s) \/ FailHere(t, s)
        PROVE  GenKept'
    BY <1>2, <1>3, GenFailWhereItStands
  <1>4. CASE FetchFails(t)
    BY <1>3, <1>4 DEF FetchFails
  <1>5. ASSUME NEW p \in Pcs, Goto(t, p), UNCHANGED recs  PROVE GenKept'
    <2> DEFINE k == [task[t] EXCEPT !.pc = p]
    <2>1. k \in TaskType /\ k.sid = task[t].sid /\ k.seen = task[t].seen
      BY <1>2 DEF TaskType
    <2>2. task' = [task EXCEPT ![t] = k]
      BY <1>5 DEF Goto, GenInv, ControlInv, ControlOK
    <2> HIDE DEF k
    <2> QED  BY <1>1, <1>5, <2>1, <2>2, GenMove
  <1>6. CASE Flush(t)
    <2>1. (IF task[t].kind = "reap" THEN "destroy" ELSE "mirror") \in Pcs
      BY DEF Pcs
    <2> QED  BY <1>3, <1>5, <1>6, <2>1 DEF Flush, memory
  <1>7. CASE RecycleFetch(t)
    <2>1. "image" \in Pcs  BY DEF Pcs
    <2> QED  BY <1>4, <1>5, <1>7, <2>1 DEF RecycleFetch, Fetched, memory
  <1>8. CASE CloseMerge(t)
    <2>1. ASSUME UNCHANGED recs, NEW m, NEW b, NEW o \in CloseOutcomes(m, b),
                 task' = [task EXCEPT ![t] = [@ EXCEPT !.pc = "publish", !.debt = o.debt]]
          PROVE  GenKept'
      <3> DEFINE k == [task[t] EXCEPT !.pc = "publish", !.debt = o.debt]
      <3>1. \E x \in {m, b, m \cup b}, d \in BOOLEAN : o = [master |-> x, debt |-> d]
        BY DEF CloseOutcomes
      <3>2. o.debt \in BOOLEAN  BY <3>1
      <3>3. k \in TaskType /\ k.sid = task[t].sid /\ k.seen = task[t].seen
        BY <1>2, <3>2 DEF TaskType, Pcs
      <3>4. task' = [task EXCEPT ![t] = k]  BY <2>1
      <3> HIDE DEF k
      <3> QED  BY <1>1, <2>1, <3>3, <3>4, GenMove
    <2> QED  BY <1>4, <1>8, <2>1 DEF CloseMerge, Fetched, memory
  <1>9. CASE Publish(t)
    <2> DEFINE k == [task[t] EXCEPT !.pc = "destroy"]
    <2>1. k.sid = s /\ k.seen = task[t].seen  BY <1>2 DEF TaskType
    <2>2. recs[s].gen = task[t].seen  BY <1>1 DEF GenInv, GenKept
    <2>3. ASSUME NEW d, TryPersist(t, s, recs, d, k)  PROVE GenKept'
      <3> HIDE DEF k
      <3> QED  BY <1>2, <2>1, <2>2, <2>3, GenPersist
    <2> QED  BY <1>3, <1>9, <2>3 DEF Publish
  <1>10. CASE Destroy(t)
    <2>1. "remove" \in Pcs  BY DEF Pcs
    <2> QED  BY <1>3, <1>5, <1>10, <2>1 DEF Destroy, memory
  <1> QED  BY <1>6, <1>7, <1>8, <1>9, <1>10

LEMMA GenRemove ==
  ASSUME GenInv, NEW t \in Tasks, CloseRemove(t) \/ ReapRemove(t)
  PROVE  GenKept'
  <1>1. Working(task[t])  BY DEF CloseRemove, ReapRemove, Working
  <1>2. recs' = [recs EXCEPT ![task[t].sid] = None] /\ task' = [task EXCEPT ![t] = Idle]
    BY DEF CloseRemove, ReapRemove, Release
  <1>3. ~Bound(Idle)  BY DEF Bound, Idle
  <1>4. \A o \in Sessions \ {task[t].sid} : recs'[o] = recs[o]
    BY <1>1, <1>2, WorkingOK DEF GenInv, Stores
  <1> QED  BY <1>1, <1>2, <1>3, <1>4, WorkingOK, GenStep DEF GenInv

LEMMA GenCancel ==
  ASSUME GenInv, NEW t \in Tasks, Cancel(t)
  PROVE  GenKept'
  <1>1. UNCHANGED recs  BY DEF Cancel, memory
  <1>2. CASE Release(t)  BY <1>1, <1>2, GenRelease
  <1>3. ASSUME NEW p \in {"mirror_worker", "session_worker"}, Goto(t, p)
        PROVE  GenKept'
    BY <1>1, <1>3 DEF Goto, GenInv, GenKept, ControlInv, ControlOK, Bound, TaskType
  <1> QED  BY <1>2, <1>3 DEF Cancel

LEMMA GenNext ==
  ASSUME GenInv, [Next]_vars
  PROVE  GenInv'
  <1>1. ControlInv'  BY ControlStep DEF GenInv
  <1>2. ASSUME NEW t \in Tasks, Locking(t)  PROVE GenKept'
    BY <1>2, GenObserved, GenClose DEF Locking
  <1>3. ASSUME NEW t \in Tasks, Running(t)  PROVE GenKept'
    <2>1. CASE WorkerDone(t)
      BY <2>1, GenRelease DEF WorkerDone, memory
    <2> QED  BY <1>3, <2>1, GenOpen, GenClose, GenRemove DEF Running
  <1>4. ASSUME Crash  PROVE GenKept'
    BY <1>4 DEF Crash, GenKept, Bound, Idle
  <1>5. ASSUME UNCHANGED <<recs, task>>  PROVE GenKept'
    BY <1>5 DEF GenInv, GenKept, Bound
  <1>6. GenKept'
    BY <1>2, <1>3, <1>4, <1>5, GenRequest, GenCancel
    DEF Next, Edit, Commit, OthersPersist, Rest, vars, memory
  <1> QED  BY <1>1, <1>6 DEF GenInv

\* What the reaper, finish or close removes is the generation they observed:
\* reap_generation_min and close_expected compare under the session lock, and
\* nobody replaces the record before the destroy.
THEOREM RemovesWhatItObserved == Spec => ObservedGenerationOnly
  <1> DEFINE Step == \A t \in Tasks : task[t].pc = "destroy" /\ task'[t].pc = "remove" =>
                       recs[task[t].sid] # None /\ recs[task[t].sid].gen = task[t].seen
  <1>1. Init => GenInv
    <2>1. Init => GenKept  BY DEF Init, GenKept, Bound, Idle
    <2> QED  BY <2>1, ControlInit DEF GenInv
  <1>2. GenInv => Step
    BY NoneIsNoRecord, WorkingOK DEF GenInv, GenKept, Bound, Working, BoundRecord
  <1>3. GenInv /\ [Next]_vars => [Step]_vars
    BY <1>2
  <1>4. GenInv /\ [Next]_vars => GenInv'
    BY GenNext
  <1> QED  BY <1>1, <1>3, <1>4, PTL DEF Spec, ObservedGenerationOnly

-----------------------------------------------------------------------------
(* Branches                                                                *)
(*                                                                         *)
(* Every branch anybody knows of, in a record, the snapshot, a mirror head, *)
(* the remote or a container, was named by an identity drawn earlier. So a *)
(* fresh identity's branch is new, and an orphan's belongs to no record.   *)

Exclusive(r) ==
  \A s, o \in Sessions : r[s] # None /\ r[o] # None /\ r[s].branch = r[o].branch => s = o
Drawn(r) == \A s \in Sessions : r[s] # None => r[s].branch \in used

\* What the records say; a task's local copy agrees with the store on its branch.
RecordBranches ==
  /\ Exclusive(recs) /\ Exclusive(disk.recs)
  /\ Drawn(recs) /\ Drawn(disk.recs)
  /\ \A t \in Tasks : Working(task[t]) => task[t].local.branch = recs[task[t].sid].branch

\* What git and the containers say.
WorldBranches ==
  /\ heads \subseteq used
  /\ \A b \in Sessions : originBranch[b] # None => b \in used
  /\ \A n \in Names : conts[n] # None => conts[n].branch \in used

BranchInv == Inv /\ RecordBranches /\ WorldBranches

\* A branch session s may take: drawn, and in no other session's record.
Fits(s, b) ==
  /\ b \in used'
  /\ \A o \in Sessions \ {s} : recs[o] # None => recs[o].branch # b

LEMMA OwnBranchFits ==
  ASSUME BranchInv, used \subseteq used', NEW s \in Sessions, recs[s] # None
  PROVE  Fits(s, recs[s].branch)
  BY DEF BranchInv, RecordBranches, Exclusive, Drawn, Fits

LEMMA LocalBranchDrawn ==
  ASSUME BranchInv, NEW t \in Tasks, Working(task[t])
  PROVE  task[t].local.branch \in used
  <1>1. task[t].sid \in Sessions /\ recs[task[t].sid] # None
    BY WorkingOK, NoneIsNoRecord DEF BranchInv, Inv, BoundRecord
  <1> QED  BY <1>1 DEF BranchInv, RecordBranches, Drawn

LEMMA LocalBranchFits ==
  ASSUME BranchInv, used \subseteq used', NEW t \in Tasks, Working(task[t])
  PROVE  Fits(task[t].sid, task[t].local.branch)
  <1>1. task[t].sid \in Sessions /\ recs[task[t].sid] # None
    BY WorkingOK, NoneIsNoRecord DEF BranchInv, Inv, BoundRecord
  <1> QED
    BY <1>1, OwnBranchFits DEF BranchInv, RecordBranches

\* One task moves, and its session keeps, drops or changes its branch.
LEMMA BranchStep ==
  ASSUME BranchInv, used \subseteq used', NEW t \in Tasks, NEW s \in Sessions, Mine(t, s),
         \A o \in Sessions \ {s} : recs'[o] = recs[o],
         recs'[s] # None => Fits(s, recs'[s].branch),
         \/ disk' = disk
         \/ /\ \A o \in Sessions \ {s} : disk'.recs[o] = recs[o]
            /\ disk'.recs[s] # None => Fits(s, disk'.recs[s].branch),
         NEW k, task' = [task EXCEPT ![t] = k],
         Working(k) => k.sid = s /\ k.local.branch = recs'[s].branch
  PROVE  RecordBranches'
  <1>1. task'[t] = k /\ \A u \in Tasks \ {t} : task'[u] = task[u]
    BY DEF BranchInv, Inv, ControlInv, ControlOK
  <1>2. Exclusive(recs')
    BY DEF Exclusive, Fits, BranchInv, RecordBranches
  <1>3. \A o \in Sessions : recs'[o] # None => recs'[o].branch \in used'
    BY DEF Drawn, Fits, BranchInv, RecordBranches
  <1>4. \A o \in Sessions : disk'.recs[o] # None => disk'.recs[o].branch \in used'
    BY DEF Drawn, Fits, BranchInv, RecordBranches
  <1>5. \A u \in Tasks : Working(task'[u]) =>
           task'[u].local.branch = recs'[task'[u].sid].branch
    <2> SUFFICES ASSUME NEW u \in Tasks, u # t, Working(task[u])
                 PROVE  task[u].local.branch = recs'[task[u].sid].branch
      BY <1>1
    <2>1. task[u].sid \in Sessions /\ HeldSession(task[u], task[u].sid)
      BY WorkingOK DEF BranchInv, Inv, HeldSession, Working
    <2>2. task[u].sid # s
      BY <2>1, MineIsMine DEF BranchInv, Inv
    <2> QED  BY <2>1, <2>2 DEF BranchInv, RecordBranches
  <1>6. Exclusive(disk'.recs)
    BY DEF Exclusive, Fits, BranchInv, RecordBranches
  <1> QED
    BY <1>2, <1>3, <1>4, <1>5, <1>6 DEF RecordBranches, Exclusive, Drawn, Working

LEMMA BranchRelease ==
  ASSUME BranchInv, used \subseteq used', NEW t \in Tasks, NEW k, ~Working(k),
         task' = [task EXCEPT ![t] = k], UNCHANGED <<recs, disk>>
  PROVE  RecordBranches'
  BY DEF BranchInv, RecordBranches, Inv, ControlInv, ControlOK, Exclusive, Drawn, Working

LEMMA BranchFailed ==
  ASSUME BranchInv, used \subseteq used', NEW t \in Tasks, NEW s \in Sessions, Mine(t, s),
         NEW r \in Stores, r[s] \in BoundRecord, \A o \in Sessions \ {s} : r[o] = recs[o],
         Fits(s, r[s].branch),
         NEW d, NEW code \in Failure, Failed(t, s, code, r, d),
         MaybeSaved \/ disk' = [recs |-> r, debts |-> d]
  PROVE  RecordBranches'
  <1>1. recs' = Mark(r, s, "failed", code) /\ "failed" \in Lifecycle
    BY DEF Failed, Lifecycle
  <1>2. \A o \in Sessions \ {s} : recs'[o] = recs[o]
    BY <1>1, MarkOK
  <1>3. recs'[s].branch = r[s].branch
    BY <1>1 DEF Mark, Stores, BoundRecord, Record
  <1>4. disk' = disk \/ disk'.recs = recs' \/ disk'.recs = r
    BY DEF MaybeSaved, Saved
  <1>5. task' = [task EXCEPT ![t] = Idle] /\ ~Working(Idle)
    BY IdleOK DEF Failed, Release
  <1> QED  BY <1>2, <1>3, <1>4, <1>5, BranchStep

LEMMA BranchFailWhereItStands ==
  ASSUME BranchInv, used \subseteq used', NEW t \in Tasks, NEW s \in Sessions, Mine(t, s),
         recs[s] \in BoundRecord,
         NEW f, FailHere(t, s) \/ FailInjected(t, f, s)
  PROVE  RecordBranches'
  <1>1. Fail(t, s, "other", recs, debts) /\ recs \in Stores
    BY DEF FailHere, FailInjected, BranchInv, Inv, ControlInv, ControlOK
  <1>2. Fits(s, recs[s].branch)
    BY NoneIsNoRecord, OwnBranchFits DEF BoundRecord
  <1> QED  BY <1>1, <1>2, BranchFailed DEF Failure, Fail

LEMMA BranchPersist ==
  ASSUME BranchInv, used \subseteq used', NEW t \in Tasks, NEW s \in Sessions, Mine(t, s),
         NEW r \in Stores, r[s] \in BoundRecord, \A o \in Sessions \ {s} : r[o] = recs[o],
         Fits(s, r[s].branch),
         NEW d, NEW k, Working(k) => k.sid = s /\ k.local.branch = r[s].branch,
         TryPersist(t, s, r, d, k)
  PROVE  RecordBranches'
  <1>1. CASE /\ Failed(t, s, "other", r, d)
             /\ MaybeSaved \/ disk' = [recs |-> r, debts |-> d]
    BY <1>1, BranchFailed DEF Failure
  <1>2. CASE recs' = r /\ task' = [task EXCEPT ![t] = k] /\ Saved
    BY <1>2, BranchStep DEF Saved
  <1> QED  BY <1>1, <1>2 DEF TryPersist

\* A task at work puts a record under a branch that fits.
LEMMA BranchPut ==
  ASSUME BranchInv, used \subseteq used', NEW t \in Tasks, Working(task[t]),
         NEW l \in BoundRecord, Fits(task[t].sid, l.branch),
         NEW d, NEW k, Working(k) => k.sid = task[t].sid /\ k.local.branch = l.branch,
         TryPersist(t, task[t].sid, [recs EXCEPT ![task[t].sid] = l], d, k)
  PROVE  RecordBranches'
  <1> DEFINE s == task[t].sid
             r == [recs EXCEPT ![s] = l]
  <1>0. ControlInv  BY DEF BranchInv, Inv
  <1>1. r \in Stores /\ r[s] = l /\ \A o \in Sessions \ {s} : r[o] = recs[o]
    BY <1>0, WorkingOK DEF Stores
  <1>2. TryPersist(t, s, r, d, k)  OBVIOUS
  <1> HIDE DEF r
  <1> QED  BY <1>0, <1>1, <1>2, WorkingOK, BranchPersist

\* A task at work moves on, its record and its copy as they were.
LEMMA BranchMove ==
  ASSUME BranchInv, used \subseteq used', NEW t \in Tasks, Working(task[t]),
         UNCHANGED <<recs, disk>>, NEW k, task' = [task EXCEPT ![t] = k],
         k.sid = task[t].sid, k.local = task[t].local
  PROVE  RecordBranches'
  <1>0. ControlInv  BY DEF BranchInv, Inv
  <1>1. recs[task[t].sid] # None
    BY <1>0, WorkingOK, NoneIsNoRecord DEF BoundRecord
  <1>2. Fits(task[t].sid, recs[task[t].sid].branch)
    BY <1>0, <1>1, WorkingOK, OwnBranchFits
  <1>3. k.local.branch = recs[task[t].sid].branch  BY DEF BranchInv, RecordBranches
  <1> QED  BY <1>0, <1>2, <1>3, WorkingOK, BranchStep

LEMMA BranchClaim ==
  ASSUME BranchInv, used \subseteq used', NEW t \in Tasks, NEW s \in Sessions,
         SessionFree(s), recs[s] # None,
         NEW kind, NEW seen, NEW life \in {"closing", "recycling"},
         Claim(t, s, kind, seen, life)
  PROVE  RecordBranches'
  <1> DEFINE k == [Idle EXCEPT !.pc = "flush", !.kind = kind, !.sid = s,
                               !.seen = seen, !.local = recs[s]]
             r == Mark(recs, s, life, "none")
  <1>1. recs \in Stores /\ recs[s] \in BoundRecord /\ Mine(t, s)
    BY DEF BranchInv, Inv, ControlInv, ControlOK, Stores, Mine
  <1>2. Fits(s, recs[s].branch)  BY OwnBranchFits
  <1>3. CASE Fail(t, s, "legacy_ownership_ambiguous", recs, debts)
    BY <1>1, <1>2, <1>3, BranchFailed DEF Failure, Fail
  <1>4. CASE FailHere(t, s)
    BY <1>1, <1>4, BranchFailWhereItStands
  <1>5. CASE TryPersist(t, s, r, debts, k)
    <2>1. life \in Lifecycle /\ "none" \in Failure  BY DEF Lifecycle, Failure
    <2>2. r \in Stores /\ r[s] \in BoundRecord /\ \A o \in Sessions \ {s} : r[o] = recs[o]
      BY <1>1, <2>1, MarkOK
    <2>3. r[s].branch = recs[s].branch
      BY <1>1 DEF Mark, Stores, BoundRecord, Record
    <2>4. k.sid = s /\ k.local = recs[s]
      BY DEF Idle
    <2> HIDE DEF r, k
    <2> QED  BY <1>1, <1>2, <1>5, <2>2, <2>3, <2>4, BranchPersist
  <1> QED  BY <1>3, <1>4, <1>5 DEF Claim

LEMMA BranchRequest ==
  ASSUME BranchInv, used \subseteq used', NEW t \in Tasks, NEW s \in Sessions, Request(t, s)
  PROVE  RecordBranches'
  <1>1. ASSUME NEW kind, OpenBegin(t, s, kind)  PROVE RecordBranches'
    <2> DEFINE k == [Idle EXCEPT !.pc = "orphan", !.kind = kind, !.sid = s,
                                 !.local = NewRecord(s)]
               r == [recs EXCEPT ![s] = NewRecord(s)]
    <2>1. Mine(t, s) /\ TryPersist(t, s, r, debts, k)
      BY <1>1 DEF OpenBegin, Mine
    <2>2. r \in Stores /\ r[s] = NewRecord(s) /\ \A o \in Sessions \ {s} : r[o] = recs[o]
      BY NewRecordOK DEF Stores, BranchInv, Inv, ControlInv, ControlOK
    <2>3. k.sid = s /\ k.local = NewRecord(s)  BY DEF Idle
    <2>4. Fits(s, s)
      BY <1>1 DEF OpenBegin, Fits, BranchInv, RecordBranches, Drawn
    <2>5. NewRecord(s).branch = s  BY DEF NewRecord
    <2> HIDE DEF r, k
    <2> QED  BY <2>1, <2>2, <2>3, <2>4, <2>5, NewRecordOK, BranchPersist
  <1>2. CASE CloseBegin(t, s)
    BY <1>2, BranchClaim DEF CloseBegin
  <1>3. CASE RecycleBegin(t, s)
    BY <1>3, BranchClaim DEF RecycleBegin
  <1>4. ASSUME NEW kind, Observed(t, s, kind), UNCHANGED <<recs, disk>>
        PROVE  RecordBranches'
    <2> DEFINE k == [Idle EXCEPT !.pc = "observed", !.kind = kind, !.sid = s,
                                 !.seen = recs[s].gen]
    <2>1. task' = [task EXCEPT ![t] = k] /\ ~Working(k)
      BY <1>4 DEF Observed, Working, Idle
    <2> HIDE DEF k
    <2> QED  BY <1>4, <2>1, BranchRelease
  <1> QED
    BY <1>1, <1>2, <1>3, <1>4 DEF Request, FinishObserve, ReapObserve, memory

LEMMA BranchObserved ==
  ASSUME BranchInv, used \subseteq used', NEW t \in Tasks, FinishBegin(t) \/ ReapBegin(t)
  PROVE  RecordBranches'
  <1>1. task[t].sid \in Sessions
    BY DEF FinishBegin, ReapBegin, BranchInv, Inv, ControlInv, ControlOK, LocalOK
  <1>2. CASE Release(t) /\ UNCHANGED <<memory, disk>>
    BY <1>2, IdleOK, BranchRelease DEF memory, Release
  <1>3. CASE FinishBegin(t) /\ ~(Release(t) /\ UNCHANGED <<memory, disk>>)
    BY <1>1, <1>3, BranchClaim DEF FinishBegin
  <1>4. CASE ReapBegin(t) /\ ~(Release(t) /\ UNCHANGED <<memory, disk>>)
    BY <1>1, <1>4, BranchClaim DEF ReapBegin
  <1> QED  BY <1>2, <1>3, <1>4

\* open takes its own fresh branch or an orphan's; an orphan is in no record.
LEMMA OrphanFits ==
  ASSUME BranchInv, used \subseteq used', NEW s \in Sessions, NEW b \in Orphans
  PROVE  b \in Sessions /\ Fits(s, b)
  BY DEF Orphans, Fits, BranchInv, WorldBranches

LEMMA BranchOpen ==
  ASSUME BranchInv, used \subseteq used', NEW t \in Tasks,
         OpenMirror(t) \/ OpenImage(t) \/ Layer(t) \/ Create(t) \/ Boot(t)
         \/ RecycleRebind(t)
  PROVE  RecordBranches'
  <1> DEFINE s == task[t].sid
             mine == task[t].local
  <1>0. ControlInv  BY DEF BranchInv, Inv
  <1>1. Working(task[t])
    BY DEF OpenMirror, OpenImage, Layer, Create, Boot, RecycleRebind, Working
  <1>2. task[t] \in TaskType /\ s \in Sessions /\ mine \in BoundRecord
        /\ Mine(t, s) /\ recs[s] \in BoundRecord
    BY <1>0, <1>1, WorkingOK
  <1>3. ASSUME NEW f, FailInjected(t, f, s) \/ FailHere(t, s)
        PROVE  RecordBranches'
    BY <1>2, <1>3, BranchFailWhereItStands
  <1>4. ASSUME NEW l \in BoundRecord, Fits(s, l.branch), NEW p,
               TryPersist(t, s, [recs EXCEPT ![s] = l], debts,
                          [task[t] EXCEPT !.pc = p, !.local = l])
        PROVE  RecordBranches'
    <2> DEFINE k == [task[t] EXCEPT !.pc = p, !.local = l]
    <2>1. k.sid = s /\ k.local = l  BY <1>2 DEF TaskType
    <2> HIDE DEF k
    <2> QED  BY <1>1, <1>4, <2>1, BranchPut DEF k
  <1>5. Fits(s, mine.branch)
    BY <1>1, LocalBranchFits
  <1>6. CASE OpenMirror(t)
    <2>1. \A b \in Sessions : /\ [mine EXCEPT !.branch = b] \in BoundRecord
                              /\ [mine EXCEPT !.branch = b].branch = b
      BY <1>2 DEF BoundRecord, Record
    <2>2. mine.branch \in Sessions /\ \A b \in Orphans : b \in Sessions /\ Fits(s, b)
      BY <1>2, OrphanFits DEF BoundRecord, Record
    <2>3. ASSUME NEW b \in Sessions, Fits(s, b),
                 TryPersist(t, s, [recs EXCEPT ![s] = [mine EXCEPT !.branch = b]], debts,
                   [task[t] EXCEPT !.pc = "image", !.local = [mine EXCEPT !.branch = b]])
          PROVE  RecordBranches'
      <3> DEFINE l == [mine EXCEPT !.branch = b]
      <3>1. l \in BoundRecord /\ l.branch = b  BY <2>1
      <3>2. TryPersist(t, s, [recs EXCEPT ![s] = l], debts,
                       [task[t] EXCEPT !.pc = "image", !.local = l])
        BY <2>3
      <3> HIDE DEF l
      <3> QED  BY <1>4, <2>3, <3>1, <3>2
    <2> QED  BY <1>3, <1>5, <1>6, <2>2, <2>3 DEF OpenMirror
  <1>7. CASE OpenImage(t)
    <2>1. CASE Goto(t, "layer") /\ UNCHANGED <<memory, disk>>
      <3> DEFINE k == [task[t] EXCEPT !.pc = "layer"]
      <3>1. task' = [task EXCEPT ![t] = k] /\ k.sid = s /\ k.local = mine
        BY <1>0, <1>2, <2>1 DEF Goto, ControlInv, ControlOK, TaskType
      <3> HIDE DEF k
      <3> QED  BY <1>1, <2>1, <3>1, BranchMove DEF memory
    <2> QED  BY <1>3, <1>7, <2>1 DEF OpenImage
  <1>8. CASE Layer(t)
    <2> DEFINE l == IF task[t].kind = "recycle"
                      THEN [mine EXCEPT !.owned = FALSE, !.life = "recycling"]
                      ELSE mine
    <2>1. l \in BoundRecord /\ l.branch = mine.branch
      BY <1>2 DEF BoundRecord, Record, Lifecycle
    <2>2. TryPersist(t, s, [recs EXCEPT ![s] = l], debts,
                     [task[t] EXCEPT !.pc = "create", !.local = l])
      BY <1>8 DEF Layer
    <2> HIDE DEF l
    <2> QED  BY <1>4, <1>5, <2>1, <2>2
  <1>9. CASE Create(t)
    <2> DEFINE l == [mine EXCEPT !.owned = TRUE]
    <2>1. l \in BoundRecord /\ l.branch = mine.branch
      BY <1>2 DEF BoundRecord, Record
    <2>2. CASE TryPersist(t, s, [recs EXCEPT ![s] = l], debts,
                          [task[t] EXCEPT !.pc = "boot", !.local = l])
      <3> HIDE DEF l
      <3> QED  BY <1>4, <1>5, <2>1, <2>2
    <2> QED  BY <1>3, <1>9, <2>2 DEF Create
  <1>10. CASE Boot(t)
    <2> DEFINE l == [mine EXCEPT !.life = "active", !.err = "none"]
    <2>1. l \in BoundRecord /\ l.branch = mine.branch
      BY <1>2 DEF BoundRecord, Record, Lifecycle, Failure
    <2>2. CASE TryPersist(t, s, [recs EXCEPT ![s] = l], debts, Idle)
      <3> HIDE DEF l
      <3> QED  BY <1>1, <1>5, <2>1, <2>2, IdleOK, BranchPut
    <2> QED  BY <1>3, <1>10, <2>2 DEF Boot
  <1>11. CASE RecycleRebind(t)
    <2> DEFINE l == [mine EXCEPT !.gen = @ + 1, !.bound = TRUE, !.owned = FALSE]
    <2>1. mine.gen \in 0..MaxGen /\ mine.gen < MaxGen
      BY <1>0, <1>1, <1>2, <1>11
      DEF RecycleRebind, ControlInv, ControlOK, LocalOK, BoundRecord, Record
    <2>2. mine.gen + 1 \in 0..MaxGen /\ mine.gen + 1 \in 1..MaxGen
      BY <2>1, ConstantsAssumption
    <2>3. l \in Record  BY <1>2, <2>2 DEF BoundRecord, Record
    <2>4. l.gen = mine.gen + 1 /\ l.branch = mine.branch
      BY <1>2 DEF BoundRecord, Record
    <2>5. l \in BoundRecord  BY <2>2, <2>3, <2>4 DEF BoundRecord
    <2>6. CASE TryPersist(t, s, [recs EXCEPT ![s] = l], debts,
                          [task[t] EXCEPT !.pc = "layer", !.local = l])
      <3> HIDE DEF l
      <3> QED  BY <1>4, <1>5, <2>4, <2>5, <2>6
    <2> QED  BY <1>3, <1>11, <2>6 DEF RecycleRebind
  <1> QED  BY <1>6, <1>7, <1>8, <1>9, <1>10, <1>11

LEMMA BranchClose ==
  ASSUME BranchInv, used \subseteq used', NEW t \in Tasks,
         Flush(t) \/ CloseMerge(t) \/ RecycleFetch(t) \/ Publish(t) \/ Destroy(t)
  PROVE  RecordBranches'
  <1> DEFINE s == task[t].sid
  <1>0. ControlInv  BY DEF BranchInv, Inv
  <1>1. Working(task[t])
    BY DEF Flush, CloseMerge, RecycleFetch, Publish, Destroy, Working
  <1>2. task[t] \in TaskType /\ s \in Sessions /\ Mine(t, s) /\ recs[s] \in BoundRecord
        /\ recs \in Stores
    BY <1>0, <1>1, WorkingOK
  <1>3. ASSUME NEW f, FailInjected(t, f, s) \/ FailHere(t, s)
        PROVE  RecordBranches'
    BY <1>2, <1>3, BranchFailWhereItStands
  <1>4. CASE FetchFails(t)
    BY <1>3, <1>4 DEF FetchFails
  <1>5. ASSUME NEW p, Goto(t, p), UNCHANGED <<recs, disk>>  PROVE RecordBranches'
    <2> DEFINE k == [task[t] EXCEPT !.pc = p]
    <2>1. k.sid = task[t].sid /\ k.local = task[t].local
      BY <1>2 DEF TaskType
    <2>2. task' = [task EXCEPT ![t] = k]
      BY <1>0, <1>5 DEF Goto, ControlInv, ControlOK
    <2> HIDE DEF k
    <2> QED  BY <1>1, <1>5, <2>1, <2>2, BranchMove
  <1>6. CASE Flush(t)
    BY <1>3, <1>5, <1>6 DEF Flush, memory
  <1>7. CASE RecycleFetch(t)
    BY <1>4, <1>5, <1>7 DEF RecycleFetch, Fetched, memory
  <1>8. CASE CloseMerge(t)
    <2>1. ASSUME UNCHANGED <<recs, disk>>, NEW d,
                 task' = [task EXCEPT ![t] = [@ EXCEPT !.pc = "publish", !.debt = d]]
          PROVE  RecordBranches'
      <3> DEFINE k == [task[t] EXCEPT !.pc = "publish", !.debt = d]
      <3>1. k.sid = task[t].sid /\ k.local = task[t].local
        BY <1>2 DEF TaskType
      <3>2. task' = [task EXCEPT ![t] = k]  BY <2>1
      <3> HIDE DEF k
      <3> QED  BY <1>1, <2>1, <3>1, <3>2, BranchMove
    <2> QED  BY <1>4, <1>8, <2>1 DEF CloseMerge, Fetched, memory
  <1>9. CASE Publish(t)
    <2> DEFINE k == [task[t] EXCEPT !.pc = "destroy"]
    <2>1. k.sid = s /\ k.local = task[t].local  BY <1>2 DEF TaskType
    <2>2. recs[s].branch = task[t].local.branch /\ Fits(s, recs[s].branch)
      BY <1>1, LocalBranchFits DEF BranchInv, RecordBranches
    <2>3. ASSUME NEW d, TryPersist(t, s, recs, d, k)  PROVE RecordBranches'
      <3> HIDE DEF k
      <3> QED  BY <1>2, <2>1, <2>2, <2>3, BranchPersist
    <2> QED  BY <1>3, <1>9, <2>3 DEF Publish
  <1>10. CASE Destroy(t)
    BY <1>3, <1>5, <1>10 DEF Destroy, memory
  <1> QED  BY <1>6, <1>7, <1>8, <1>9, <1>10

LEMMA BranchRemove ==
  ASSUME BranchInv, used \subseteq used', NEW t \in Tasks, CloseRemove(t) \/ ReapRemove(t)
  PROVE  RecordBranches'
  <1>1. Working(task[t])  BY DEF CloseRemove, ReapRemove, Working
  <1>2. recs' = [recs EXCEPT ![task[t].sid] = None] /\ task' = [task EXCEPT ![t] = Idle]
        /\ (disk' = disk \/ disk'.recs = recs')
    BY DEF CloseRemove, ReapRemove, Release, MaybeSaved, Saved
  <1>3. ControlInv  BY DEF BranchInv, Inv
  <1>4. recs'[task[t].sid] = None /\ \A o \in Sessions \ {task[t].sid} : recs'[o] = recs[o]
    BY <1>1, <1>2, <1>3, WorkingOK DEF Stores
  <1>5. task[t].sid \in Sessions /\ Mine(t, task[t].sid)  BY <1>1, <1>3, WorkingOK
  <1>6. \/ disk' = disk
        \/ /\ \A o \in Sessions \ {task[t].sid} : disk'.recs[o] = recs[o]
           /\ disk'.recs[task[t].sid] = None
    BY <1>2, <1>4
  <1>7. ~Working(Idle) /\ task' = [task EXCEPT ![t] = Idle]  BY <1>2, IdleOK
  <1> HIDE DEF Idle
  <1> QED  BY <1>4, <1>5, <1>6, <1>7, BranchStep

LEMMA BranchCancel ==
  ASSUME BranchInv, used \subseteq used', NEW t \in Tasks, Cancel(t)
  PROVE  RecordBranches'
  <1>1. UNCHANGED <<recs, disk>>  BY DEF Cancel, memory
  <1>2. CASE Release(t)  BY <1>1, <1>2, IdleOK, BranchRelease DEF Release
  <1>3. ASSUME NEW p \in {"mirror_worker", "session_worker"}, Goto(t, p)
        PROVE  RecordBranches'
    <2> DEFINE k == [task[t] EXCEPT !.pc = p]
    <2>1. task' = [task EXCEPT ![t] = k] /\ ~Working(k)
      BY <1>3 DEF Goto, BranchInv, Inv, ControlInv, ControlOK, TaskType, Working
    <2> HIDE DEF k
    <2> QED  BY <1>1, <2>1, BranchRelease
  <1> QED  BY <1>2, <1>3 DEF Cancel

\* Hydration changes lifecycles and errors, no branch.
LEMMA BranchCrash ==
  ASSUME BranchInv, Crash
  PROVE  RecordBranches'
  <1> DEFINE r == disk.recs
  <1>1. r \in Stores  BY DEF BranchInv, Inv, ControlInv, ControlOK
  <1>2. \A s \in Sessions : /\ (Hydrate(r)[s] # None) = (r[s] # None)
                            /\ r[s] # None => Hydrate(r)[s].branch = r[s].branch
    <2> SUFFICES ASSUME NEW s \in Sessions
                 PROVE  /\ (Hydrate(r)[s] # None) = (r[s] # None)
                        /\ r[s] # None => Hydrate(r)[s].branch = r[s].branch
      OBVIOUS
    <2>1. r[s] # None => r[s] \in Record
      BY <1>1 DEF Stores, BoundRecord
    <2>2. r[s] # None => /\ [r[s] EXCEPT !.life = "failed", !.err = "legacy_ownership_ambiguous"] \in Record
                         /\ [r[s] EXCEPT !.life = "failed", !.err = "interrupted"] \in Record
      BY <2>1 DEF Record, Lifecycle, Failure
    <2> QED  BY <2>1, <2>2, NoneIsNoRecord DEF Hydrate, Record
  <1>3. recs' = Hydrate(r) /\ disk' = disk /\ used' = used /\ \A t \in Tasks : ~Working(task'[t])
    BY IdleOK DEF Crash, history
  <1> HIDE DEF r
  <1>4. Exclusive(r) /\ Drawn(r)  BY DEF r, BranchInv, RecordBranches
  <1>5. Exclusive(Hydrate(r)) /\ Drawn(Hydrate(r))
    BY <1>2, <1>4 DEF Exclusive, Drawn
  <1> QED  BY <1>3, <1>4, <1>5 DEF RecordBranches, Exclusive, Drawn, r

\* Git and the containers get no branch that was not drawn.
LEMMA WorldBranchStep ==
  ASSUME BranchInv, [Next]_vars
  PROVE  WorldBranches' /\ used \subseteq used'
  <1>0. ControlInv /\ WorldOK /\ WorldBranches  BY DEF BranchInv, Inv
  <1> DEFINE Git == UNCHANGED <<heads, originBranch, conts>>
  <1>1. ASSUME UNCHANGED <<heads, originBranch, conts>>, used \subseteq used'
        PROVE  WorldBranches' /\ used \subseteq used'
    BY <1>0, <1>1 DEF WorldBranches
  <1>2. ASSUME NEW n \in Names, CanPush(n), originBranch' = Pushed(n),
               UNCHANGED <<heads, conts, used>>
        PROVE  WorldBranches' /\ used \subseteq used'
    <2>1. conts[n] \in Workspace /\ conts[n].branch \in used
      BY <1>0, <1>2 DEF CanPush, WorldOK, WorldBranches
    <2> QED  BY <1>0, <1>2, <2>1 DEF Pushed, WorldOK, WorldBranches
  <1>3. ASSUME NEW t \in Tasks, Working(task[t]), Bootstrap(t), UNCHANGED <<heads, used>>
        PROVE  WorldBranches' /\ used \subseteq used'
    <2> DEFINE b == task[t].local.branch
               n == Container(task[t].sid, task[t].local)
               tree == IF Resumes(t) THEN originBranch[b] ELSE originMaster
    <2>1. b \in used  BY <1>3, LocalBranchDrawn
    <2>2. n \in Names /\ conts[n] # None /\ conts[n] \in Workspace
      BY <1>0, <1>3, WorkingOK, ContainerOK DEF Bootstrap, WorldOK
    <2>3. conts' = [conts EXCEPT ![n].tree = tree, ![n].booted = TRUE]
          /\ originBranch' = [originBranch EXCEPT ![b] = tree]
      BY <1>3 DEF Bootstrap
    <2>4. originBranch \in [Sessions -> (SUBSET Work) \cup {None}]
          /\ conts \in [Names -> Workspace \cup {None}]
      BY <1>0 DEF WorldOK
    <2> HIDE DEF b, n, tree
    <2>5. \A a \in Sessions : originBranch'[a] # None => a \in used
      BY <1>0, <2>1, <2>3, <2>4 DEF WorldBranches
    <2>6. \A m \in Names : conts'[m] # None => conts'[m].branch \in used
      <3> SUFFICES ASSUME NEW m \in Names, conts'[m] # None
                   PROVE  conts'[m].branch \in used
        OBVIOUS
      <3>1. CASE m # n  BY <1>0, <2>2, <2>3, <2>4, <3>1 DEF WorldBranches
      <3>2. CASE m = n
        <4>1. conts'[n].branch = conts[n].branch
          BY <2>2, <2>3, <2>4 DEF Workspace
        <4> QED  BY <1>0, <2>2, <3>2, <4>1 DEF WorldBranches
      <3> QED  BY <3>1, <3>2
    <2> QED  BY <1>0, <1>3, <2>5, <2>6 DEF WorldBranches
  <1>4. ASSUME NEW t \in Tasks, NEW s \in Sessions, Request(t, s)
        PROVE  WorldBranches' /\ used \subseteq used'
    <2>1. ASSUME NEW kind, OpenBegin(t, s, kind)
          PROVE  UNCHANGED <<heads, originBranch, conts>> /\ used \subseteq used'
      BY <2>1 DEF OpenBegin, git
    <2>2. CASE FinishObserve(t, s)
      <3>1. recs[s] \in BoundRecord
        BY <1>0, <2>2 DEF FinishObserve, ControlInv, ControlOK, Stores
      <3>2. Container(s, recs[s]) \in Names  BY <3>1, ContainerOK
      <3> QED  BY <1>2, <2>2, <3>2 DEF FinishObserve, history
    <2>3. CASE CloseBegin(t, s) \/ RecycleBegin(t, s) \/ ReapObserve(t, s)
      BY <1>1, <2>3 DEF CloseBegin, RecycleBegin, ReapObserve, Claim, git, history
    <2> QED  BY <1>1, <1>4, <2>1, <2>2, <2>3 DEF Request
  <1>5. ASSUME NEW t \in Tasks, CloseMerge(t) \/ RecycleFetch(t)
        PROVE  WorldBranches' /\ used \subseteq used'
    <2>1. Working(task[t])  BY <1>5 DEF CloseMerge, RecycleFetch, Working
    <2>2. task[t].local.branch \in used  BY <2>1, LocalBranchDrawn
    <2>3. heads' \subseteq heads \cup {task[t].local.branch}
      BY <1>5 DEF CloseMerge, RecycleFetch, FetchFails, Fetched
    <2>4. UNCHANGED <<conts, originBranch, used>>
      BY <1>5 DEF CloseMerge, RecycleFetch, history
    <2> QED  BY <1>0, <2>2, <2>3, <2>4 DEF WorldBranches
  <1>6. ASSUME NEW t \in Tasks, FinishBegin(t) \/ ReapBegin(t)
        PROVE  WorldBranches' /\ used \subseteq used'
    BY <1>1, <1>6 DEF FinishBegin, ReapBegin, Claim, git, history
  <1>7. ASSUME NEW t \in Tasks, Running(t)
        PROVE  WorldBranches' /\ used \subseteq used'
    <2>1. CASE OpenMirror(t) \/ OpenImage(t) \/ Layer(t) \/ Publish(t) \/ WorkerDone(t)
      BY <1>1, <2>1 DEF OpenMirror, OpenImage, Layer, Publish, WorkerDone, git, history
    <2>2. CASE Create(t)
      <3> DEFINE n == Container(task[t].sid, task[t].local)
                 c == [branch |-> [task[t].local EXCEPT !.owned = TRUE].branch,
                       tree |-> {}, booted |-> FALSE]
      <3>1. Working(task[t])  BY <2>2 DEF Create, Working
      <3>2. task[t].local.branch \in used /\ task[t].local \in BoundRecord
        BY <1>0, <3>1, LocalBranchDrawn, WorkingOK
      <3>3. c.branch \in used  BY <3>2 DEF BoundRecord, Record
      <3>4. UNCHANGED conts \/ conts' = [conts EXCEPT ![n] = c]
        BY <2>2 DEF Create, Allocate
      <3>5. UNCHANGED <<heads, originBranch, used>>
        BY <2>2 DEF Create, git, history
      <3>6. conts \in [Names -> Workspace \cup {None}]  BY <1>0 DEF WorldOK
      <3> HIDE DEF n, c
      <3> QED  BY <1>0, <3>3, <3>4, <3>5, <3>6 DEF WorldBranches
    <2>3. CASE Boot(t)
      <3>1. Working(task[t]) /\ UNCHANGED <<heads, used>>
        BY <2>3 DEF Boot, Working, history
      <3>2. Bootstrap(t) \/ UNCHANGED <<conts, originBranch>>
        BY <2>3 DEF Boot
      <3> QED  BY <1>1, <1>3, <3>1, <3>2
    <2>4. CASE Flush(t)
      <3>1. Working(task[t])  BY <2>4 DEF Flush, Working
      <3>2. Runtime(t) \in Names  BY <1>0, <3>1, WorkingOK, ContainerOK DEF Runtime
      <3>3. \/ UNCHANGED originBranch
            \/ CanPush(Runtime(t)) /\ originBranch' = Pushed(Runtime(t))
        BY <2>4 DEF Flush
      <3>4. UNCHANGED <<heads, conts, used>>  BY <2>4 DEF Flush, history
      <3> QED  BY <1>1, <1>2, <3>2, <3>3, <3>4
    <2>5. CASE Destroy(t) \/ RecycleRebind(t)
      <3>1. UNCHANGED <<heads, originBranch, used>>
        BY <2>5 DEF Destroy, RecycleRebind, git, history
      <3>2. UNCHANGED conts \/ conts' = [conts EXCEPT ![Runtime(t)] = None]
        BY <2>5 DEF Destroy, RecycleRebind
      <3>3. conts \in [Names -> Workspace \cup {None}]  BY <1>0 DEF WorldOK
      <3> QED  BY <1>0, <3>1, <3>2, <3>3 DEF WorldBranches
    <2>6. CASE CloseRemove(t) \/ ReapRemove(t)
      <3>1. UNCHANGED <<conts, used>> /\ heads' \subseteq heads
        BY <2>6 DEF CloseRemove, ReapRemove, git
      <3>2. \/ UNCHANGED originBranch
            \/ originBranch' = [originBranch EXCEPT ![task[t].local.branch] = None]
        BY <2>6 DEF CloseRemove, ReapRemove, git
      <3>3. originBranch \in [Sessions -> (SUBSET Work) \cup {None}]  BY <1>0 DEF WorldOK
      <3> QED  BY <1>0, <3>1, <3>2, <3>3 DEF WorldBranches
    <2> QED  BY <1>7, <2>1, <2>2, <2>3, <2>4, <2>5, <2>6 DEF Running
  <1>8. ASSUME NEW s \in Sessions, NEW w \in Work, Edit(s, w) \/ Commit(s, w)
        PROVE  WorldBranches' /\ used \subseteq used'
    <2> DEFINE n == Container(s, recs[s])
    <2>1. DriverMayWrite(s, w) /\ Wrote(s, w)  BY <1>8 DEF Edit, Commit
    <2>2. recs[s] \in BoundRecord
      BY <1>0, <2>1 DEF DriverMayWrite, ControlInv, ControlOK, Stores
    <2>3. n \in Names  BY <2>2, ContainerOK
    <2>4. conts[n] \in Workspace /\ conts[n].branch \in used
      BY <1>0, <2>1, <2>3 DEF DriverMayWrite, WorldOK, WorldBranches
    <2>5. conts' = [conts EXCEPT ![n].tree = @ \cup {w}]
      BY <2>1 DEF Wrote
    <2>6. \/ UNCHANGED originBranch
          \/ originBranch' = [originBranch EXCEPT ![conts[n].branch] = conts[n].tree \cup {w}]
      BY <1>8 DEF Edit, Commit, git
    <2>7. UNCHANGED <<heads, used>>  BY <1>8 DEF Edit, Commit, git
    <2>8. originBranch \in [Sessions -> (SUBSET Work) \cup {None}]
          /\ conts \in [Names -> Workspace \cup {None}]
      BY <1>0 DEF WorldOK
    <2> HIDE DEF n
    <2>9. conts'[n].branch = conts[n].branch /\ \A m \in Names \ {n} : conts'[m] = conts[m]
      BY <2>3, <2>4, <2>5, <2>8 DEF Workspace
    <2>10. \A m \in Names : conts'[m] # None => conts'[m].branch \in used
      BY <1>0, <2>4, <2>9 DEF WorldBranches
    <2>11. \A b \in Sessions : originBranch'[b] # None => b \in used
      BY <1>0, <2>4, <2>6, <2>8 DEF WorldBranches
    <2> QED  BY <1>0, <2>7, <2>10, <2>11 DEF WorldBranches
  <1>9. ASSUME NEW t \in Tasks, Cancel(t)
        PROVE  WorldBranches' /\ used \subseteq used'
    <2>1. UNCHANGED <<heads, used>>  BY <1>9 DEF Cancel, history
    <2>2. UNCHANGED <<conts, originBranch>> \/ (Working(task[t]) /\ Bootstrap(t))
      BY <1>9 DEF Cancel, Working
    <2> QED  BY <1>1, <1>3, <2>1, <2>2
  <1>10. ASSUME OthersPersist \/ Crash \/ Rest \/ UNCHANGED vars
         PROVE  WorldBranches' /\ used \subseteq used'
    BY <1>1, <1>10 DEF OthersPersist, Crash, Rest, vars, git, history
  <1> QED
    BY <1>4, <1>5, <1>6, <1>7, <1>8, <1>9, <1>10 DEF Next, Locking

LEMMA BranchNext ==
  ASSUME BranchInv, [Next]_vars
  PROVE  BranchInv'
  <1>1. Inv'  BY ControlStep, WorldStep DEF BranchInv, Inv
  <1>2. WorldBranches' /\ used \subseteq used'  BY WorldBranchStep
  <1>3. ASSUME NEW t \in Tasks, Locking(t)  PROVE RecordBranches'
    BY <1>2, <1>3, BranchObserved, BranchClose DEF Locking
  <1>4. ASSUME NEW t \in Tasks, Running(t)  PROVE RecordBranches'
    <2>1. CASE WorkerDone(t)
      BY <1>2, <2>1, IdleOK, BranchRelease DEF WorkerDone, Release, memory
    <2> QED  BY <1>2, <1>4, <2>1, BranchOpen, BranchClose, BranchRemove DEF Running
  <1>5. ASSUME UNCHANGED <<recs, disk, task>>  PROVE RecordBranches'
    BY <1>2, <1>5 DEF BranchInv, RecordBranches, Exclusive, Drawn, Working
  <1>6. ASSUME OthersPersist  PROVE RecordBranches'
    BY <1>2, <1>6 DEF OthersPersist, Saved, memory, BranchInv, RecordBranches, Exclusive,
                      Drawn, Working
  <1>7. RecordBranches'
    BY <1>2, <1>3, <1>4, <1>5, <1>6, BranchRequest, BranchCancel, BranchCrash
    DEF Next, Edit, Commit, Rest, vars, memory
  <1> QED  BY <1>1, <1>2, <1>7 DEF BranchInv

LEMMA BranchInit == Init => BranchInv
  <1> SUFFICES ASSUME Init  PROVE BranchInv
    OBVIOUS
  <1> DEFINE old == [s \in Sessions |-> IF s \in Legacy THEN LegacyRecord(s) ELSE None]
  <1>1. \A s \in Sessions : /\ (Hydrate(old)[s] # None) => s \in Legacy
                            /\ s \in Legacy => Hydrate(old)[s].branch = s
    <2> SUFFICES ASSUME NEW s \in Sessions
                 PROVE  /\ (Hydrate(old)[s] # None) => s \in Legacy
                        /\ s \in Legacy => Hydrate(old)[s].branch = s
      OBVIOUS
    <2>1. CASE s \notin Legacy  BY <2>1 DEF Hydrate
    <2>2. CASE s \in Legacy
      <3>1. LegacyRecord(s) \in Record
        BY ConstantsAssumption DEF LegacyRecord, Record, Lifecycle, Failure
      <3>2. old[s] = LegacyRecord(s) /\ old[s] # None /\ ~old[s].bound
        BY <2>2, <3>1, NoneIsNoRecord DEF LegacyRecord
      <3>3. [old[s] EXCEPT !.life = "failed", !.err = "legacy_ownership_ambiguous"].branch = s
            /\ [old[s] EXCEPT !.life = "failed", !.err = "interrupted"].branch = s
            /\ old[s].branch = s
        BY <3>2 DEF LegacyRecord
      <3> HIDE DEF old
      <3> QED  BY <2>2, <3>2, <3>3 DEF Hydrate
    <2> QED  BY <2>1, <2>2
  <1>2. recs = Hydrate(old) /\ disk.recs = old /\ used = Legacy /\ heads = {}
        /\ task = [t \in Tasks |-> Idle]
        /\ originBranch = [s \in Sessions |-> IF s \in Legacy THEN {} ELSE None]
    BY DEF Init
  <1>3. \A s \in Sessions : (old[s] # None => s \in Legacy /\ old[s].branch = s)
    BY DEF LegacyRecord
  <1>4. \A n \in Names : conts[n] # None => conts[n].branch \in Legacy
    BY DEF Init
  <1> HIDE DEF old
  <1>5. RecordBranches
    BY <1>1, <1>2, <1>3, IdleOK DEF RecordBranches, Exclusive, Drawn
  <1>6. WorldBranches
    BY <1>2, <1>4 DEF WorldBranches
  <1> QED  BY <1>5, <1>6, ControlInit, WorldInit DEF BranchInv, Inv

\* Two records never share a branch: orphan selection in open_inner, a reaper
\* that drops records, and a crash that brings an older snapshot back included.
THEOREM BranchesExclusive == Spec => []BranchExclusive
  <1>1. BranchInv => BranchExclusive
    BY DEF BranchInv, RecordBranches, Exclusive, BranchExclusive
  <1> QED  BY <1>1, BranchInit, BranchNext, PTL DEF Spec

=============================================================================
