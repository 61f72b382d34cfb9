----------------------- MODULE SessionLifecycle_proofs ----------------------
(***************************************************************************)
(* Proofs about SessionLifecycle, for any number of sessions, handlers,    *)
(* reapers, units of work, generations and failures.                       *)
(***************************************************************************)
EXTENDS SessionLifecycle, TLAPS

-----------------------------------------------------------------------------
(* The inductive invariant                                                 *)
(*                                                                         *)
(* Type correctness and mutual exclusion need each other: a task may fail  *)
(* the record of the session it works on only if that record is still      *)
(* there, and it is because no other task holds the session.               *)

\* A record that names its own container has a generation to name it by.
BoundRecord == {r \in Record : r.bound => r.gen \in 1..MaxGen}

TaskType == [pc: Pcs, kind: TaskKinds, sid: Sessions \cup {None},
             seen: 0..MaxGen, local: BoundRecord \cup {None}, debt: BOOLEAN]
Stores   == [Sessions -> BoundRecord \cup {None}]

\* The guards a task owns, as a function of its local state.
Working(k)        == k.pc \notin {"idle", "observed", "mirror_worker", "session_worker"}
HeldSession(k, s) == k.sid = s /\ k.pc \notin {"idle", "observed", "mirror_worker"}
HeldMerge(k) ==
  \/ k.pc \in {"orphan", "image", "publish", "mirror_worker"}
  \/ k.pc \in {"destroy", "remove"} /\ k.kind # "reap"

\* A task at work has a session and a record; a recycle has a generation left.
LocalOK(k) ==
  /\ Working(k) => k.sid \in Sessions /\ k.local \in BoundRecord
  /\ k.pc \in {"observed", "session_worker"} => k.sid \in Sessions
  /\ k.kind = "recycle" /\ k.pc \in {"flush", "mirror", "image"} => k.local.gen < MaxGen
  /\ k.pc = "orphan" => k.kind # "recycle"

\* What the record store, the snapshot and the tasks look like.
ControlOK ==
  /\ recs \in Stores
  /\ debts \subseteq Sessions
  /\ disk \in [recs: Stores, debts: SUBSET Sessions]
  /\ task \in [Tasks -> TaskType]
  /\ \A t \in Tasks : LocalOK(task[t])
  /\ faults \in 0..MaxFaults

\* The record a task works on stays in the store.
RecordHeld == \A t \in Tasks : Working(task[t]) => recs[task[t].sid] \in BoundRecord

ControlInv == ControlOK /\ MutualExclusion /\ RecordHeld

\* Git, the containers and the histories.
WorldOK ==
  /\ conts \in [Names -> Workspace \cup {None}]
  /\ originMaster \subseteq Work
  /\ originBranch \in [Sessions -> (SUBSET Work) \cup {None}]
  /\ mirrorMaster \subseteq Work
  /\ heads \subseteq Sessions
  /\ used \subseteq Sessions
  /\ author \in [Work -> Sessions \cup {None}]
  /\ acked \subseteq Work
  /\ outcome \in [Sessions -> {"none", "merged", "debt", "reaped"}]

Inv == ControlInv /\ WorldOK

LEMMA InvImpliesTypeOK == Inv => TypeOK
  BY DEF Inv, ControlInv, ControlOK, WorldOK, TypeOK, TaskType, Stores, BoundRecord

-----------------------------------------------------------------------------
(* One task moves: what it must respect for ControlInv to hold after.      *)

\* The move is about a session nobody else holds.
Mine(t, s) == HeldSession(task[t], s) \/ SessionFree(s)

LEMMA IdleOK ==
  /\ Idle \in TaskType
  /\ LocalOK(Idle)
  /\ ~Working(Idle) /\ ~HeldMerge(Idle)
  /\ \A s \in Sessions : ~HeldSession(Idle, s)
  BY ConstantsAssumption
  DEF Idle, TaskType, LocalOK, Working, HeldMerge, HeldSession, Pcs, TaskKinds

\* No other task holds a session that is mine.
LEMMA MineIsMine ==
  ASSUME ControlInv, NEW t \in Tasks, NEW s \in Sessions, Mine(t, s),
         NEW u \in Tasks, u # t
  PROVE  ~HeldSession(task[u], s)
  BY DEF ControlInv, MutualExclusion, Mine, SessionFree, HoldsSession, HeldSession

\* Exclusion survives a move that claims only free guards.
LEMMA ExclusionStep ==
  ASSUME ControlInv, NEW t \in Tasks, NEW k \in TaskType,
         task' = [task EXCEPT ![t] = k],
         \A s \in Sessions : HeldSession(k, s) => Mine(t, s),
         HeldMerge(k) => HeldMerge(task[t]) \/ MergeFree
  PROVE  MutualExclusion'
  <1> SUFFICES ASSUME NEW u \in Tasks, u # t
               PROVE  /\ \A s \in Sessions : ~(HeldSession(k, s) /\ HeldSession(task[u], s))
                      /\ ~(HeldMerge(k) /\ HeldMerge(task[u]))
    <2>1. task'[t] = k /\ \A u \in Tasks \ {t} : task'[u] = task[u]
      BY DEF ControlInv, ControlOK
    <2> QED  BY <2>1 DEF ControlInv, MutualExclusion, HoldsSession, HoldsMerge,
                         HeldSession, HeldMerge
  <1>1. \A s \in Sessions : HeldSession(k, s) => ~HeldSession(task[u], s)
    BY MineIsMine
  <1>2. HeldMerge(k) => ~HeldMerge(task[u])
    BY DEF ControlInv, MutualExclusion, MergeFree, HoldsMerge, HeldMerge
  <1> QED  BY <1>1, <1>2

\* A move that rewrites one record, of a session that is mine.
LEMMA StepOK ==
  ASSUME ControlInv, NEW t \in Tasks, NEW s \in Sessions, Mine(t, s),
         recs' \in Stores, \A o \in Sessions \ {s} : recs'[o] = recs[o],
         debts' \subseteq Sessions,
         disk' \in [recs: Stores, debts: SUBSET Sessions],
         faults' \in 0..MaxFaults,
         NEW k \in TaskType, LocalOK(k), task' = [task EXCEPT ![t] = k],
         k = Idle \/ k.sid = s,
         Working(k) => recs'[s] \in BoundRecord,
         HeldMerge(k) => HeldMerge(task[t]) \/ MergeFree
  PROVE  ControlInv'
  <1>1. task'[t] = k /\ \A u \in Tasks \ {t} : task'[u] = task[u]
    BY DEF ControlInv, ControlOK
  <1>2. ControlOK'
    BY <1>1 DEF ControlInv, ControlOK, LocalOK, Working
  <1>3. MutualExclusion'
    <2>1. \A x \in Sessions : HeldSession(k, x) => Mine(t, x)
      BY IdleOK DEF HeldSession
    <2> QED  BY <2>1, ExclusionStep
  <1>4. RecordHeld'
    <2> SUFFICES ASSUME NEW u \in Tasks, Working(task'[u])
                 PROVE  recs'[task'[u].sid] \in BoundRecord
      BY DEF RecordHeld, Working
    <2>1. CASE u = t
      BY <2>1, <1>1, IdleOK
    <2>2. CASE u # t
      <3>1. task[u].sid \in Sessions /\ recs[task[u].sid] \in BoundRecord
        BY <2>2, <1>1 DEF ControlInv, ControlOK, RecordHeld, LocalOK, Working
      <3>2. task[u].sid # s
        BY <2>2, <1>1, <3>1, MineIsMine DEF HeldSession, Working
      <3> QED  BY <2>2, <1>1, <3>1, <3>2
    <2> QED  BY <2>1, <2>2
  <1> QED  BY <1>2, <1>3, <1>4 DEF ControlInv

\* A move that leaves the records alone and holds no session after.
LEMMA QuietOK ==
  ASSUME ControlInv, NEW t \in Tasks,
         UNCHANGED <<memory, disk>>, faults' \in 0..MaxFaults,
         NEW k \in TaskType, LocalOK(k), task' = [task EXCEPT ![t] = k],
         k.pc \in {"idle", "observed", "mirror_worker"},
         HeldMerge(k) => HeldMerge(task[t]) \/ MergeFree
  PROVE  ControlInv'
  <1>1. task'[t] = k /\ \A u \in Tasks \ {t} : task'[u] = task[u]
    BY DEF ControlInv, ControlOK
  <1>2. ControlOK'
    BY <1>1 DEF ControlInv, ControlOK, LocalOK, Working, memory
  <1>3. MutualExclusion'
    BY ExclusionStep DEF HeldSession
  <1>4. RecordHeld'
    BY <1>1 DEF ControlInv, RecordHeld, Working, memory
  <1> QED  BY <1>2, <1>3, <1>4 DEF ControlInv

-----------------------------------------------------------------------------
(* Persist, fail, inject: the building blocks of the actions.              *)

LEMMA SavedOK ==
  ASSUME ControlInv, recs' \in Stores, debts' \subseteq Sessions, MaybeSaved
  PROVE  disk' \in [recs: Stores, debts: SUBSET Sessions]
  BY DEF ControlInv, ControlOK, MaybeSaved, Saved

LEMMA MarkOK ==
  ASSUME NEW r \in Stores, NEW s \in Sessions, r[s] \in BoundRecord,
         NEW life \in Lifecycle, NEW err \in Failure
  PROVE  /\ Mark(r, s, life, err) \in Stores
         /\ Mark(r, s, life, err)[s] \in BoundRecord
         /\ \A o \in Sessions \ {s} : Mark(r, s, life, err)[o] = r[o]
  <1> DEFINE m == [r[s] EXCEPT !.life = life, !.err = err]
  <1>1. m \in BoundRecord  BY DEF BoundRecord, Record
  <1>2. Mark(r, s, life, err) = [r EXCEPT ![s] = m]  BY DEF Mark
  <1> QED  BY <1>1, <1>2 DEF Stores

LEMMA InjectOK ==
  ASSUME ControlInv, NEW f, Inject(f)
  PROVE  faults' \in 0..MaxFaults
  BY ConstantsAssumption DEF ControlInv, ControlOK, Inject

LEMMA NoFaultOK ==
  ASSUME ControlInv, NoFault
  PROVE  faults' \in 0..MaxFaults
  BY DEF ControlInv, ControlOK, NoFault

\* A failure marks the record of a session that is mine and gives all up.
LEMMA FailedOK ==
  ASSUME ControlInv, NEW t \in Tasks, NEW s \in Sessions, Mine(t, s),
         NEW r \in Stores, r[s] \in BoundRecord, \A o \in Sessions \ {s} : r[o] = recs[o],
         NEW d \in SUBSET Sessions, NEW code \in Failure,
         Failed(t, s, code, r, d), faults' \in 0..MaxFaults,
         MaybeSaved \/ disk' = [recs |-> r, debts |-> d]
  PROVE  ControlInv'
  <1>1. /\ recs' \in Stores
        /\ \A o \in Sessions \ {s} : recs'[o] = recs[o]
    BY MarkOK DEF Failed, Lifecycle
  <1>2. debts' \subseteq Sessions  BY DEF Failed
  <1>3. disk' \in [recs: Stores, debts: SUBSET Sessions]
    BY <1>1, <1>2, SavedOK
  <1>4. task' = [task EXCEPT ![t] = Idle]  BY DEF Failed, Release
  <1> QED  BY <1>1, <1>2, <1>3, <1>4, IdleOK, StepOK

LEMMA FailWhereItStands ==
  ASSUME ControlInv, NEW t \in Tasks, NEW s \in Sessions, Mine(t, s),
         recs[s] \in BoundRecord,
         FailHere(t, s) \/ \E f \in Faults : FailInjected(t, f, s)
  PROVE  ControlInv'
  <1>1. recs \in Stores /\ debts \in SUBSET Sessions
    BY DEF ControlInv, ControlOK
  <1>2. Fail(t, s, "other", recs, debts) /\ faults' \in 0..MaxFaults
    BY InjectOK, NoFaultOK DEF FailHere, FailInjected
  <1> QED  BY <1>1, <1>2, FailedOK DEF Failure, Fail

LEMMA TryPersistOK ==
  ASSUME ControlInv, NEW t \in Tasks, NEW s \in Sessions, Mine(t, s),
         NEW r \in Stores, r[s] \in BoundRecord, \A o \in Sessions \ {s} : r[o] = recs[o],
         NEW d \in SUBSET Sessions,
         NEW k \in TaskType, LocalOK(k), k = Idle \/ k.sid = s,
         HeldMerge(k) => HeldMerge(task[t]) \/ MergeFree,
         TryPersist(t, s, r, d, k)
  PROVE  ControlInv'
  <1>1. CASE /\ Inject("persist") /\ Failed(t, s, "other", r, d)
             /\ MaybeSaved \/ disk' = [recs |-> r, debts |-> d]
    BY <1>1, InjectOK, FailedOK DEF Failure
  <1>2. CASE /\ recs' = r /\ debts' = d /\ Saved /\ NoFault
             /\ task' = [task EXCEPT ![t] = k]
    <2>1. disk' \in [recs: Stores, debts: SUBSET Sessions]
      BY <1>2, SavedOK DEF MaybeSaved
    <2> QED  BY <1>2, <2>1, NoFaultOK, StepOK
  <1> QED  BY <1>1, <1>2 DEF TryPersist

\* A task at work owns its session and has its record.
LEMMA WorkingOK ==
  ASSUME ControlInv, NEW t \in Tasks, Working(task[t])
  PROVE  /\ task[t] \in TaskType
         /\ task[t].sid \in Sessions
         /\ Mine(t, task[t].sid)
         /\ task[t].local \in BoundRecord
         /\ recs \in Stores
         /\ debts \in SUBSET Sessions
         /\ recs[task[t].sid] \in BoundRecord
  BY DEF ControlInv, ControlOK, RecordHeld, LocalOK, Working, Mine, HeldSession

\* A task at work moves on to where it stands next, records untouched.
LEMMA GotoOK ==
  ASSUME ControlInv, NEW t \in Tasks, Working(task[t]),
         NEW k \in TaskType, LocalOK(k), k.sid = task[t].sid,
         task' = [task EXCEPT ![t] = k],
         HeldMerge(k) => HeldMerge(task[t]) \/ MergeFree,
         UNCHANGED <<memory, disk>>, NoFault
  PROVE  ControlInv'
  <1>1. recs' = recs /\ debts' = debts /\ disk' = disk  BY DEF memory
  <1>2. faults' \in 0..MaxFaults  BY NoFaultOK
  <1>3. disk \in [recs: Stores, debts: SUBSET Sessions]  BY DEF ControlInv, ControlOK
  <1> QED  BY <1>1, <1>2, <1>3, WorkingOK, StepOK

-----------------------------------------------------------------------------
(* ControlInv, action by action                                            *)

LEMMA NewRecordOK ==
  ASSUME NEW s \in Sessions
  PROVE  NewRecord(s) \in BoundRecord
  BY ConstantsAssumption DEF NewRecord, BoundRecord, Record, Lifecycle, Failure

LEMMA OpenBeginControl ==
  ASSUME ControlInv, NEW t \in Tasks, NEW s \in Sessions,
         NEW kind \in {"open", "open_human"}, OpenBegin(t, s, kind)
  PROVE  ControlInv'
  <1> DEFINE k == [Idle EXCEPT !.pc = "orphan", !.kind = kind, !.sid = s,
                               !.local = NewRecord(s)]
             r == [recs EXCEPT ![s] = NewRecord(s)]
  <1>0. k \in TaskType
    BY IdleOK, NewRecordOK DEF TaskType, Pcs, TaskKinds
  <1>1. k.pc = "orphan" /\ k.kind = kind /\ k.sid = s /\ k.local = NewRecord(s)
    BY IdleOK DEF TaskType
  <1> HIDE DEF k
  <1>5. LocalOK(k)
    BY <1>1, NewRecordOK DEF LocalOK, Working
  <1>2. r \in Stores /\ r[s] \in BoundRecord /\ \A o \in Sessions \ {s} : r[o] = recs[o]
    BY NewRecordOK DEF Stores, ControlInv, ControlOK
  <1>3. Mine(t, s) /\ MergeFree /\ TryPersist(t, s, r, debts, k)
    BY DEF OpenBegin, Mine, k
  <1>4. debts \in SUBSET Sessions  BY DEF ControlInv, ControlOK
  <1> HIDE DEF r
  <1> QED  BY <1>0, <1>1, <1>2, <1>3, <1>4, <1>5, TryPersistOK

\* A task at work puts its new local copy in the store and goes on to p.
LEMMA PutOK ==
  ASSUME ControlInv, NEW t \in Tasks, Working(task[t]), NEW l \in BoundRecord,
         NEW p \in {"image", "layer", "create", "boot"},
         p = "image" => task[t].kind # "recycle" /\ HeldMerge(task[t]),
         TryPersist(t, task[t].sid, [recs EXCEPT ![task[t].sid] = l], debts,
                    [task[t] EXCEPT !.pc = p, !.local = l])
  PROVE  ControlInv'
  <1> DEFINE s == task[t].sid
             k == [task[t] EXCEPT !.pc = p, !.local = l]
             r == [recs EXCEPT ![s] = l]
  <1>1. r \in Stores /\ r[s] \in BoundRecord /\ \A o \in Sessions \ {s} : r[o] = recs[o]
    BY WorkingOK DEF Stores
  <1>2. k \in TaskType
    BY WorkingOK DEF TaskType, Pcs
  <1>3. k.pc = p /\ k.sid = s /\ k.local = l /\ k.kind = task[t].kind
    BY WorkingOK DEF TaskType
  <1> HIDE DEF k
  <1>4. LocalOK(k)
    BY <1>3, WorkingOK DEF LocalOK, Working
  <1>5. HeldMerge(k) => HeldMerge(task[t])
    BY <1>3 DEF HeldMerge
  <1>6. TryPersist(t, s, r, debts, k)  BY DEF k
  <1> HIDE DEF r
  <1> QED  BY <1>1, <1>2, <1>3, <1>4, <1>5, <1>6, WorkingOK, TryPersistOK

LEMMA OpenMirrorControl ==
  ASSUME ControlInv, NEW t \in Tasks, OpenMirror(t)
  PROVE  ControlInv'
  <1> DEFINE s == task[t].sid
             l(b) == [task[t].local EXCEPT !.branch = b]
  <1>1. task[t].pc = "orphan" /\ Working(task[t]) /\ HeldMerge(task[t])
    BY DEF OpenMirror, Working, HeldMerge
  <1>2. task[t].kind # "recycle"
    BY <1>1 DEF ControlInv, ControlOK, LocalOK
  <1>3. CASE FailInjected(t, "mirror", s)
    BY <1>1, <1>3, WorkingOK, FailWhereItStands DEF FailInjected, Inject
  <1>4. ASSUME NEW b \in Sessions,
               TryPersist(t, s, [recs EXCEPT ![s] = l(b)], debts,
                          [task[t] EXCEPT !.pc = "image", !.local = l(b)])
        PROVE  ControlInv'
    <2>1. l(b) \in BoundRecord  BY <1>1, WorkingOK DEF BoundRecord, Record
    <2> HIDE DEF l
    <2> QED  BY <1>1, <1>2, <1>4, <2>1, PutOK
  <1> QED
    <2>1. Orphans \subseteq Sessions  BY DEF Orphans
    <2>2. task[t].local.branch \in Sessions  BY <1>1, WorkingOK DEF BoundRecord, Record
    <2> QED  BY <1>3, <1>4, <2>1, <2>2 DEF OpenMirror

LEMMA OpenImageControl ==
  ASSUME ControlInv, NEW t \in Tasks, OpenImage(t)
  PROVE  ControlInv'
  <1>1. task[t].pc = "image" /\ Working(task[t])
    BY DEF OpenImage, Working
  <1>2. CASE FailInjected(t, "image", task[t].sid)
    BY <1>1, <1>2, WorkingOK, FailWhereItStands DEF FailInjected, Inject
  <1>3. CASE Goto(t, "layer") /\ NoFault /\ UNCHANGED <<memory, disk>>
    <2> DEFINE k == [task[t] EXCEPT !.pc = "layer"]
    <2>1. k \in TaskType /\ LocalOK(k) /\ k.sid = task[t].sid /\ ~HeldMerge(k)
      BY <1>1, WorkingOK DEF TaskType, LocalOK, Working, HeldMerge, Pcs
    <2>2. task' = [task EXCEPT ![t] = k]
      BY <1>3, WorkingOK, <1>1 DEF Goto, ControlInv, ControlOK
    <2> HIDE DEF k
    <2> QED  BY <1>1, <1>3, <2>1, <2>2, GotoOK
  <1> QED  BY <1>2, <1>3 DEF OpenImage


LEMMA LayerControl ==
  ASSUME ControlInv, NEW t \in Tasks, Layer(t)
  PROVE  ControlInv'
  <1> DEFINE l == IF task[t].kind = "recycle"
                    THEN [task[t].local EXCEPT !.owned = FALSE, !.life = "recycling"]
                    ELSE task[t].local
  <1>1. Working(task[t])  BY DEF Layer, Working
  <1>2. l \in BoundRecord  BY <1>1, WorkingOK DEF BoundRecord, Record, Lifecycle
  <1>3. TryPersist(t, task[t].sid, [recs EXCEPT ![task[t].sid] = l], debts,
                   [task[t] EXCEPT !.pc = "create", !.local = l])
    BY DEF Layer
  <1> HIDE DEF l
  <1> QED  BY <1>1, <1>2, <1>3, PutOK

LEMMA CreateControl ==
  ASSUME ControlInv, NEW t \in Tasks, Create(t)
  PROVE  ControlInv'
  <1> DEFINE s == task[t].sid
             l == [task[t].local EXCEPT !.owned = TRUE]
  <1>1. Working(task[t])  BY DEF Create, Working
  <1>2. CASE FailInjected(t, "docker", s) \/ FailHere(t, s)
    BY <1>1, <1>2, WorkingOK, FailWhereItStands DEF FailInjected, Inject
  <1>3. CASE TryPersist(t, s, [recs EXCEPT ![s] = l], debts,
                        [task[t] EXCEPT !.pc = "boot", !.local = l])
    <2>1. l \in BoundRecord  BY <1>1, WorkingOK DEF BoundRecord, Record
    <2> HIDE DEF l
    <2> QED  BY <1>1, <1>3, <2>1, PutOK
  <1> QED  BY <1>2, <1>3 DEF Create

LEMMA BootControl ==
  ASSUME ControlInv, NEW t \in Tasks, Boot(t)
  PROVE  ControlInv'
  <1> DEFINE s == task[t].sid
             l == [task[t].local EXCEPT !.life = "active", !.err = "none"]
             r == [recs EXCEPT ![s] = l]
  <1>1. Working(task[t])  BY DEF Boot, Working
  <1>2. CASE FailInjected(t, "boot", s) \/ FailHere(t, s)
    BY <1>1, <1>2, WorkingOK, FailWhereItStands DEF FailInjected, Inject
  <1>3. CASE TryPersist(t, s, r, debts, Idle)
    <2>1. l \in BoundRecord  BY <1>1, WorkingOK DEF BoundRecord, Record, Lifecycle, Failure
    <2>2. r \in Stores /\ r[s] \in BoundRecord /\ \A o \in Sessions \ {s} : r[o] = recs[o]
      BY <1>1, <2>1, WorkingOK DEF Stores
    <2> HIDE DEF r
    <2> QED  BY <1>1, <1>3, <2>2, WorkingOK, IdleOK, TryPersistOK
  <1> QED  BY <1>2, <1>3 DEF Boot

LEMMA ClaimControl ==
  ASSUME ControlInv, NEW t \in Tasks, NEW s \in Sessions, SessionFree(s),
         recs[s] # None, NEW seen \in 0..MaxGen,
         NEW kind \in {"close", "finish", "recycle", "reap"},
         NEW life \in {"closing", "recycling"},
         Claim(t, s, kind, seen, life)
  PROVE  ControlInv'
  <1> DEFINE k == [Idle EXCEPT !.pc = "flush", !.kind = kind, !.sid = s,
                               !.seen = seen, !.local = recs[s]]
             r == Mark(recs, s, life, "none")
  <1>1. recs \in Stores /\ recs[s] \in BoundRecord /\ debts \in SUBSET Sessions
    BY DEF ControlInv, ControlOK, Stores
  <1>2. Mine(t, s)  BY DEF Mine
  <1>3. CASE NoFault /\ Fail(t, s, "legacy_ownership_ambiguous", recs, debts)
    BY <1>1, <1>2, <1>3, NoFaultOK, FailedOK DEF Failure, Fail
  <1>4. CASE FailHere(t, s)
    BY <1>1, <1>2, <1>4, FailWhereItStands
  <1>5. CASE ~Exhausted(s, kind) /\ TryPersist(t, s, r, debts, k)
    <2>1. k \in TaskType
      BY <1>1, IdleOK DEF TaskType, Pcs, TaskKinds
    <2>2. k.pc = "flush" /\ k.kind = kind /\ k.sid = s /\ k.local = recs[s]
      BY IdleOK DEF TaskType
    <2> HIDE DEF k
    <2>3. recs[s].gen \in 0..MaxGen  BY <1>1 DEF BoundRecord, Record
    <2>4. LocalOK(k)
      BY <1>1, <1>5, <2>2, <2>3, ConstantsAssumption DEF LocalOK, Working, Exhausted
    <2>5. r \in Stores /\ r[s] \in BoundRecord /\ \A o \in Sessions \ {s} : r[o] = recs[o]
      <3>1. life \in Lifecycle /\ "none" \in Failure  BY DEF Lifecycle, Failure
      <3> QED  BY <1>1, <3>1, MarkOK
    <2>6. ~HeldMerge(k)  BY <2>2 DEF HeldMerge
    <2> HIDE DEF r
    <2> QED  BY <1>1, <1>2, <1>5, <2>1, <2>2, <2>4, <2>5, <2>6, TryPersistOK
  <1> QED  BY <1>3, <1>4, <1>5 DEF Claim

LEMMA BeginControl ==
  ASSUME ControlInv, NEW t \in Tasks, NEW s \in Sessions,
         CloseBegin(t, s) \/ RecycleBegin(t, s)
  PROVE  ControlInv'
  <1>1. recs[s] # None => recs[s].gen \in 0..MaxGen
    BY DEF ControlInv, ControlOK, Stores, BoundRecord, Record
  <1>2. CASE CloseBegin(t, s)
    BY <1>1, <1>2, ClaimControl DEF CloseBegin
  <1>3. CASE RecycleBegin(t, s)
    BY <1>1, <1>3, ClaimControl DEF RecycleBegin
  <1> QED  BY <1>2, <1>3

LEMMA ObserveControl ==
  ASSUME ControlInv, NEW t \in Tasks, NEW s \in Sessions,
         FinishObserve(t, s) \/ ReapObserve(t, s)
  PROVE  ControlInv'
  <1>1. PICK kind \in {"finish", "reap"} : Observed(t, s, kind)
    BY DEF FinishObserve, ReapObserve
  <1> DEFINE k == [Idle EXCEPT !.pc = "observed", !.kind = kind, !.sid = s,
                               !.seen = recs[s].gen]
  <1>2. recs[s].gen \in 0..MaxGen
    BY DEF FinishObserve, ReapObserve, ControlInv, ControlOK, Stores, BoundRecord, Record
  <1>3. k \in TaskType
    BY <1>2, IdleOK DEF TaskType, Pcs, TaskKinds
  <1>4. k.pc = "observed" /\ k.sid = s
    BY IdleOK DEF TaskType
  <1>5. task' = [task EXCEPT ![t] = k]  BY <1>1 DEF Observed
  <1> HIDE DEF k
  <1>6. LocalOK(k) /\ ~HeldMerge(k)  BY <1>4 DEF LocalOK, Working, HeldMerge
  <1>7. UNCHANGED <<memory, disk, faults>>  BY DEF FinishObserve, ReapObserve
  <1>8. faults' \in 0..MaxFaults  BY <1>7 DEF ControlInv, ControlOK
  <1> QED  BY <1>3, <1>4, <1>5, <1>6, <1>7, <1>8, QuietOK

\* A task that gives up what it holds, records untouched.
LEMMA ReleaseOK ==
  ASSUME ControlInv, NEW t \in Tasks, Release(t),
         UNCHANGED <<memory, disk>>, faults' \in 0..MaxFaults
  PROVE  ControlInv'
  <1>1. task' = [task EXCEPT ![t] = Idle]  BY DEF Release
  <1>2. Idle.pc = "idle"  BY DEF Idle
  <1> QED  BY <1>1, <1>2, IdleOK, QuietOK

LEMMA ObservedBeginControl ==
  ASSUME ControlInv, NEW t \in Tasks, FinishBegin(t) \/ ReapBegin(t)
  PROVE  ControlInv'
  <1> DEFINE s == task[t].sid
  <1>1. s \in Sessions /\ task[t].seen \in 0..MaxGen
    BY DEF FinishBegin, ReapBegin, ControlInv, ControlOK, LocalOK, TaskType
  <1>2. CASE Release(t) /\ UNCHANGED <<memory, disk, faults>>
    <2>1. faults' \in 0..MaxFaults  BY <1>2 DEF ControlInv, ControlOK
    <2> QED  BY <1>2, <2>1, ReleaseOK
  <1>3. ASSUME SessionFree(s), recs[s] # None, NEW kind \in {"finish", "reap"},
               Claim(t, s, kind, task[t].seen, "closing")
        PROVE  ControlInv'
    BY <1>1, <1>3, ClaimControl
  <1>4. CASE FinishBegin(t)
    BY <1>2, <1>3, <1>4 DEF FinishBegin
  <1>5. CASE ReapBegin(t)
    BY <1>2, <1>3, <1>5 DEF ReapBegin
  <1> QED  BY <1>4, <1>5

\* A step that changes nothing of a task at work but where it stands.
LEMMA MoveOK ==
  ASSUME ControlInv, NEW t \in Tasks, Working(task[t]),
         NEW p \in {"layer", "mirror", "image", "destroy", "remove"},
         task[t].kind = "recycle" /\ p \in {"mirror", "image"} =>
            task[t].local.gen < MaxGen,
         HeldMerge([task[t] EXCEPT !.pc = p]) => HeldMerge(task[t]) \/ MergeFree,
         Goto(t, p), UNCHANGED <<memory, disk>>, NoFault
  PROVE  ControlInv'
  <1> DEFINE k == [task[t] EXCEPT !.pc = p]
  <1>1. k \in TaskType  BY WorkingOK DEF TaskType, Pcs
  <1>2. k.pc = p /\ k.sid = task[t].sid /\ k.kind = task[t].kind /\ k.local = task[t].local
    BY WorkingOK DEF TaskType
  <1>3. task' = [task EXCEPT ![t] = k]
    BY DEF Goto, ControlInv, ControlOK
  <1> HIDE DEF k
  <1>4. LocalOK(k)  BY <1>2, WorkingOK DEF LocalOK, Working
  <1>5. HeldMerge(k) => HeldMerge(task[t]) \/ MergeFree  BY DEF k
  <1> QED  BY <1>1, <1>2, <1>3, <1>4, <1>5, GotoOK

LEMMA FlushControl ==
  ASSUME ControlInv, NEW t \in Tasks, Flush(t)
  PROVE  ControlInv'
  <1>1. task[t].pc = "flush" /\ Working(task[t])  BY DEF Flush, Working
  <1>2. CASE FailInjected(t, "flush", task[t].sid) \/ FailHere(t, task[t].sid)
    BY <1>1, <1>2, WorkingOK, FailWhereItStands DEF FailInjected, Inject
  <1>3. CASE /\ Goto(t, IF task[t].kind = "reap" THEN "destroy" ELSE "mirror")
             /\ NoFault /\ UNCHANGED <<memory, disk>>
    <2> DEFINE p == IF task[t].kind = "reap" THEN "destroy" ELSE "mirror"
    <2>1. p \in {"mirror", "destroy"}  OBVIOUS
    <2>2. task[t].kind = "recycle" => task[t].local.gen < MaxGen
      BY <1>1 DEF ControlInv, ControlOK, LocalOK
    <2>3. ~HeldMerge([task[t] EXCEPT !.pc = p])
      BY <1>1, WorkingOK DEF HeldMerge, TaskType
    <2> HIDE DEF p
    <2> QED  BY <1>1, <1>3, <2>1, <2>2, <2>3, MoveOK DEF p
  <1> QED  BY <1>2, <1>3 DEF Flush

LEMMA FetchFailsControl ==
  ASSUME ControlInv, NEW t \in Tasks, Working(task[t]), FetchFails(t)
  PROVE  ControlInv'
  BY WorkingOK, FailWhereItStands DEF FetchFails, FailInjected, Inject

LEMMA CloseMergeControl ==
  ASSUME ControlInv, NEW t \in Tasks, CloseMerge(t)
  PROVE  ControlInv'
  <1>1. Working(task[t]) /\ MergeFree /\ task[t].kind \in {"close", "finish"}
    BY DEF CloseMerge, Working
  <1>2. CASE FetchFails(t)  BY <1>1, <1>2, FetchFailsControl
  <1>3. ASSUME Fetched(t), NEW d \in BOOLEAN,
               task' = [task EXCEPT ![t] = [@ EXCEPT !.pc = "publish", !.debt = d]]
        PROVE  ControlInv'
    <2> DEFINE k == [task[t] EXCEPT !.pc = "publish", !.debt = d]
    <2>1. k \in TaskType  BY <1>1, WorkingOK DEF TaskType, Pcs
    <2>2. k.pc = "publish" /\ k.sid = task[t].sid /\ k.kind = task[t].kind
          /\ k.local = task[t].local
      BY <1>1, WorkingOK DEF TaskType
    <2>3. task' = [task EXCEPT ![t] = k]  BY <1>3
    <2> HIDE DEF k
    <2>4. LocalOK(k)  BY <1>1, <2>2, WorkingOK DEF LocalOK, Working
    <2> QED  BY <1>1, <1>3, <2>1, <2>2, <2>3, <2>4, GotoOK DEF Fetched
  <1>4. CASE Fetched(t) /\ \E o \in CloseOutcomes(originMaster, originBranch[task[t].local.branch]) :
               task' = [task EXCEPT ![t] = [@ EXCEPT !.pc = "publish", !.debt = o.debt]]
    <2>1. ASSUME NEW m, NEW b, NEW o \in CloseOutcomes(m, b)
          PROVE  o.debt \in BOOLEAN
      <3>1. \E x \in {m, b, m \cup b}, d \in BOOLEAN : o = [master |-> x, debt |-> d]
        BY DEF CloseOutcomes
      <3> QED  BY <3>1
    <2>2. PICK o \in CloseOutcomes(originMaster, originBranch[task[t].local.branch]) :
             task' = [task EXCEPT ![t] = [@ EXCEPT !.pc = "publish", !.debt = o.debt]]
      BY <1>4
    <2>3. o.debt \in BOOLEAN  BY <2>1
    <2> QED  BY <1>3, <1>4, <2>2, <2>3
  <1> QED  BY <1>2, <1>4 DEF CloseMerge

LEMMA RecycleFetchControl ==
  ASSUME ControlInv, NEW t \in Tasks, RecycleFetch(t)
  PROVE  ControlInv'
  <1>1. Working(task[t]) /\ MergeFree /\ task[t].pc = "mirror" /\ task[t].kind = "recycle"
    BY DEF RecycleFetch, Working
  <1>2. CASE FetchFails(t)  BY <1>1, <1>2, FetchFailsControl
  <1>3. CASE Fetched(t) /\ Goto(t, "image")
    <2>1. task[t].local.gen < MaxGen
      BY <1>1 DEF ControlInv, ControlOK, LocalOK
    <2> QED  BY <1>1, <1>3, <2>1, MoveOK DEF Fetched
  <1> QED  BY <1>2, <1>3 DEF RecycleFetch

LEMMA PublishControl ==
  ASSUME ControlInv, NEW t \in Tasks, Publish(t)
  PROVE  ControlInv'
  <1> DEFINE s == task[t].sid
             k == [task[t] EXCEPT !.pc = "destroy"]
  <1>1. task[t].pc = "publish" /\ Working(task[t]) /\ HeldMerge(task[t])
    BY DEF Publish, Working, HeldMerge
  <1>2. CASE FailInjected(t, "push", s) \/ FailHere(t, s)
    BY <1>1, <1>2, WorkingOK, FailWhereItStands DEF FailInjected, Inject
  <1>3. ASSUME NEW d \in SUBSET Sessions, TryPersist(t, s, recs, d, k)
        PROVE  ControlInv'
    <2>1. k \in TaskType  BY <1>1, WorkingOK DEF TaskType, Pcs
    <2>2. k.pc = "destroy" /\ k.sid = s /\ k.kind = task[t].kind /\ k.local = task[t].local
      BY <1>1, WorkingOK DEF TaskType
    <2> HIDE DEF k
    <2>3. LocalOK(k)  BY <1>1, <2>2, WorkingOK DEF LocalOK, Working
    <2> QED  BY <1>1, <1>3, <2>1, <2>2, <2>3, WorkingOK, TryPersistOK
  <1>4. task[t].local.branch \in Sessions /\ debts \in SUBSET Sessions
    BY <1>1, WorkingOK DEF BoundRecord, Record
  <1>5. debts \cup {task[t].local.branch} \in SUBSET Sessions  BY <1>4
  <1> QED  BY <1>2, <1>3, <1>4, <1>5 DEF Publish

LEMMA DestroyControl ==
  ASSUME ControlInv, NEW t \in Tasks, Destroy(t)
  PROVE  ControlInv'
  <1>1. task[t].pc = "destroy" /\ Working(task[t])  BY DEF Destroy, Working
  <1>2. CASE FailInjected(t, "docker", task[t].sid)
    BY <1>1, <1>2, WorkingOK, FailWhereItStands DEF FailInjected, Inject
  <1>3. CASE Goto(t, "remove") /\ NoFault /\ UNCHANGED <<memory, disk>>
    <2>1. HeldMerge([task[t] EXCEPT !.pc = "remove"]) => HeldMerge(task[t])
      BY <1>1, WorkingOK DEF HeldMerge, TaskType
    <2> QED  BY <1>1, <1>3, <2>1, MoveOK
  <1> QED  BY <1>2, <1>3 DEF Destroy

LEMMA RemoveControl ==
  ASSUME ControlInv, NEW t \in Tasks, CloseRemove(t) \/ ReapRemove(t)
  PROVE  ControlInv'
  <1>1. Working(task[t])  BY DEF CloseRemove, ReapRemove, Working
  <1>2. /\ recs' = [recs EXCEPT ![task[t].sid] = None]
        /\ MaybeSaved
        /\ task' = [task EXCEPT ![t] = Idle]
    BY DEF CloseRemove, ReapRemove, Release
  <1>3. debts' \subseteq debts  BY DEF CloseRemove, ReapRemove
  <1>4. faults' \in 0..MaxFaults
    BY InjectOK, NoFaultOK DEF CloseRemove, ReapRemove, NoFault
  <1>5. recs' \in Stores /\ \A o \in Sessions \ {task[t].sid} : recs'[o] = recs[o]
    BY <1>1, <1>2, WorkingOK DEF Stores
  <1>6. debts' \subseteq Sessions  BY <1>1, <1>3, WorkingOK
  <1>7. disk' \in [recs: Stores, debts: SUBSET Sessions]
    BY <1>2, <1>5, <1>6, SavedOK
  <1> QED  BY <1>1, <1>2, <1>4, <1>5, <1>6, <1>7, WorkingOK, IdleOK, StepOK

LEMMA RecycleRebindControl ==
  ASSUME ControlInv, NEW t \in Tasks, RecycleRebind(t)
  PROVE  ControlInv'
  <1> DEFINE s == task[t].sid
             l == [task[t].local EXCEPT !.gen = @ + 1, !.bound = TRUE, !.owned = FALSE]
  <1>1. /\ task[t].pc = "image" /\ task[t].kind = "recycle" /\ Working(task[t])
    BY DEF RecycleRebind, Working
  <1>2. CASE FailInjected(t, "image", s) \/ FailInjected(t, "docker", s)
    BY <1>1, <1>2, WorkingOK, FailWhereItStands DEF FailInjected, Inject
  <1>3. CASE TryPersist(t, s, [recs EXCEPT ![s] = l], debts,
                        [task[t] EXCEPT !.pc = "layer", !.local = l])
    <2>1. task[t].local.gen \in 0..MaxGen /\ task[t].local.gen < MaxGen
      BY <1>1, WorkingOK DEF ControlInv, ControlOK, LocalOK, BoundRecord, Record
    <2>2. task[t].local.gen + 1 \in 0..MaxGen /\ task[t].local.gen + 1 \in 1..MaxGen
      BY <2>1, ConstantsAssumption
    <2>3. l \in Record  BY <1>1, <2>2, WorkingOK DEF BoundRecord, Record
    <2>4. l.gen = task[t].local.gen + 1  BY <1>1, WorkingOK DEF BoundRecord, Record
    <2>5. l \in BoundRecord  BY <2>2, <2>3, <2>4 DEF BoundRecord
    <2> HIDE DEF l
    <2> QED  BY <1>1, <1>3, <2>5, PutOK
  <1> QED  BY <1>2, <1>3 DEF RecycleRebind

LEMMA CancelControl ==
  ASSUME ControlInv, NEW t \in Tasks, Cancel(t)
  PROVE  ControlInv'
  <1>1. UNCHANGED <<memory, disk>> /\ faults' \in 0..MaxFaults
    BY InjectOK DEF Cancel
  <1>2. CASE Release(t)  BY <1>1, <1>2, ReleaseOK
  <1>3. CASE task[t].pc = "image" /\ Goto(t, "mirror_worker")
    <2> DEFINE k == [task[t] EXCEPT !.pc = "mirror_worker"]
    <2>0. Working(task[t]) /\ HeldMerge(task[t])  BY <1>3 DEF Working, HeldMerge
    <2>1. k \in TaskType  BY <2>0, WorkingOK DEF TaskType, Pcs
    <2>2. k.pc = "mirror_worker"  BY <2>0, WorkingOK DEF TaskType
    <2>3. task' = [task EXCEPT ![t] = k]  BY <1>3 DEF Goto, ControlInv, ControlOK
    <2> HIDE DEF k
    <2>4. LocalOK(k)  BY <2>2 DEF LocalOK, Working
    <2> QED  BY <1>1, <2>0, <2>1, <2>2, <2>3, <2>4, QuietOK
  <1>4. CASE task[t].pc = "layer" /\ Goto(t, "session_worker")
    <2> DEFINE k == [task[t] EXCEPT !.pc = "session_worker"]
    <2>0. Working(task[t])  BY <1>4 DEF Working
    <2>1. k \in TaskType  BY <2>0, WorkingOK DEF TaskType, Pcs
    <2>2. k.pc = "session_worker" /\ k.sid = task[t].sid
      BY <2>0, WorkingOK DEF TaskType
    <2>3. task' = [task EXCEPT ![t] = k]  BY <1>4 DEF Goto, ControlInv, ControlOK
    <2> HIDE DEF k
    <2>4. LocalOK(k) /\ ~Working(k) /\ ~HeldMerge(k)
      BY <2>0, <2>2, WorkingOK DEF LocalOK, Working, HeldMerge
    <2>5. recs' = recs /\ debts' = debts /\ disk' = disk  BY <1>1 DEF memory
    <2>6. disk \in [recs: Stores, debts: SUBSET Sessions]  BY DEF ControlInv, ControlOK
    <2> QED  BY <1>1, <2>0, <2>1, <2>2, <2>3, <2>4, <2>5, <2>6, WorkingOK, StepOK
  <1> QED  BY <1>2, <1>3, <1>4 DEF Cancel

LEMMA HydrateOK ==
  ASSUME NEW r \in Stores
  PROVE  Hydrate(r) \in Stores
  <1> DEFINE claims == {s \in Sessions : r[s] # None /\ ~r[s].bound}
             lost(s)  == [r[s] EXCEPT !.life = "failed", !.err = "legacy_ownership_ambiguous"]
             cut(s)   == [r[s] EXCEPT !.life = "failed", !.err = "interrupted"]
  <1>1. ASSUME NEW s \in Sessions, r[s] # None
        PROVE  lost(s) \in BoundRecord /\ cut(s) \in BoundRecord
    BY <1>1 DEF Stores, BoundRecord, Record, Lifecycle, Failure
  <1>2. Hydrate(r) = [s \in Sessions |->
           IF r[s] = None THEN None
           ELSE IF s \in claims /\ Cardinality(claims) > 1 THEN lost(s)
           ELSE IF r[s].life \in {"creating", "closing", "recycling"} THEN cut(s)
           ELSE r[s]]
    BY DEF Hydrate
  <1> HIDE DEF claims, lost, cut
  <1> QED  BY <1>1, <1>2 DEF Stores

LEMMA CrashControl ==
  ASSUME ControlInv, Crash
  PROVE  ControlInv'
  <1>1. \A t \in Tasks : task'[t] = Idle  BY DEF Crash
  <1>2. recs' \in Stores /\ disk.debts \subseteq Sessions
    BY HydrateOK DEF Crash, ControlInv, ControlOK
  <1>3. faults' \in 0..MaxFaults  BY InjectOK DEF Crash
  <1>4. task' \in [Tasks -> TaskType]  BY IdleOK DEF Crash
  <1>5. ControlOK'
    BY <1>1, <1>2, <1>3, <1>4, IdleOK DEF Crash, ControlInv, ControlOK, LocalOK, Working
  <1>6. MutualExclusion'
    BY <1>1 DEF MutualExclusion, HoldsSession, HoldsMerge, Idle
  <1>7. RecordHeld'
    BY <1>1, IdleOK DEF RecordHeld, Working
  <1> QED  BY <1>5, <1>6, <1>7 DEF ControlInv

LEMMA StutterControl ==
  ASSUME ControlInv, UNCHANGED <<memory, disk, task, faults>>
  PROVE  ControlInv'
  BY DEF ControlInv, ControlOK, MutualExclusion, RecordHeld, memory, LocalOK, Working,
         HoldsSession, HoldsMerge

\* Every step of the specification preserves the control invariant.
LEMMA ControlStep ==
  ASSUME ControlInv, [Next]_vars
  PROVE  ControlInv'
  <1>1. ASSUME NEW t \in Tasks, NEW s \in Sessions, Request(t, s)
        PROVE  ControlInv'
    BY <1>1, OpenBeginControl, BeginControl, ObserveControl DEF Request
  <1>2. ASSUME NEW t \in Tasks, Locking(t)
        PROVE  ControlInv'
    BY <1>2, ObservedBeginControl, CloseMergeControl, RecycleFetchControl DEF Locking
  <1>3. ASSUME NEW t \in Tasks, Running(t)
        PROVE  ControlInv'
    <2>1. CASE WorkerDone(t)
      <3>1. faults' \in 0..MaxFaults  BY <2>1 DEF WorkerDone, ControlInv, ControlOK
      <3> QED  BY <2>1, <3>1, ReleaseOK DEF WorkerDone
    <2> QED
      BY <1>3, <2>1, OpenMirrorControl, OpenImageControl, LayerControl, CreateControl,
         BootControl, FlushControl, PublishControl, DestroyControl, RemoveControl,
         RecycleRebindControl
      DEF Running
  <1>4. ASSUME NEW s \in Sessions, NEW w \in Work, Edit(s, w) \/ Commit(s, w)
        PROVE  ControlInv'
    BY <1>4, StutterControl DEF Edit, Commit
  <1>5. CASE Rest \/ UNCHANGED vars
    BY <1>5, StutterControl DEF Rest, vars, memory
  <1>6. CASE OthersPersist
    BY <1>6 DEF OthersPersist, Saved, ControlInv, ControlOK, MutualExclusion, RecordHeld,
                memory, LocalOK, Working, HoldsSession, HoldsMerge
  <1> QED
    BY <1>1, <1>2, <1>3, <1>4, <1>5, <1>6, CancelControl, CrashControl DEF Next

LEMMA ControlInit == Init => ControlInv
  <1> SUFFICES ASSUME Init  PROVE ControlInv
    OBVIOUS
  <1> DEFINE old == [s \in Sessions |-> IF s \in Legacy THEN LegacyRecord(s) ELSE None]
  <1>1. old \in Stores
    BY ConstantsAssumption DEF Stores, LegacyRecord, BoundRecord, Record, Lifecycle, Failure
  <1>2. recs = Hydrate(old) /\ debts = {} /\ disk = [recs |-> old, debts |-> {}]
        /\ task = [t \in Tasks |-> Idle] /\ faults = 0
    BY DEF Init
  <1> HIDE DEF old
  <1>3. ControlOK
    BY <1>1, <1>2, HydrateOK, IdleOK, ConstantsAssumption DEF ControlOK
  <1>4. MutualExclusion
    BY <1>2 DEF MutualExclusion, HoldsSession, HoldsMerge, Idle
  <1>5. RecordHeld
    BY <1>2, IdleOK DEF RecordHeld
  <1> QED  BY <1>3, <1>4, <1>5 DEF ControlInv

\* No two tasks ever own one session guard, nor the project's mirror guard,
\* whatever fails, is cancelled or crashes: session_lock and merge_lock of
\* sessions.rs exclude.
THEOREM Exclusion == Spec => []MutualExclusion
  <1>1. ControlInv => MutualExclusion  BY DEF ControlInv
  <1> QED  BY <1>1, ControlInit, ControlStep, PTL DEF Spec

-----------------------------------------------------------------------------
(* Git, containers, histories                                              *)

LEMMA ContainerOK ==
  ASSUME NEW s \in Sessions, NEW r \in BoundRecord
  PROVE  Container(s, r) \in Names
  BY DEF Container, Names, BoundRecord, Record

\* What the checkpoint pushes is a container's tree, onto a session branch.
LEMMA PushedOK ==
  ASSUME WorldOK, NEW n \in Names, CanPush(n)
  PROVE  Pushed(n) \in [Sessions -> (SUBSET Work) \cup {None}]
  <1>1. conts[n] \in Workspace  BY DEF WorldOK, CanPush
  <1> QED  BY <1>1 DEF WorldOK, Pushed, Workspace

LEMMA BootstrapOK ==
  ASSUME ControlInv, WorldOK, NEW t \in Tasks, Working(task[t]), Bootstrap(t)
  PROVE  /\ conts' \in [Names -> Workspace \cup {None}]
         /\ originBranch' \in [Sessions -> (SUBSET Work) \cup {None}]
  <1> DEFINE b == task[t].local.branch
             n == Container(task[t].sid, task[t].local)
             tree == IF Resumes(t) THEN originBranch[b] ELSE originMaster
  <1>1. n \in Names  BY WorkingOK, ContainerOK
  <1>2. b \in Sessions  BY WorkingOK DEF BoundRecord, Record
  <1>3. tree \in SUBSET Work  BY <1>2 DEF Bootstrap, WorldOK
  <1>4. conts[n] \in Workspace  BY <1>1 DEF Bootstrap, WorldOK
  <1>5. conts' = [conts EXCEPT ![n].tree = tree, ![n].booted = TRUE]
        /\ originBranch' = [originBranch EXCEPT ![b] = tree]
    BY DEF Bootstrap
  <1> HIDE DEF n, tree, b
  <1>6. originBranch' \in [Sessions -> (SUBSET Work) \cup {None}]
    BY <1>2, <1>3, <1>5 DEF WorldOK
  <1> DEFINE c == [conts EXCEPT ![n].tree = tree]
  <1>7. c \in [Names -> Workspace \cup {None}] /\ c[n] \in Workspace
    BY <1>1, <1>3, <1>4 DEF WorldOK, Workspace
  <1>8. conts' = [c EXCEPT ![n].booted = TRUE]  BY <1>5
  <1> HIDE DEF c
  <1>9. conts' \in [Names -> Workspace \cup {None}]
    BY <1>1, <1>7, <1>8 DEF Workspace
  <1> QED  BY <1>6, <1>9

LEMMA StutterWorld ==
  ASSUME WorldOK, UNCHANGED <<conts, git, history>>
  PROVE  WorldOK'
  BY DEF WorldOK, git, history

LEMMA OpenWorld ==
  ASSUME ControlInv, WorldOK, NEW t \in Tasks,
         \/ \E s \in Sessions, kind \in {"open", "open_human"} : OpenBegin(t, s, kind)
         \/ OpenMirror(t)
  PROVE  WorldOK'
  <1>1. CASE \E s \in Sessions, kind \in {"open", "open_human"} : OpenBegin(t, s, kind)
    BY <1>1 DEF OpenBegin, WorldOK, git
  <1>2. CASE OpenMirror(t)
    <2>1. mirrorMaster' \in {mirrorMaster, originMaster}  BY <1>2 DEF OpenMirror
    <2>2. UNCHANGED <<conts, originMaster, originBranch, heads, history>>
      BY <1>2 DEF OpenMirror
    <2> QED  BY <2>1, <2>2 DEF WorldOK, history
  <1> QED  BY <1>1, <1>2

LEMMA CreateWorld ==
  ASSUME ControlInv, WorldOK, NEW t \in Tasks, Create(t)
  PROVE  WorldOK'
  <1> DEFINE n == Container(task[t].sid, task[t].local)
             c == [branch |-> [task[t].local EXCEPT !.owned = TRUE].branch,
                   tree |-> {}, booted |-> FALSE]
  <1>1. Working(task[t])  BY DEF Create, Working
  <1>2. n \in Names  BY <1>1, WorkingOK, ContainerOK
  <1>3. c \in Workspace  BY <1>1, WorkingOK DEF BoundRecord, Record, Workspace
  <1>4. UNCHANGED conts \/ conts' = [conts EXCEPT ![n] = c]  BY DEF Create, Allocate
  <1>5. UNCHANGED <<git, history>>  BY DEF Create
  <1> HIDE DEF n, c
  <1> QED  BY <1>2, <1>3, <1>4, <1>5 DEF WorldOK, git, history

LEMMA BootWorld ==
  ASSUME ControlInv, WorldOK, NEW t \in Tasks, Boot(t) \/ Cancel(t)
  PROVE  WorldOK'
  <1>1. UNCHANGED <<originMaster, mirrorMaster, heads, history>>  BY DEF Boot, Cancel
  <1>2. \/ UNCHANGED <<conts, originBranch>>
        \/ Working(task[t]) /\ Bootstrap(t)
    BY DEF Boot, Cancel, Working
  <1> QED  BY <1>1, <1>2, BootstrapOK DEF WorldOK, history

LEMMA PushWorld ==
  ASSUME ControlInv, WorldOK, NEW t \in Tasks,
         Flush(t) \/ \E s \in Sessions : FinishObserve(t, s)
  PROVE  WorldOK'
  <1>1. UNCHANGED <<conts, originMaster, mirrorMaster, heads, history>>
    BY DEF Flush, FinishObserve
  <1>2. \/ UNCHANGED originBranch
        \/ \E n \in Names : CanPush(n) /\ originBranch' = Pushed(n)
    <2>1. CASE Flush(t)
      <3>1. Working(task[t])  BY <2>1 DEF Flush, Working
      <3>2. Runtime(t) \in Names  BY <3>1, WorkingOK, ContainerOK DEF Runtime
      <3> QED  BY <2>1, <3>2 DEF Flush
    <2>2. ASSUME NEW s \in Sessions, FinishObserve(t, s)
          PROVE  \E n \in Names : CanPush(n) /\ originBranch' = Pushed(n)
      <3>1. recs[s] \in BoundRecord
        BY <2>2 DEF FinishObserve, ControlInv, ControlOK, Stores
      <3> QED  BY <2>2, <3>1, ContainerOK DEF FinishObserve
    <2> QED  BY <2>1, <2>2
  <1> QED  BY <1>1, <1>2, PushedOK DEF WorldOK, history

LEMMA MergeWorld ==
  ASSUME ControlInv, WorldOK, NEW t \in Tasks, CloseMerge(t) \/ RecycleFetch(t)
  PROVE  WorldOK'
  <1> DEFINE b == task[t].local.branch
  <1>1. Working(task[t])  BY DEF CloseMerge, RecycleFetch, Working
  <1>2. b \in Sessions  BY <1>1, WorkingOK DEF BoundRecord, Record
  <1>3. UNCHANGED <<conts, originMaster, originBranch, history>>
    BY DEF CloseMerge, RecycleFetch
  <1>4. heads' \subseteq heads \cup {b}
    BY DEF CloseMerge, RecycleFetch, FetchFails, Fetched
  <1>5. mirrorMaster' \subseteq Work
    <2>1. CASE mirrorMaster' \in {mirrorMaster, originMaster}
      BY <2>1 DEF WorldOK
    <2>2. CASE Fetched(t) /\ \E o \in CloseOutcomes(originMaster, originBranch[b]) :
                 mirrorMaster' = o.master
      <3>1. originBranch[b] \subseteq Work  BY <1>2, <2>2 DEF Fetched, WorldOK
      <3>2. PICK o \in CloseOutcomes(originMaster, originBranch[b]) : mirrorMaster' = o.master
        BY <2>2
      <3>3. \E x \in {originMaster, originBranch[b], originMaster \cup originBranch[b]},
               d \in BOOLEAN : o = [master |-> x, debt |-> d]
        BY <3>2 DEF CloseOutcomes
      <3>4. o.master \in {originMaster, originBranch[b], originMaster \cup originBranch[b]}
        BY <3>3
      <3> QED  BY <3>1, <3>2, <3>4 DEF WorldOK
    <2> QED  BY <2>1, <2>2 DEF CloseMerge, RecycleFetch, FetchFails
  <1> QED  BY <1>2, <1>3, <1>4, <1>5 DEF WorldOK, history

LEMMA PublishWorld ==
  ASSUME WorldOK, NEW t \in Tasks, Publish(t)
  PROVE  WorldOK'
  <1>1. UNCHANGED <<conts, originBranch, mirrorMaster, heads, history>>  BY DEF Publish
  <1>2. originMaster' \in {originMaster, mirrorMaster}  BY DEF Publish
  <1> QED  BY <1>1, <1>2 DEF WorldOK, history

LEMMA DestroyWorld ==
  ASSUME WorldOK, NEW t \in Tasks, Destroy(t) \/ RecycleRebind(t)
  PROVE  WorldOK'
  <1>1. UNCHANGED <<git, history>>  BY DEF Destroy, RecycleRebind
  <1>2. UNCHANGED conts \/ conts' = [conts EXCEPT ![Runtime(t)] = None]
    BY DEF Destroy, RecycleRebind
  <1> QED  BY <1>1, <1>2 DEF WorldOK, git, history

LEMMA RemoveWorld ==
  ASSUME WorldOK, NEW t \in Tasks, CloseRemove(t) \/ ReapRemove(t)
  PROVE  WorldOK'
  <1>1. UNCHANGED <<conts, originMaster, mirrorMaster, used, author, acked>>
    BY DEF CloseRemove, ReapRemove, git
  <1>2. heads' \subseteq heads
    BY DEF CloseRemove, ReapRemove, git
  <1>3. \/ UNCHANGED originBranch
        \/ originBranch' = [originBranch EXCEPT ![task[t].local.branch] = None]
    BY DEF CloseRemove, ReapRemove, git
  <1>4. \E how \in {"merged", "debt", "reaped"} :
          outcome' = [outcome EXCEPT ![task[t].sid] = how]
    BY DEF CloseRemove, ReapRemove
  <1> QED  BY <1>1, <1>2, <1>3, <1>4 DEF WorldOK

LEMMA DriverWorld ==
  ASSUME ControlInv, WorldOK, NEW s \in Sessions, NEW w \in Work, Edit(s, w) \/ Commit(s, w)
  PROVE  WorldOK'
  <1> DEFINE n == Container(s, recs[s])
  <1>1. DriverMayWrite(s, w) /\ Wrote(s, w)  BY DEF Edit, Commit
  <1>2. recs[s] \in BoundRecord
    BY <1>1 DEF DriverMayWrite, ControlInv, ControlOK, Stores
  <1>3. n \in Names  BY <1>2, ContainerOK
  <1>4. conts[n] \in Workspace  BY <1>1, <1>3 DEF DriverMayWrite, WorldOK
  <1>5. conts' = [conts EXCEPT ![n].tree = @ \cup {w}] /\ author' = [author EXCEPT ![w] = s]
    BY <1>1 DEF Wrote
  <1>6. \/ UNCHANGED originBranch
        \/ originBranch' = [originBranch EXCEPT ![conts[n].branch] = conts[n].tree \cup {w}]
    BY DEF Edit, Commit, git
  <1>7. acked' \subseteq acked \cup {w}  BY DEF Edit, Commit
  <1>8. UNCHANGED <<originMaster, mirrorMaster, heads, used, outcome>>
    BY DEF Edit, Commit, git
  <1> HIDE DEF n
  <1>9. conts' \in [Names -> Workspace \cup {None}]
    BY <1>3, <1>4, <1>5 DEF WorldOK, Workspace
  <1>10. originBranch' \in [Sessions -> (SUBSET Work) \cup {None}]
    BY <1>4, <1>6 DEF WorldOK, Workspace
  <1> QED  BY <1>5, <1>7, <1>8, <1>9, <1>10 DEF WorldOK

LEMMA WorldStep ==
  ASSUME ControlInv, WorldOK, [Next]_vars
  PROVE  WorldOK'
  <1>1. ASSUME NEW t \in Tasks, NEW s \in Sessions, Request(t, s)
        PROVE  WorldOK'
    <2>1. CASE CloseBegin(t, s) \/ RecycleBegin(t, s)
      BY <2>1, StutterWorld DEF CloseBegin, RecycleBegin, Claim
    <2>2. CASE ReapObserve(t, s)
      BY <2>2, StutterWorld DEF ReapObserve
    <2> QED  BY <1>1, <2>1, <2>2, OpenWorld, PushWorld DEF Request
  <1>2. ASSUME NEW t \in Tasks, Locking(t)
        PROVE  WorldOK'
    <2>1. CASE FinishBegin(t) \/ ReapBegin(t)
      BY <2>1, StutterWorld DEF FinishBegin, ReapBegin, Claim
    <2> QED  BY <1>2, <2>1, MergeWorld DEF Locking
  <1>3. ASSUME NEW t \in Tasks, Running(t)
        PROVE  WorldOK'
    <2>1. CASE OpenImage(t) \/ Layer(t) \/ WorkerDone(t)
      BY <2>1, StutterWorld DEF OpenImage, Layer, WorkerDone
    <2> QED  BY <1>3, <2>1, OpenWorld, CreateWorld, BootWorld, PushWorld, PublishWorld,
                DestroyWorld, RemoveWorld DEF Running
  <1>4. ASSUME NEW s \in Sessions, NEW w \in Work, Edit(s, w) \/ Commit(s, w)
        PROVE  WorldOK'
    BY <1>4, DriverWorld
  <1>5. CASE OthersPersist \/ Crash
    BY <1>5, StutterWorld DEF OthersPersist, Crash
  <1>6. CASE Rest \/ UNCHANGED vars
    BY <1>6, StutterWorld DEF Rest, vars, git, history
  <1> QED
    BY <1>1, <1>2, <1>3, <1>4, <1>5, <1>6, BootWorld DEF Next

LEMMA WorldInit == Init => WorldOK
  <1> SUFFICES ASSUME Init  PROVE WorldOK
    OBVIOUS
  <1>1. conts \in [Names -> Workspace \cup {None}]
    <2>1. ASSUME NEW s \in Legacy
          PROVE  [branch |-> s, tree |-> {}, booted |-> TRUE] \in Workspace
      BY ConstantsAssumption DEF Workspace
    <2> QED  BY <2>1 DEF Init
  <1>2. originBranch \in [Sessions -> (SUBSET Work) \cup {None}]  BY DEF Init
  <1>3. outcome \in [Sessions -> {"none", "merged", "debt", "reaped"}]  BY DEF Init
  <1> QED  BY <1>1, <1>2, <1>3, ConstantsAssumption DEF Init, WorldOK

\* The record store, the snapshot, the tasks, git and the containers keep
\* their types through every handler, failure, cancellation and crash; no
\* recycle runs past the last generation.
THEOREM TypeCorrect == Spec => []TypeOK
  <1>1. Init => Inv
    BY ControlInit, WorldInit DEF Inv
  <1>2. Inv /\ [Next]_vars => Inv'
    BY ControlStep, WorldStep DEF Inv
  <1> QED  BY <1>1, <1>2, InvImpliesTypeOK, PTL DEF Spec

=============================================================================
