------------------------ MODULE SessionBinding_proofs ------------------------
(***************************************************************************)
(* Which record, container and branch belong together, in memory, in the   *)
(* snapshot and in a task's local copy: a session has one runtime, and a   *)
(* transition destroys no container but its own.                           *)
(***************************************************************************)
EXTENDS SessionSafety_proofs, FiniteSetTheorems

-----------------------------------------------------------------------------
(* Vocabulary                                                              *)

\* Two records of the old snapshot claim the one legacy container.
Disputed == \E s, o \in Legacy : s # o

\* Two records name the same branch and container, or there is none in either.
Same(x, l) ==
  /\ x = None <=> l = None
  /\ l # None => x.branch = l.branch /\ x.gen = l.gen /\ x.bound = l.bound

Place(k) == Container(k.sid, k.local)

\* The containers a transition of session s may touch.
Own(s) == {<<s, g>> : g \in 1..MaxGen} \cup {n \in {Alias} : s \in Legacy /\ ~Disputed}

\* A task on its way to a new container, and one whose container is not there.
Opening(k)    == k.kind \in {"open", "open_human"}
Allocating(k) == k.pc \in {"orphan", "layer", "create", "boot"} \/ (k.pc = "image" /\ Opening(k))
Vacant(k)     == k.pc \in {"orphan", "layer", "create", "remove"} \/ (k.pc = "image" /\ Opening(k))

\* A task past its checkpoint: what the workspace held is on the remote branch.
Checkpointed(k) == k.pc \in {"mirror", "publish", "destroy", "remove"}
                   \/ (k.pc = "image" /\ k.kind = "recycle")

\* The steps each request goes through.
OnItsWay(k) ==
  \/ Opening(k) /\ k.pc \in {"orphan", "image", "layer", "create", "boot"}
  \/ k.kind = "recycle" /\ k.pc \in {"flush", "mirror", "image", "layer", "create", "boot"}
  \/ k.kind \in {"close", "finish"} /\ k.pc \in {"flush", "mirror", "publish", "destroy", "remove"}
  \/ k.kind = "reap" /\ k.pc \in {"flush", "destroy", "remove"}

-----------------------------------------------------------------------------
(* How a task's step writes: t leaves its session's record with the        *)
(* binding of l, the debts as d, itself as k. The snapshot either follows  *)
(* or stays, and stays behind only when the task is done.                  *)

Moves(t, s, l, d, k) ==
  /\ task' = [task EXCEPT ![t] = k]
  /\ \A o \in Sessions \ {s} : recs'[o] = recs[o]
  /\ Same(recs'[s], l)
  /\ debts' = d
  /\ \/ disk' = disk /\ (Working(k) => Same(disk.recs[s], l))
     \/ /\ \A o \in Sessions \ {s} : disk'.recs[o] = recs[o]
        /\ Same(disk'.recs[s], l)
        /\ disk'.debts = d

LEMMA SameRefl == \A x : Same(x, x)
  BY DEF Same

LEMMA SameTrans == \A x, y, z : Same(x, y) /\ Same(y, z) => Same(x, z)
  BY DEF Same

LEMMA SameSym == \A x, y : Same(x, y) => Same(y, x)
  BY DEF Same

LEMMA MarkSame ==
  ASSUME NEW r \in Stores, NEW s \in Sessions, r[s] \in BoundRecord,
         NEW life \in Lifecycle, NEW err \in Failure
  PROVE  Same(Mark(r, s, life, err)[s], r[s])
  <1> DEFINE m == [r[s] EXCEPT !.life = life, !.err = err]
  <1>1. m.branch = r[s].branch /\ m.gen = r[s].gen /\ m.bound = r[s].bound
    BY DEF BoundRecord, Record
  <1>2. Mark(r, s, life, err)[s] = m  BY DEF Mark, Stores
  <1>3. Mark(r, s, life, err)[s] # None /\ r[s] # None
    BY MarkOK, NoneIsNoRecord DEF BoundRecord
  <1> QED  BY <1>1, <1>2, <1>3 DEF Same

\* A failure marks the record of a session that is mine and changes no binding.
LEMMA FailedMoves ==
  ASSUME ControlInv, NEW t \in Tasks, NEW s \in Sessions, NEW r \in Stores,
         r[s] \in BoundRecord, \A o \in Sessions \ {s} : r[o] = recs[o],
         NEW d, NEW code \in Failure, Failed(t, s, code, r, d),
         MaybeSaved \/ disk' = [recs |-> r, debts |-> d]
  PROVE  Moves(t, s, r[s], d, Idle)
  <1>1. recs' = Mark(r, s, "failed", code) /\ debts' = d /\ task' = [task EXCEPT ![t] = Idle]
    BY DEF Failed, Release
  <1>2. "failed" \in Lifecycle  BY DEF Lifecycle
  <1>3. \A o \in Sessions \ {s} : recs'[o] = recs[o]
    BY <1>1, <1>2, MarkOK
  <1>4. Same(recs'[s], r[s])
    BY <1>1, <1>2, MarkSame
  <1>5. \/ disk' = disk
        \/ /\ \A o \in Sessions \ {s} : disk'.recs[o] = recs[o]
           /\ Same(disk'.recs[s], r[s])
           /\ disk'.debts = d
    BY <1>1, <1>3, <1>4, SameRefl DEF MaybeSaved, Saved
  <1>6. ~Working(Idle)  BY IdleOK
  <1> HIDE DEF Idle
  <1> QED  BY <1>1, <1>3, <1>4, <1>5, <1>6 DEF Moves

\* A step that fails where it stands keeps the binding there is.
LEMMA FailMoves ==
  ASSUME ControlInv, NEW t \in Tasks, NEW s \in Sessions, recs[s] \in BoundRecord,
         NEW f, FailHere(t, s) \/ FailInjected(t, f, s)
  PROVE  Moves(t, s, recs[s], debts, Idle)
  <1>1. Fail(t, s, "other", recs, debts) /\ recs \in Stores
    BY DEF FailHere, FailInjected, ControlInv, ControlOK
  <1> QED  BY <1>1, FailedMoves DEF Failure, Fail

\* A put that is persisted goes on as k; one that is not fails.
LEMMA PersistMoves ==
  ASSUME ControlInv, NEW t \in Tasks, NEW s \in Sessions, NEW r \in Stores,
         r[s] \in BoundRecord, \A o \in Sessions \ {s} : r[o] = recs[o],
         NEW d, NEW k, TryPersist(t, s, r, d, k)
  PROVE  Moves(t, s, r[s], d, Idle) \/ Moves(t, s, r[s], d, k)
  <1>1. CASE /\ Failed(t, s, "other", r, d)
             /\ MaybeSaved \/ disk' = [recs |-> r, debts |-> d]
    BY <1>1, FailedMoves DEF Failure
  <1>2. CASE recs' = r /\ debts' = d /\ Saved /\ task' = [task EXCEPT ![t] = k]
    BY <1>2, SameRefl DEF Moves, Saved
  <1> QED  BY <1>1, <1>2 DEF TryPersist

LEMMA PutMoves ==
  ASSUME ControlInv, NEW t \in Tasks, Working(task[t]), NEW l \in BoundRecord, NEW d, NEW k,
         TryPersist(t, task[t].sid, [recs EXCEPT ![task[t].sid] = l], d, k)
  PROVE  Moves(t, task[t].sid, l, d, Idle) \/ Moves(t, task[t].sid, l, d, k)
  <1> DEFINE s == task[t].sid
             r == [recs EXCEPT ![s] = l]
  <1>1. r \in Stores /\ r[s] = l /\ \A o \in Sessions \ {s} : r[o] = recs[o]
    BY WorkingOK DEF Stores
  <1>2. TryPersist(t, s, r, d, k)  OBVIOUS
  <1> HIDE DEF r
  <1> QED  BY <1>1, <1>2, WorkingOK, PersistMoves

-----------------------------------------------------------------------------
(* Bindings                                                                *)
(*                                                                         *)
(* Which container a record names, in memory and in the snapshot; what a   *)
(* task at work may rely on about its record and its container.            *)

\* Record x of session s, among containers c.
Fit(s, x, c) ==
  /\ x # None /\ ~x.bound => s \in Legacy /\ x.branch = s
  /\ \A g \in 1..MaxGen : c[<<s, g>>] # None =>
       x # None /\ x.bound /\ x.gen = g /\ x.branch = c[<<s, g>>].branch
  /\ s \in Legacy /\ (Disputed \/ c[Alias] # None) => x # None /\ ~x.bound

\* What a task k at work knows: of its record x, the snapshot's y, its container
\* c and its session's outcome how.
Knows(k, x, y, c, how) ==
  /\ Same(x, k.local) /\ Same(y, k.local)
  /\ k.sid \in Legacy => ~Disputed
  /\ Allocating(k) => k.local.bound
  /\ Vacant(k) => c = None
  /\ k.pc = "boot" => c # None /\ ~c.booted /\ c.tree = {}
  /\ how # "none" => k.pc = "flush"

\* An ended session has no container and never gets one again.
Ended(s) == outcome[s] # "none" =>
  /\ s \in used
  /\ \A g \in 1..MaxGen : conts[<<s, g>>] = None
  /\ s \in Legacy => conts[Alias] = None

TasksKnow ==
  \A t \in Tasks : Working(task[t]) =>
    /\ task[t].kind \in Kinds /\ OnItsWay(task[t])
    /\ Knows(task[t], recs[task[t].sid], disk.recs[task[t].sid],
             conts[Place(task[t])], outcome[task[t].sid])

Bindings ==
  /\ \A s \in Sessions :
       /\ Fit(s, recs[s], conts) /\ Fit(s, disk.recs[s], conts) /\ Ended(s)
       /\ recs[s] # None \/ disk.recs[s] # None => s \in used
  /\ Legacy \subseteq used
  /\ conts[Alias] # None => conts[Alias].branch \in Legacy

BindInv == BranchInv /\ TasksKnow /\ Bindings

LEMMA FitSame == \A s, x, y, c : Same(x, y) /\ Fit(s, y, c) => Fit(s, x, c)
  BY DEF Same, Fit

\* Nothing that happens in the containers of s concerns another session.
LEMMA FitElsewhere ==
  ASSUME NEW s \in Sessions, NEW o \in Sessions \ {s}, NEW x, NEW c, NEW d,
         \A n \in Names \ Own(s) : d[n] = c[n], Fit(o, x, c)
  PROVE  Fit(o, x, d)
  <1>1. \A g \in 1..MaxGen : d[<<o, g>>] = c[<<o, g>>]
    <2> SUFFICES ASSUME NEW g \in 1..MaxGen  PROVE <<o, g>> \in Names \ Own(s)
      OBVIOUS
    <2> QED  BY ConstantsAssumption DEF Names, Own, Alias
  <1>2. o \in Legacy => d[Alias] = c[Alias]
    <2> SUFFICES ASSUME o \in Legacy  PROVE Alias \in Names \ Own(s)
      OBVIOUS
    <2> QED  BY ConstantsAssumption DEF Names, Own, Alias, Disputed
  <1> QED  BY <1>1, <1>2 DEF Fit

\* A task at work stays in the containers of its own session.
LEMMA PlaceOwn ==
  ASSUME BindInv, NEW t \in Tasks, Working(task[t])
  PROVE  /\ Place(task[t]) \in Own(task[t].sid)
         /\ Place(task[t]) \in Names
         /\ task[t].sid \in Legacy => ~Disputed
  <1> DEFINE k == task[t]
  <1>1. k.sid \in Sessions /\ k.local \in BoundRecord /\ recs[k.sid] \in BoundRecord
    BY WorkingOK DEF BindInv, BranchInv, Inv
  <1>2. Same(recs[k.sid], k.local) /\ (k.sid \in Legacy => ~Disputed)
    BY DEF BindInv, TasksKnow, Knows
  <1>3. k.local # None  BY <1>1, NoneIsNoRecord DEF BoundRecord
  <1>4. ~k.local.bound => k.sid \in Legacy
    BY <1>1, <1>2, <1>3 DEF BindInv, Bindings, Fit, Same
  <1>5. k.local.bound => k.local.gen \in 1..MaxGen  BY <1>1 DEF BoundRecord
  <1> QED  BY <1>1, <1>2, <1>4, <1>5 DEF Place, Container, Own, Names

LEMMA OwnApart ==
  ASSUME NEW s \in Sessions, NEW o \in Sessions \ {s}
  PROVE  Own(s) \cap Own(o) = {}
  BY ConstantsAssumption DEF Own, Alias, Disputed

LEMMA KnowsSame ==
  \A k, l, x, y, c, how :
    Same(x, l) /\ Same(y, l) /\ Knows(k, l, l, c, how) => Knows(k, x, y, c, how)
  BY SameTrans DEF Knows

\* One task moves within its session: everybody else knows what they knew.
LEMMA OthersKnow ==
  ASSUME BindInv, NEW t \in Tasks, NEW s \in Sessions, Mine(t, s),
         NEW l, NEW d, NEW k, Moves(t, s, l, d, k),
         NEW u \in Tasks \ {t}, Working(task[u])
  PROVE  /\ task[u].sid \in Sessions \ {s}
         /\ task'[u] = task[u]
         /\ recs'[task[u].sid] = recs[task[u].sid]
         /\ Same(disk'.recs[task[u].sid], task[u].local)
  <1> DEFINE o == task[u].sid
  <1>0. ControlInv  BY DEF BindInv, BranchInv, Inv
  <1>1. o \in Sessions /\ HeldSession(task[u], o)
    BY <1>0, WorkingOK DEF HeldSession, Working
  <1>2. o # s  BY <1>0, <1>1, MineIsMine
  <1>3. task'[u] = task[u]  BY <1>0 DEF Moves, ControlInv, ControlOK
  <1>4. Same(recs[o], task[u].local) /\ Same(disk.recs[o], task[u].local)
    BY DEF BindInv, TasksKnow, Knows
  <1> QED  BY <1>1, <1>2, <1>3, <1>4 DEF Moves

LEMMA BindMove ==
  ASSUME BindInv, BranchInv', NEW t \in Tasks, NEW s \in Sessions, Mine(t, s),
         NEW l, NEW d, NEW k, Moves(t, s, l, d, k),
         \A n \in Names \ Own(s) : conts'[n] = conts[n],
         conts'[Alias] \in {conts[Alias], None},
         \A o \in Sessions \ {s} : outcome'[o] = outcome[o], used \subseteq used', s \in used',
         Fit(s, l, conts'), disk' = disk => Fit(s, disk.recs[s], conts'), Ended(s)',
         Working(k) => /\ k.sid = s /\ k.kind \in Kinds /\ OnItsWay(k)
                       /\ Knows(k, l, l, conts'[Place(k)], outcome'[s])
  PROVE  BindInv'
  <1>0. ControlInv  BY DEF BindInv, BranchInv, Inv
  <1>1. task'[t] = k  BY <1>0 DEF Moves, ControlInv, ControlOK
  <1>2. TasksKnow'
    <2> SUFFICES ASSUME NEW u \in Tasks, Working(task'[u])
                 PROVE  /\ task'[u].kind \in Kinds /\ OnItsWay(task'[u])
                        /\ Knows(task'[u], recs'[task'[u].sid], disk'.recs[task'[u].sid],
                                 conts'[Place(task'[u])], outcome'[task'[u].sid])
      BY DEF TasksKnow, Working, OnItsWay, Opening, Knows, Allocating, Vacant, Place
    <2>1. CASE u = t
      <3>1. Same(recs'[s], l) /\ Same(disk'.recs[s], l)
        BY <1>1, <2>1 DEF Moves
      <3> QED  BY <1>1, <2>1, <3>1, KnowsSame
    <2>2. CASE u # t
      <3>1. task'[u] = task[u]  BY <1>0, <2>2 DEF Moves, ControlInv, ControlOK
      <3>2. Working(task[u])  BY <3>1
      <3> DEFINE o == task[u].sid
      <3>3. o \in Sessions \ {s} /\ recs'[o] = recs[o] /\ Same(disk'.recs[o], task[u].local)
        BY <2>2, <3>2, OthersKnow
      <3>4. Place(task[u]) \in Names \ Own(s)
        BY <3>2, <3>3, PlaceOwn, OwnApart
      <3>5. /\ task[u].kind \in Kinds /\ OnItsWay(task[u])
            /\ Knows(task[u], recs[o], disk.recs[o], conts[Place(task[u])], outcome[o])
        BY <3>2 DEF BindInv, TasksKnow
      <3>6. conts'[Place(task[u])] = conts[Place(task[u])] /\ outcome'[o] = outcome[o]
        BY <3>3, <3>4
      <3>7. Knows(task[u], recs[o], disk'.recs[o], conts[Place(task[u])], outcome[o])
        BY <3>3, <3>5 DEF Knows
      <3> QED  BY <3>1, <3>3, <3>5, <3>6, <3>7
    <2> QED  BY <2>1, <2>2
  <1>3. Bindings'
    <2>1. ASSUME NEW o \in Sessions
          PROVE  /\ Fit(o, recs'[o], conts') /\ Fit(o, disk'.recs[o], conts') /\ Ended(o)'
                 /\ recs'[o] # None \/ disk'.recs[o] # None => o \in used'
      <3>1. CASE o = s
        <4>1. Fit(s, recs'[s], conts')  BY FitSame DEF Moves
        <4>2. Fit(s, disk'.recs[s], conts')  BY FitSame DEF Moves
        <4> QED  BY <3>1, <4>1, <4>2
      <3>2. CASE o # s
        <4>1. /\ Fit(o, recs[o], conts) /\ Fit(o, disk.recs[o], conts) /\ Ended(o)
              /\ recs[o] # None \/ disk.recs[o] # None => o \in used
          BY DEF BindInv, Bindings
        <4>2. Fit(o, recs[o], conts') /\ Fit(o, disk.recs[o], conts')
          BY <3>2, <4>1, FitElsewhere
        <4>3. recs'[o] = recs[o] /\ disk'.recs[o] \in {recs[o], disk.recs[o]}
          BY <3>2 DEF Moves
        <4>4. \A g \in 1..MaxGen : conts'[<<o, g>>] = conts[<<o, g>>]
          <5> SUFFICES ASSUME NEW g \in 1..MaxGen  PROVE <<o, g>> \in Names \ Own(s)
            OBVIOUS
          <5> QED  BY <3>2, ConstantsAssumption DEF Names, Own, Alias
        <4>5. Ended(o)'
          BY <3>2, <4>1, <4>4 DEF Ended
        <4> QED  BY <4>1, <4>2, <4>3, <4>5
      <3> QED  BY <3>1, <3>2
    <2>2. Legacy \subseteq used' /\ (conts'[Alias] # None => conts'[Alias].branch \in Legacy)
      BY DEF BindInv, Bindings
    <2> QED  BY <2>1, <2>2 DEF Bindings
  <1> QED  BY <1>2, <1>3 DEF BindInv

\* A step that changes no binding and no container of its session.
LEMMA BindStay ==
  ASSUME BindInv, BranchInv', NEW t \in Tasks, NEW s \in Sessions, Mine(t, s),
         NEW l, Same(l, recs[s]), NEW d, NEW k, Moves(t, s, l, d, k),
         UNCHANGED <<conts, outcome>>, used \subseteq used', s \in used',
         Working(k) => /\ k.sid = s /\ k.kind \in Kinds /\ OnItsWay(k)
                       /\ Knows(k, l, l, conts[Place(k)], outcome[s])
  PROVE  BindInv'
  <1>1. Fit(s, recs[s], conts) /\ Fit(s, disk.recs[s], conts) /\ Ended(s)
    BY DEF BindInv, Bindings
  <1>2. Fit(s, l, conts')  BY <1>1, FitSame
  <1>3. Ended(s)'  BY <1>1 DEF Ended
  <1> QED  BY <1>1, <1>2, <1>3, BindMove

\* A task that ends, waits or only reads, everything else as it was.
LEMMA BindQuiet ==
  ASSUME BindInv, BranchInv', NEW t \in Tasks, NEW k, ~Working(k),
         task' = [task EXCEPT ![t] = k],
         UNCHANGED <<recs, disk, conts, outcome, used>>
  PROVE  BindInv'
  <1>1. task'[t] = k /\ \A u \in Tasks \ {t} : task'[u] = task[u]
    BY DEF BindInv, BranchInv, Inv, ControlInv, ControlOK
  <1>2. TasksKnow'
    BY <1>1 DEF BindInv, TasksKnow, Working, OnItsWay, Opening, Knows, Allocating, Vacant, Place
  <1>3. Bindings'
    BY DEF BindInv, Bindings, Ended, Fit
  <1> QED  BY <1>2, <1>3 DEF BindInv

\* Everything a task at work may rely on.
LEMMA WorkingKnows ==
  ASSUME BindInv, NEW t \in Tasks, Working(task[t])
  PROVE  /\ task[t] \in TaskType /\ task[t].sid \in Sessions /\ Mine(t, task[t].sid)
         /\ task[t].local \in BoundRecord /\ task[t].local # None
         /\ recs \in Stores /\ recs[task[t].sid] \in BoundRecord
         /\ task[t].sid \in used
         /\ task[t].kind \in Kinds /\ OnItsWay(task[t])
         /\ Same(recs[task[t].sid], task[t].local)
         /\ Same(disk.recs[task[t].sid], task[t].local)
         /\ Knows(task[t], task[t].local, task[t].local, conts[Place(task[t])],
                  outcome[task[t].sid])
  BY WorkingOK, NoneIsNoRecord, SameRefl
  DEF BindInv, BranchInv, Inv, TasksKnow, Bindings, Knows, BoundRecord

-----------------------------------------------------------------------------
(* How each step of a task writes                                          *)

\* k carries on the request of task t at p, with the same binding.
Carries(k, t, p) ==
  /\ k \in TaskType /\ k.pc = p /\ k.sid = task[t].sid /\ k.kind = task[t].kind
  /\ Same(k.local, task[t].local)

LEMMA MovesSame ==
  ASSUME NEW t, NEW s, NEW l, NEW m, Same(l, m), NEW d, NEW k, Moves(t, s, l, d, k)
  PROVE  Moves(t, s, m, d, k)
  BY SameTrans DEF Moves

LEMMA FailGives ==
  ASSUME BindInv, NEW t \in Tasks, Working(task[t]),
         NEW f, FailHere(t, task[t].sid) \/ FailInjected(t, f, task[t].sid)
  PROVE  Moves(t, task[t].sid, task[t].local, debts, Idle)
  <1>1. ControlInv  BY DEF BindInv, BranchInv, Inv
  <1>2. Moves(t, task[t].sid, recs[task[t].sid], debts, Idle)
    BY <1>1, WorkingKnows, FailMoves
  <1> QED  BY <1>2, WorkingKnows, MovesSame

LEMMA GotoMoves ==
  ASSUME BindInv, NEW t \in Tasks, Working(task[t]), NEW p \in Pcs,
         Goto(t, p), UNCHANGED <<memory, disk>>
  PROVE  \E k : Moves(t, task[t].sid, task[t].local, debts, k) /\ Carries(k, t, p)
                /\ k.debt = task[t].debt
  <1> DEFINE k == [task[t] EXCEPT !.pc = p]
  <1>1. Carries(k, t, p) /\ k.debt = task[t].debt
    BY WorkingKnows, SameRefl DEF Carries, TaskType
  <1>2. task' = [task EXCEPT ![t] = k]
    BY DEF Goto, BindInv, BranchInv, Inv, ControlInv, ControlOK
  <1>3. Moves(t, task[t].sid, task[t].local, debts, k)
    <2> HIDE DEF k
    <2> QED  BY <1>2, WorkingKnows DEF Moves, memory
  <1> QED  BY <1>1, <1>3

\* Put a record of the same binding, go on to p or fail.
LEMMA PutCarries ==
  ASSUME BindInv, NEW t \in Tasks, Working(task[t]), NEW l \in BoundRecord,
         Same(l, task[t].local), NEW p \in Pcs,
         TryPersist(t, task[t].sid, [recs EXCEPT ![task[t].sid] = l], debts,
                    [task[t] EXCEPT !.pc = p, !.local = l])
  PROVE  \E k : /\ Moves(t, task[t].sid, task[t].local, debts, k)
                /\ k = Idle \/ Carries(k, t, p)
  <1> DEFINE k == [task[t] EXCEPT !.pc = p, !.local = l]
  <1>1. Carries(k, t, p)
    BY WorkingKnows DEF Carries, TaskType
  <1>2. ControlInv  BY DEF BindInv, BranchInv, Inv
  <1>3. TryPersist(t, task[t].sid, [recs EXCEPT ![task[t].sid] = l], debts, k)
    OBVIOUS
  <1> HIDE DEF k
  <1>4. Moves(t, task[t].sid, l, debts, Idle) \/ Moves(t, task[t].sid, l, debts, k)
    BY <1>2, <1>3, PutMoves
  <1> QED  BY <1>1, <1>4, MovesSame

LEMMA OpenBeginMoves ==
  ASSUME ControlInv, NEW t \in Tasks, NEW s \in Sessions,
         NEW kind \in {"open", "open_human"}, OpenBegin(t, s, kind)
  PROVE  \E k : /\ Moves(t, s, NewRecord(s), debts, k)
                /\ \/ k = Idle
                   \/ /\ k \in TaskType /\ k.pc = "orphan" /\ k.kind = kind
                      /\ k.sid = s /\ k.local = NewRecord(s)
  <1> DEFINE k == [Idle EXCEPT !.pc = "orphan", !.kind = kind, !.sid = s,
                               !.local = NewRecord(s)]
             r == [recs EXCEPT ![s] = NewRecord(s)]
  <1>1. k \in TaskType /\ k.pc = "orphan" /\ k.kind = kind /\ k.sid = s
        /\ k.local = NewRecord(s)
    BY IdleOK, NewRecordOK DEF TaskType, Pcs, TaskKinds
  <1>2. r \in Stores /\ r[s] = NewRecord(s) /\ \A o \in Sessions \ {s} : r[o] = recs[o]
    BY NewRecordOK DEF Stores, ControlInv, ControlOK
  <1>3. TryPersist(t, s, r, debts, k)  BY DEF OpenBegin
  <1> HIDE DEF r, k
  <1>4. Moves(t, s, NewRecord(s), debts, Idle) \/ Moves(t, s, NewRecord(s), debts, k)
    BY <1>2, <1>3, NewRecordOK, PersistMoves
  <1> QED  BY <1>1, <1>4

\* open resumes an orphan's branch or cuts its own.
LEMMA OpenMirrorMoves ==
  ASSUME BindInv, NEW t \in Tasks, OpenMirror(t)
  PROVE  \E k : \E b \in Sessions, l \in BoundRecord :
           /\ b = task[t].local.branch \/ b \in Orphans
           /\ l.branch = b /\ l.gen = task[t].local.gen /\ l.bound = task[t].local.bound
           /\ Moves(t, task[t].sid, l, debts, k)
           /\ \/ k = Idle
              \/ /\ mirrorMaster' = originMaster
                 /\ k \in TaskType /\ k.pc = "image" /\ k.sid = task[t].sid
                 /\ k.kind = task[t].kind /\ k.local = l
  <1> DEFINE s == task[t].sid
             mine == task[t].local
             Goal(b, l, k) ==
               /\ b = mine.branch \/ b \in Orphans
               /\ l.branch = b /\ l.gen = mine.gen /\ l.bound = mine.bound
               /\ Moves(t, s, l, debts, k)
               /\ \/ k = Idle
                  \/ /\ mirrorMaster' = originMaster
                     /\ k \in TaskType /\ k.pc = "image" /\ k.sid = s
                     /\ k.kind = task[t].kind /\ k.local = l
  <1>1. Working(task[t])  BY DEF OpenMirror, Working
  <1>2. task[t] \in TaskType /\ s \in Sessions /\ mine \in BoundRecord /\ mine.branch \in Sessions
    BY <1>1, WorkingKnows DEF BoundRecord, Record
  <1>3. CASE FailInjected(t, "mirror", s)
    <2>1. Moves(t, s, mine, debts, Idle)  BY <1>1, <1>3, FailGives
    <2>2. Goal(mine.branch, mine, Idle)  BY <2>1
    <2> HIDE DEF Goal
    <2>3. \E k : \E b \in Sessions, l \in BoundRecord : Goal(b, l, k)  BY <1>2, <2>2
    <2> QED  BY <2>3 DEF Goal
  <1>4. ASSUME NEW b \in Sessions, b = mine.branch \/ b \in Orphans, mirrorMaster' = originMaster,
               TryPersist(t, s, [recs EXCEPT ![s] = [mine EXCEPT !.branch = b]], debts,
                          [task[t] EXCEPT !.pc = "image", !.local = [mine EXCEPT !.branch = b]])
        PROVE  \E k : \E c \in Sessions, l \in BoundRecord : Goal(c, l, k)
    <2> DEFINE l == [mine EXCEPT !.branch = b]
               k == [task[t] EXCEPT !.pc = "image", !.local = l]
    <2>1. l \in BoundRecord /\ l.branch = b /\ l.gen = mine.gen /\ l.bound = mine.bound
      BY <1>2 DEF BoundRecord, Record
    <2>2. TryPersist(t, s, [recs EXCEPT ![s] = l], debts, k)  BY <1>4
    <2> HIDE DEF l
    <2>3. k \in TaskType /\ k.pc = "image" /\ k.sid = s /\ k.kind = task[t].kind /\ k.local = l
      BY <1>2, <2>1 DEF TaskType, Pcs
    <2> HIDE DEF k
    <2>4. ControlInv  BY DEF BindInv, BranchInv, Inv
    <2>5. Moves(t, s, l, debts, Idle) \/ Moves(t, s, l, debts, k)
      BY <1>1, <2>1, <2>2, <2>4, PutMoves
    <2>6. Goal(b, l, Idle) \/ Goal(b, l, k)
      BY <1>4, <2>1, <2>3, <2>5
    <2> HIDE DEF Goal
    <2> QED  BY <2>1, <2>6
  <1>5. Orphans \subseteq Sessions  BY DEF Orphans
  <1> HIDE DEF Goal
  <1>6. \E k : \E b \in Sessions, l \in BoundRecord : Goal(b, l, k)
    <2>1. CASE FailInjected(t, "mirror", s)  BY <1>3, <2>1 DEF Goal
    <2>2. CASE ~FailInjected(t, "mirror", s)
      BY <1>2, <1>4, <1>5, <2>2 DEF OpenMirror
    <2> QED  BY <2>1, <2>2
  <1> QED  BY <1>6 DEF Goal

LEMMA OpenImageMoves ==
  ASSUME BindInv, NEW t \in Tasks, OpenImage(t)
  PROVE  \E k : /\ Moves(t, task[t].sid, task[t].local, debts, k)
                /\ k = Idle \/ Carries(k, t, "layer")
  <1>1. Working(task[t])  BY DEF OpenImage, Working
  <1>2. CASE FailInjected(t, "image", task[t].sid)  BY <1>1, <1>2, FailGives
  <1>3. CASE Goto(t, "layer") /\ UNCHANGED <<memory, disk>>
    <2>1. "layer" \in Pcs  BY DEF Pcs
    <2> QED  BY <1>1, <1>3, <2>1, GotoMoves
  <1> QED  BY <1>2, <1>3 DEF OpenImage

LEMMA LayerMoves ==
  ASSUME BindInv, NEW t \in Tasks, Layer(t)
  PROVE  \E k : /\ Moves(t, task[t].sid, task[t].local, debts, k)
                /\ k = Idle \/ Carries(k, t, "create")
  <1> DEFINE l == IF task[t].kind = "recycle"
                    THEN [task[t].local EXCEPT !.owned = FALSE, !.life = "recycling"]
                    ELSE task[t].local
  <1>1. Working(task[t])  BY DEF Layer, Working
  <1>2. l \in BoundRecord /\ Same(l, task[t].local)
    <2>1. l \in BoundRecord /\ l.branch = task[t].local.branch /\ l.gen = task[t].local.gen
          /\ l.bound = task[t].local.bound
      BY <1>1, WorkingKnows DEF BoundRecord, Record, Lifecycle
    <2> HIDE DEF l
    <2> QED  BY <1>1, <2>1, WorkingKnows, NoneIsNoRecord DEF Same, BoundRecord
  <1>3. TryPersist(t, task[t].sid, [recs EXCEPT ![task[t].sid] = l], debts,
                   [task[t] EXCEPT !.pc = "create", !.local = l])
    BY DEF Layer
  <1>4. "create" \in Pcs  BY DEF Pcs
  <1> HIDE DEF l
  <1> QED  BY <1>1, <1>2, <1>3, <1>4, PutCarries

LEMMA CreateMoves ==
  ASSUME BindInv, NEW t \in Tasks, Create(t)
  PROVE  \E k : /\ Moves(t, task[t].sid, task[t].local, debts, k)
                /\ \/ k = Idle /\ UNCHANGED conts
                   \/ /\ k = Idle \/ Carries(k, t, "boot")
                      /\ Allocate(Place(task[t]), task[t].local.branch)
  <1> DEFINE l == [task[t].local EXCEPT !.owned = TRUE]
  <1>1. Working(task[t])  BY DEF Create, Working
  <1>2. l \in BoundRecord /\ Same(l, task[t].local) /\ l.branch = task[t].local.branch
    <2>1. l \in BoundRecord /\ l.branch = task[t].local.branch /\ l.gen = task[t].local.gen
          /\ l.bound = task[t].local.bound
      BY <1>1, WorkingKnows DEF BoundRecord, Record
    <2> HIDE DEF l
    <2> QED  BY <1>1, <2>1, WorkingKnows, NoneIsNoRecord DEF Same, BoundRecord
  <1>3. CASE FailInjected(t, "docker", task[t].sid) /\ UNCHANGED conts
    BY <1>1, <1>3, FailGives
  <1>4. CASE FailHere(t, task[t].sid) /\ UNCHANGED conts
    BY <1>1, <1>4, FailGives
  <1>5. CASE /\ Allocate(Place(task[t]), l.branch)
             /\ TryPersist(t, task[t].sid, [recs EXCEPT ![task[t].sid] = l], debts,
                           [task[t] EXCEPT !.pc = "boot", !.local = l])
    <2>1. "boot" \in Pcs  BY DEF Pcs
    <2> HIDE DEF l
    <2>2. PICK k : /\ Moves(t, task[t].sid, task[t].local, debts, k)
                   /\ k = Idle \/ Carries(k, t, "boot")
      BY <1>1, <1>2, <1>5, <2>1, PutCarries
    <2> QED  BY <1>2, <1>5, <2>2
  <1> QED  BY <1>3, <1>4, <1>5 DEF Create, Place

LEMMA BootMoves ==
  ASSUME BindInv, NEW t \in Tasks, Boot(t)
  PROVE  /\ Moves(t, task[t].sid, task[t].local, debts, Idle)
         /\ Bootstrap(t) \/ UNCHANGED <<conts, originBranch>>
  <1> DEFINE l == [task[t].local EXCEPT !.life = "active", !.err = "none"]
             s == task[t].sid
  <1>1. Working(task[t])  BY DEF Boot, Working
  <1>2. CASE FailInjected(t, "boot", s) /\ (Bootstrap(t) \/ UNCHANGED <<conts, originBranch>>)
    BY <1>1, <1>2, FailGives
  <1>3. CASE FailHere(t, s) /\ UNCHANGED <<conts, originBranch>>
    BY <1>1, <1>3, FailGives
  <1>4. CASE Bootstrap(t) /\ TryPersist(t, s, [recs EXCEPT ![s] = l], debts, Idle)
    <2>1. l \in BoundRecord /\ l.branch = task[t].local.branch /\ l.gen = task[t].local.gen
          /\ l.bound = task[t].local.bound
      BY <1>1, WorkingKnows DEF BoundRecord, Record, Lifecycle, Failure
    <2> HIDE DEF l
    <2>2. Same(l, task[t].local)
      BY <1>1, <2>1, WorkingKnows, NoneIsNoRecord DEF Same, BoundRecord
    <2>3. ControlInv  BY DEF BindInv, BranchInv, Inv
    <2>4. Moves(t, s, l, debts, Idle)
      BY <1>1, <1>4, <2>1, <2>3, PutMoves
    <2> QED  BY <1>4, <2>2, <2>4, MovesSame
  <1> QED  BY <1>2, <1>3, <1>4 DEF Boot

\* close, recycle and reap start from the record as it is, undisputed.
LEMMA ClaimMoves ==
  ASSUME ControlInv, NEW t \in Tasks, NEW s \in Sessions, recs[s] # None,
         NEW kind \in TaskKinds, NEW seen \in 0..MaxGen, NEW life \in {"closing", "recycling"},
         Claim(t, s, kind, seen, life)
  PROVE  \E k : /\ Moves(t, s, recs[s], debts, k)
                /\ \/ k = Idle
                   \/ /\ BindingSafe(s)
                      /\ k \in TaskType /\ k.pc = "flush" /\ k.kind = kind
                      /\ k.sid = s /\ k.local = recs[s]
  <1> DEFINE k == [Idle EXCEPT !.pc = "flush", !.kind = kind, !.sid = s,
                               !.seen = seen, !.local = recs[s]]
             r == Mark(recs, s, life, "none")
  <1>1. recs \in Stores /\ recs[s] \in BoundRecord
    BY DEF ControlInv, ControlOK, Stores
  <1>2. CASE Fail(t, s, "legacy_ownership_ambiguous", recs, debts)
    BY <1>1, <1>2, FailedMoves DEF Failure, Fail
  <1>3. CASE FailHere(t, s)
    BY <1>1, <1>3, FailMoves
  <1>4. CASE BindingSafe(s) /\ TryPersist(t, s, r, debts, k)
    <2>1. life \in Lifecycle /\ "none" \in Failure  BY DEF Lifecycle, Failure
    <2>2. r \in Stores /\ r[s] \in BoundRecord /\ \A o \in Sessions \ {s} : r[o] = recs[o]
      BY <1>1, <2>1, MarkOK
    <2>3. Same(r[s], recs[s])  BY <1>1, <2>1, MarkSame
    <2>4. k \in TaskType /\ k.pc = "flush" /\ k.kind = kind /\ k.sid = s /\ k.local = recs[s]
      BY <1>1, IdleOK DEF TaskType, Pcs
    <2> HIDE DEF r, k
    <2>5. Moves(t, s, r[s], debts, Idle) \/ Moves(t, s, r[s], debts, k)
      BY <1>4, <2>2, PersistMoves
    <2> QED  BY <1>4, <2>3, <2>4, <2>5, MovesSame
  <1> QED  BY <1>2, <1>3, <1>4 DEF Claim

LEMMA FlushMoves ==
  ASSUME BindInv, NEW t \in Tasks, Flush(t)
  PROVE  \E k : /\ Moves(t, task[t].sid, task[t].local, debts, k)
                /\ \/ k = Idle
                   \/ /\ Carries(k, t, IF task[t].kind = "reap" THEN "destroy" ELSE "mirror")
                      /\ k.debt = task[t].debt
                      /\ CanPush(Place(task[t])) /\ originBranch' = Pushed(Place(task[t]))
  <1> DEFINE p == IF task[t].kind = "reap" THEN "destroy" ELSE "mirror"
  <1>1. Working(task[t])  BY DEF Flush, Working
  <1>2. CASE FailInjected(t, "flush", task[t].sid)  BY <1>1, <1>2, FailGives
  <1>3. CASE FailHere(t, task[t].sid)  BY <1>1, <1>3, FailGives
  <1>4. CASE /\ CanPush(Place(task[t])) /\ originBranch' = Pushed(Place(task[t]))
             /\ Goto(t, p) /\ UNCHANGED <<memory, disk>>
    <2>1. p \in Pcs  BY DEF Pcs
    <2> HIDE DEF p
    <2> QED  BY <1>1, <1>4, <2>1, GotoMoves DEF p
  <1> QED  BY <1>2, <1>3, <1>4 DEF Flush, Runtime, Place

LEMMA FetchFailsMoves ==
  ASSUME BindInv, NEW t \in Tasks, Working(task[t]), FetchFails(t)
  PROVE  Moves(t, task[t].sid, task[t].local, debts, Idle)
  BY FailGives DEF FetchFails

LEMMA CloseMergeMoves ==
  ASSUME BindInv, NEW t \in Tasks, CloseMerge(t)
  PROVE  \E k : /\ Moves(t, task[t].sid, task[t].local, debts, k)
                /\ \/ k = Idle /\ mirrorMaster' \in {mirrorMaster, originMaster}
                   \/ /\ Carries(k, t, "publish")
                      /\ originBranch[task[t].local.branch] # None
                      /\ \E o \in CloseOutcomes(originMaster, originBranch[task[t].local.branch]) :
                           mirrorMaster' = o.master /\ k.debt = o.debt
  <1> DEFINE b == task[t].local.branch
  <1>1. Working(task[t])  BY DEF CloseMerge, Working
  <1>2. CASE FetchFails(t)
    BY <1>1, <1>2, FetchFailsMoves DEF FetchFails
  <1>3. ASSUME Fetched(t), NEW o \in CloseOutcomes(originMaster, originBranch[b]),
               mirrorMaster' = o.master,
               task' = [task EXCEPT ![t] = [@ EXCEPT !.pc = "publish", !.debt = o.debt]]
        PROVE  \E k : /\ Moves(t, task[t].sid, task[t].local, debts, k)
                      /\ Carries(k, t, "publish")
                      /\ originBranch[b] # None /\ mirrorMaster' = o.master /\ k.debt = o.debt
    <2> DEFINE k == [task[t] EXCEPT !.pc = "publish", !.debt = o.debt]
    <2>1. \E x \in {originMaster, originBranch[b], originMaster \cup originBranch[b]},
             d \in BOOLEAN : o = [master |-> x, debt |-> d]
      BY <1>3 DEF CloseOutcomes
    <2>2. o.debt \in BOOLEAN  BY <2>1
    <2>3. Carries(k, t, "publish") /\ k.debt = o.debt
      BY <1>1, <2>2, WorkingKnows, SameRefl DEF Carries, TaskType, Pcs
    <2>4. task' = [task EXCEPT ![t] = k]  BY <1>3
    <2> HIDE DEF k
    <2>5. Moves(t, task[t].sid, task[t].local, debts, k)
      BY <1>1, <1>3, <2>4, WorkingKnows DEF Moves, Fetched, memory
    <2> QED  BY <1>3, <2>3, <2>5 DEF Fetched
  <1> HIDE DEF b
  <1> QED  BY <1>2, <1>3 DEF CloseMerge, b

LEMMA RecycleFetchMoves ==
  ASSUME BindInv, NEW t \in Tasks, RecycleFetch(t)
  PROVE  \E k : /\ Moves(t, task[t].sid, task[t].local, debts, k)
                /\ k = Idle \/ Carries(k, t, "image")
  <1>1. Working(task[t])  BY DEF RecycleFetch, Working
  <1>2. CASE FetchFails(t)  BY <1>1, <1>2, FetchFailsMoves
  <1>3. CASE Fetched(t) /\ Goto(t, "image")
    <2>1. "image" \in Pcs  BY DEF Pcs
    <2> QED  BY <1>1, <1>3, <2>1, GotoMoves DEF Fetched
  <1> QED  BY <1>2, <1>3 DEF RecycleFetch

\* close records the debt, or pushes what it merged, before any cleanup.
LEMMA PublishMoves ==
  ASSUME BindInv, NEW t \in Tasks, Publish(t)
  PROVE  \E d, k :
           /\ Moves(t, task[t].sid, task[t].local, d, k)
           /\ k = Idle \/ (Carries(k, t, "destroy") /\ k.debt = task[t].debt)
           /\ \/ /\ task[t].debt /\ d = debts \cup {task[t].local.branch}
                 /\ UNCHANGED originMaster
              \/ /\ ~task[t].debt /\ d = debts /\ originMaster' = mirrorMaster
              \/ /\ d = debts /\ k = Idle /\ UNCHANGED originMaster
  <1> DEFINE s == task[t].sid
             k == [task[t] EXCEPT !.pc = "destroy"]
  <1>1. Working(task[t])  BY DEF Publish, Working
  <1>2. CASE FailInjected(t, "push", s) /\ ~task[t].debt
             /\ originMaster' \in {originMaster, mirrorMaster}
    BY <1>1, <1>2, FailGives
  <1>3. CASE FailHere(t, s) /\ UNCHANGED originMaster
    BY <1>1, <1>3, FailGives
  <1>4. ASSUME NEW d, TryPersist(t, s, recs, d, k)
        PROVE  \E x : /\ Moves(t, s, task[t].local, d, x)
                      /\ x = Idle \/ (Carries(x, t, "destroy") /\ x.debt = task[t].debt)
    <2>1. Carries(k, t, "destroy") /\ k.debt = task[t].debt
      BY <1>1, WorkingKnows, SameRefl DEF Carries, TaskType, Pcs
    <2>2. ControlInv  BY DEF BindInv, BranchInv, Inv
    <2> HIDE DEF k
    <2>3. Moves(t, s, recs[s], d, Idle) \/ Moves(t, s, recs[s], d, k)
      BY <1>1, <1>4, <2>2, WorkingKnows, PersistMoves
    <2> QED  BY <1>1, <2>1, <2>3, WorkingKnows, MovesSame
  <1>5. CASE task[t].debt /\ TryPersist(t, s, recs, debts \cup {task[t].local.branch}, k)
             /\ UNCHANGED originMaster
    <2> HIDE DEF k
    <2> QED  BY <1>4, <1>5
  <1>6. CASE ~task[t].debt /\ TryPersist(t, s, recs, debts, k) /\ originMaster' = mirrorMaster
    <2> HIDE DEF k
    <2> QED  BY <1>4, <1>6
  <1> QED  BY <1>2, <1>3, <1>5, <1>6 DEF Publish

LEMMA DestroyMoves ==
  ASSUME BindInv, NEW t \in Tasks, Destroy(t)
  PROVE  \E k : /\ Moves(t, task[t].sid, task[t].local, debts, k)
                /\ \/ k = Idle /\ UNCHANGED conts
                   \/ /\ Carries(k, t, "remove") /\ k.debt = task[t].debt
                      /\ conts' = [conts EXCEPT ![Place(task[t])] = None]
  <1>1. Working(task[t])  BY DEF Destroy, Working
  <1>2. CASE FailInjected(t, "docker", task[t].sid) /\ UNCHANGED conts
    BY <1>1, <1>2, FailGives
  <1>3. CASE /\ conts' = [conts EXCEPT ![Place(task[t])] = None]
             /\ Goto(t, "remove") /\ UNCHANGED <<memory, disk>>
    <2>1. "remove" \in Pcs  BY DEF Pcs
    <2> QED  BY <1>1, <1>3, <2>1, GotoMoves
  <1> QED  BY <1>2, <1>3 DEF Destroy, Runtime, Place

LEMMA RemoveMoves ==
  ASSUME BindInv, NEW t \in Tasks, CloseRemove(t) \/ ReapRemove(t)
  PROVE  Moves(t, task[t].sid, None, debts', Idle)
  <1>1. Working(task[t])  BY DEF CloseRemove, ReapRemove, Working
  <1>2. /\ recs' = [recs EXCEPT ![task[t].sid] = None]
        /\ MaybeSaved
        /\ task' = [task EXCEPT ![t] = Idle]
    BY DEF CloseRemove, ReapRemove, Release
  <1>3. recs'[task[t].sid] = None /\ \A o \in Sessions \ {task[t].sid} : recs'[o] = recs[o]
    BY <1>1, <1>2, WorkingKnows DEF Stores
  <1>4. disk' = disk \/ (disk'.recs = recs' /\ disk'.debts = debts')
    <2>1. MaybeSaved  BY <1>2
    <2> QED  BY <2>1 DEF MaybeSaved, Saved
  <1>5. ~Working(Idle)  BY IdleOK
  <1> HIDE DEF Idle
  <1> QED  BY <1>2, <1>3, <1>4, <1>5 DEF Moves, Same

LEMMA RebindMoves ==
  ASSUME BindInv, NEW t \in Tasks, RecycleRebind(t)
  PROVE  \/ Moves(t, task[t].sid, task[t].local, debts, Idle) /\ UNCHANGED conts
         \/ /\ conts' = [conts EXCEPT ![Place(task[t])] = None]
            /\ \E k : \E l \in BoundRecord :
                 /\ l.branch = task[t].local.branch /\ l.gen = task[t].local.gen + 1 /\ l.bound
                 /\ Moves(t, task[t].sid, l, debts, k)
                 /\ \/ k = Idle
                    \/ /\ k \in TaskType /\ k.pc = "layer" /\ k.sid = task[t].sid
                       /\ k.kind = task[t].kind /\ k.local = l
  <1> DEFINE s == task[t].sid
             l == [task[t].local EXCEPT !.gen = @ + 1, !.bound = TRUE, !.owned = FALSE]
             k == [task[t] EXCEPT !.pc = "layer", !.local = l]
  <1>0. ControlInv  BY DEF BindInv, BranchInv, Inv
  <1>1. Working(task[t]) /\ task[t].pc = "image" /\ task[t].kind = "recycle"
    BY DEF RecycleRebind, Working
  <1>2. CASE (FailInjected(t, "image", s) \/ FailInjected(t, "docker", s)) /\ UNCHANGED conts
    BY <1>1, <1>2, FailGives
  <1>3. CASE /\ conts' = [conts EXCEPT ![Place(task[t])] = None]
             /\ TryPersist(t, s, [recs EXCEPT ![s] = l], debts, k)
    <2>1. task[t].local.gen \in 0..MaxGen /\ task[t].local.gen < MaxGen
      BY <1>0, <1>1, WorkingKnows DEF ControlInv, ControlOK, LocalOK, BoundRecord, Record
    <2>2. task[t].local.gen + 1 \in 0..MaxGen /\ task[t].local.gen + 1 \in 1..MaxGen
      BY <2>1, ConstantsAssumption
    <2>3. l \in Record /\ l.gen = task[t].local.gen + 1 /\ l.branch = task[t].local.branch
          /\ l.bound = TRUE
      BY <1>1, <2>2, WorkingKnows DEF BoundRecord, Record
    <2>4. l \in BoundRecord  BY <2>2, <2>3 DEF BoundRecord
    <2> HIDE DEF l
    <2>5. k \in TaskType /\ k.pc = "layer" /\ k.sid = s /\ k.kind = task[t].kind /\ k.local = l
      BY <1>1, <2>4, WorkingKnows DEF TaskType, Pcs
    <2> HIDE DEF k
    <2>6. Moves(t, s, l, debts, Idle) \/ Moves(t, s, l, debts, k)
      BY <1>0, <1>1, <1>3, <2>4, PutMoves
    <2> QED  BY <1>3, <2>3, <2>4, <2>5, <2>6
  <1> QED  BY <1>2, <1>3 DEF RecycleRebind, Runtime, Place

-----------------------------------------------------------------------------
(* The bindings, step by step                                              *)

\* A task at work whose container is there has not ended its session.
LEMMA LiveNotEnded ==
  ASSUME BindInv, NEW t \in Tasks, Working(task[t]), conts[Place(task[t])] # None
  PROVE  outcome[task[t].sid] = "none"
  <1> DEFINE s == task[t].sid
  <1>1. s \in Sessions /\ Place(task[t]) \in Own(s)  BY WorkingKnows, PlaceOwn
  <1>2. Ended(s)  BY <1>1 DEF BindInv, Bindings
  <1>3. outcome[s] # "none" => \A n \in Own(s) : conts[n] = None
    BY <1>2 DEF Ended, Own
  <1> QED  BY <1>1, <1>3

\* A task at work carries on without touching a container.
LEMMA BindCarry ==
  ASSUME BindInv, BranchInv', NEW t \in Tasks, Working(task[t]), NEW d, NEW k,
         Moves(t, task[t].sid, task[t].local, d, k), UNCHANGED <<conts, outcome, used>>,
         \/ k = Idle
         \/ /\ \E p \in Pcs \ {"flush", "boot"} : Carries(k, t, p)
            /\ OnItsWay(k) /\ outcome[task[t].sid] = "none"
            /\ Allocating(k) => Allocating(task[t])
            /\ Vacant(k) => Vacant(task[t])
  PROVE  BindInv'
  <1> DEFINE s == task[t].sid
             l == task[t].local
  <1>1. s \in Sessions /\ s \in used /\ Mine(t, s) /\ Same(l, recs[s])
    BY WorkingKnows, SameSym
  <1>2. ASSUME Working(k)
        PROVE  /\ k.sid = s /\ k.kind \in Kinds /\ OnItsWay(k)
               /\ Knows(k, l, l, conts[Place(k)], outcome[s])
    <2>1. PICK p \in Pcs \ {"flush", "boot"} : Carries(k, t, p)
      BY <1>2, IdleOK
    <2>2. OnItsWay(k) /\ outcome[s] = "none" /\ (Allocating(k) => Allocating(task[t]))
          /\ (Vacant(k) => Vacant(task[t]))
      BY <1>2, IdleOK
    <2>3. k.pc = p /\ k.sid = s /\ k.kind = task[t].kind /\ Same(k.local, l)
      BY <2>1 DEF Carries
    <2>4. l # None /\ k.local # None /\ k.local.bound = l.bound /\ Place(k) = Place(task[t])
      BY <2>3, WorkingKnows DEF Same, Place, Container
    <2>5. Knows(task[t], l, l, conts[Place(task[t])], outcome[s]) /\ task[t].kind \in Kinds
      BY WorkingKnows
    <2> QED  BY <2>2, <2>3, <2>4, <2>5, SameSym DEF Knows
  <1> QED  BY <1>1, <1>2, BindStay

\* A task at work fails.
LEMMA BindFail ==
  ASSUME BindInv, BranchInv', NEW t \in Tasks, Working(task[t]), NEW d,
         Moves(t, task[t].sid, task[t].local, d, Idle), UNCHANGED <<conts, outcome, used>>
  PROVE  BindInv'
  BY BindCarry

LEMMA BindOpenImage ==
  ASSUME BindInv, BranchInv', NEW t \in Tasks, OpenImage(t)
  PROVE  BindInv'
  <1>1. Working(task[t]) /\ task[t].pc = "image" /\ Opening(task[t])
        /\ UNCHANGED <<conts, outcome, used>>
    BY DEF OpenImage, Working, Opening, history
  <1>2. PICK k : /\ Moves(t, task[t].sid, task[t].local, debts, k)
                 /\ k = Idle \/ Carries(k, t, "layer")
    BY OpenImageMoves
  <1>3. ASSUME Carries(k, t, "layer")
        PROVE  /\ OnItsWay(k) /\ outcome[task[t].sid] = "none"
               /\ Allocating(task[t]) /\ Vacant(task[t])
    <2>1. k.pc = "layer" /\ Opening(k)  BY <1>1, <1>3 DEF Carries, Opening
    <2>2. outcome[task[t].sid] = "none"  BY <1>1, WorkingKnows DEF Knows
    <2> QED  BY <1>1, <2>1, <2>2 DEF OnItsWay, Allocating, Vacant
  <1>4. "layer" \in Pcs \ {"flush", "boot"}  BY DEF Pcs
  <1> QED  BY <1>1, <1>2, <1>3, <1>4, BindCarry

LEMMA BindLayer ==
  ASSUME BindInv, BranchInv', NEW t \in Tasks, Layer(t)
  PROVE  BindInv'
  <1>1. Working(task[t]) /\ task[t].pc = "layer" /\ UNCHANGED <<conts, outcome, used>>
    BY DEF Layer, Working, history
  <1>2. PICK k : /\ Moves(t, task[t].sid, task[t].local, debts, k)
                 /\ k = Idle \/ Carries(k, t, "create")
    BY LayerMoves
  <1>3. ASSUME Carries(k, t, "create")
        PROVE  /\ OnItsWay(k) /\ outcome[task[t].sid] = "none"
               /\ Allocating(task[t]) /\ Vacant(task[t])
    <2>1. k.pc = "create" /\ k.kind = task[t].kind  BY <1>3 DEF Carries
    <2>2. OnItsWay(task[t]) /\ outcome[task[t].sid] = "none"
      BY <1>1, WorkingKnows DEF Knows
    <2>3. Opening(k) = Opening(task[t])  BY <2>1 DEF Opening
    <2> QED  BY <1>1, <2>1, <2>2, <2>3 DEF OnItsWay, Allocating, Vacant
  <1>4. "create" \in Pcs \ {"flush", "boot"}  BY DEF Pcs
  <1> QED  BY <1>1, <1>2, <1>3, <1>4, BindCarry

LEMMA BindFlush ==
  ASSUME BindInv, BranchInv', NEW t \in Tasks, Flush(t)
  PROVE  BindInv'
  <1> DEFINE p == IF task[t].kind = "reap" THEN "destroy" ELSE "mirror"
  <1>1. Working(task[t]) /\ task[t].pc = "flush" /\ UNCHANGED <<conts, outcome, used>>
    BY DEF Flush, Working, history
  <1>2. PICK k : /\ Moves(t, task[t].sid, task[t].local, debts, k)
                 /\ k = Idle \/ (Carries(k, t, p) /\ CanPush(Place(task[t])))
    BY FlushMoves
  <1>3. ASSUME Carries(k, t, p), CanPush(Place(task[t]))
        PROVE  OnItsWay(k) /\ outcome[task[t].sid] = "none" /\ ~Allocating(k) /\ ~Vacant(k)
    <2>1. k.pc = p /\ k.kind = task[t].kind  BY <1>3 DEF Carries
    <2>2. OnItsWay(task[t]) /\ ~Opening(task[t])
      BY <1>1, WorkingKnows DEF OnItsWay, Opening
    <2>3. outcome[task[t].sid] = "none"
      BY <1>1, <1>3, LiveNotEnded DEF CanPush
    <2> QED  BY <1>1, <2>1, <2>2, <2>3 DEF OnItsWay, Opening, Allocating, Vacant
  <1>4. p \in Pcs \ {"flush", "boot"}  BY DEF Pcs
  <1> HIDE DEF p
  <1> QED  BY <1>1, <1>2, <1>3, <1>4, BindCarry

LEMMA BindCloseMerge ==
  ASSUME BindInv, BranchInv', NEW t \in Tasks, CloseMerge(t)
  PROVE  BindInv'
  <1>1. Working(task[t]) /\ task[t].pc = "mirror" /\ UNCHANGED <<conts, outcome, used>>
        /\ task[t].kind \in {"close", "finish"}
    BY DEF CloseMerge, Working, history
  <1>2. PICK k : /\ Moves(t, task[t].sid, task[t].local, debts, k)
                 /\ k = Idle \/ Carries(k, t, "publish")
    BY CloseMergeMoves
  <1>3. ASSUME Carries(k, t, "publish")
        PROVE  OnItsWay(k) /\ outcome[task[t].sid] = "none" /\ ~Allocating(k) /\ ~Vacant(k)
    <2>1. k.pc = "publish" /\ k.kind = task[t].kind  BY <1>3 DEF Carries
    <2>2. outcome[task[t].sid] = "none"
      BY <1>1, WorkingKnows DEF Knows
    <2> QED  BY <1>1, <2>1, <2>2 DEF OnItsWay, Opening, Allocating, Vacant
  <1>4. "publish" \in Pcs \ {"flush", "boot"}  BY DEF Pcs
  <1> QED  BY <1>1, <1>2, <1>3, <1>4, BindCarry

LEMMA BindRecycleFetch ==
  ASSUME BindInv, BranchInv', NEW t \in Tasks, RecycleFetch(t)
  PROVE  BindInv'
  <1>1. Working(task[t]) /\ task[t].pc = "mirror" /\ UNCHANGED <<conts, outcome, used>>
        /\ task[t].kind = "recycle"
    BY DEF RecycleFetch, Working, history
  <1>2. PICK k : /\ Moves(t, task[t].sid, task[t].local, debts, k)
                 /\ k = Idle \/ Carries(k, t, "image")
    BY RecycleFetchMoves
  <1>3. ASSUME Carries(k, t, "image")
        PROVE  OnItsWay(k) /\ outcome[task[t].sid] = "none" /\ ~Allocating(k) /\ ~Vacant(k)
    <2>1. k.pc = "image" /\ k.kind = task[t].kind  BY <1>3 DEF Carries
    <2>2. outcome[task[t].sid] = "none"
      BY <1>1, WorkingKnows DEF Knows
    <2> QED  BY <1>1, <2>1, <2>2 DEF OnItsWay, Opening, Allocating, Vacant
  <1>4. "image" \in Pcs \ {"flush", "boot"}  BY DEF Pcs
  <1> QED  BY <1>1, <1>2, <1>3, <1>4, BindCarry

LEMMA BindPublish ==
  ASSUME BindInv, BranchInv', NEW t \in Tasks, Publish(t)
  PROVE  BindInv'
  <1>1. Working(task[t]) /\ task[t].pc = "publish" /\ UNCHANGED <<conts, outcome, used>>
    BY DEF Publish, Working, history
  <1>2. PICK d, k : /\ Moves(t, task[t].sid, task[t].local, d, k)
                    /\ k = Idle \/ Carries(k, t, "destroy")
    BY PublishMoves
  <1>3. ASSUME Carries(k, t, "destroy")
        PROVE  OnItsWay(k) /\ outcome[task[t].sid] = "none" /\ ~Allocating(k) /\ ~Vacant(k)
    <2>1. k.pc = "destroy" /\ k.kind = task[t].kind  BY <1>3 DEF Carries
    <2>2. OnItsWay(task[t]) /\ outcome[task[t].sid] = "none"
      BY <1>1, WorkingKnows DEF Knows
    <2> QED  BY <1>1, <2>1, <2>2 DEF OnItsWay, Opening, Allocating, Vacant
  <1>4. "destroy" \in Pcs \ {"flush", "boot"}  BY DEF Pcs
  <1> QED  BY <1>1, <1>2, <1>3, <1>4, BindCarry

\* A session has no container but the one its record names.
LEMMA OnlyPlace ==
  ASSUME BindInv, NEW t \in Tasks, Working(task[t]),
         NEW n \in Own(task[t].sid) \ {Place(task[t])}
  PROVE  conts[n] = None
  <1> DEFINE s == task[t].sid
             l == task[t].local
  <1>1. Fit(s, recs[s], conts) /\ Same(recs[s], l) /\ l # None /\ recs[s] \in BoundRecord
        /\ l \in BoundRecord
    BY WorkingKnows DEF BindInv, Bindings
  <1>2. recs[s].bound = l.bound /\ recs[s].gen = l.gen /\ l.bound \in BOOLEAN
    BY <1>1 DEF Same, BoundRecord, Record
  <1>3. CASE n = Alias /\ s \in Legacy /\ ~Disputed
    <2>1. conts[Alias] # None => ~l.bound  BY <1>1, <1>2, <1>3 DEF Fit
    <2> QED  BY <1>3, <2>1 DEF Place, Container
  <1>4. ASSUME NEW g \in 1..MaxGen, n = <<s, g>>  PROVE conts[n] = None
    <2>1. conts[<<s, g>>] # None => l.bound /\ l.gen = g  BY <1>1, <1>2 DEF Fit
    <2> QED  BY <1>4, <2>1 DEF Place, Container
  <1> QED  BY <1>3, <1>4 DEF Own

\* Without containers a record only has to be legacy if it names none.
LEMMA FitEmpty ==
  ASSUME NEW s \in Sessions, NEW c, \A n \in Own(s) : c[n] = None,
         ~(s \in Legacy /\ Disputed),
         NEW x, x # None /\ ~x.bound => s \in Legacy /\ x.branch = s
  PROVE  Fit(s, x, c)
  <1>1. \A g \in 1..MaxGen : c[<<s, g>>] = None  BY DEF Own
  <1>2. s \in Legacy => c[Alias] = None  BY DEF Own
  <1> QED  BY <1>1, <1>2 DEF Fit

\* Containers that come and go leave a record fitting if no branch changes.
LEMMA FitBranches ==
  ASSUME NEW s \in Sessions, NEW x, NEW c, NEW d, Fit(s, x, c),
         \A n \in Names : d[n] # None => c[n] # None /\ d[n].branch = c[n].branch
  PROVE  Fit(s, x, d)
  <1>1. \A g \in 1..MaxGen : <<s, g>> \in Names  BY DEF Names
  <1>2. Alias \in Names  BY DEF Names
  <1> QED  BY <1>1, <1>2 DEF Fit

\* What a task at work knows of its session's record, whatever it writes.
LEMMA UnboundIsLegacy ==
  ASSUME BindInv, NEW t \in Tasks, Working(task[t]),
         NEW x, Same(x, task[t].local)
  PROVE  x # None /\ ~x.bound => task[t].sid \in Legacy /\ x.branch = task[t].sid
  <1> DEFINE s == task[t].sid
  <1>1. s \in Sessions /\ Same(recs[s], task[t].local) /\ task[t].local # None
    BY WorkingKnows
  <1>2. Fit(s, recs[s], conts)  BY <1>1 DEF BindInv, Bindings
  <1>3. Same(x, recs[s])  BY <1>1, SameSym, SameTrans
  <1>4. Fit(s, x, conts)  BY <1>2, <1>3, FitSame
  <1> QED  BY <1>4 DEF Fit

\* Names of a session are not those of another, nor the alias.
LEMMA OwnNames ==
  ASSUME NEW s \in Sessions
  PROVE  Own(s) \subseteq Names
  BY DEF Own, Names

LEMMA BindOpenMirror ==
  ASSUME BindInv, BranchInv', NEW t \in Tasks, OpenMirror(t)
  PROVE  BindInv'
  <1> DEFINE mine == task[t].local
  <1>0. PICK s \in Sessions : s = task[t].sid
    BY WorkingKnows DEF OpenMirror, Working
  <1>1. Working(task[t]) /\ task[t].pc = "orphan" /\ UNCHANGED <<conts, outcome, used>>
    BY DEF OpenMirror, Working, history
  <1>2. /\ s \in Sessions /\ s \in used /\ Mine(t, s) /\ task[t].kind \in Kinds
        /\ mine # None /\ mine \in BoundRecord /\ OnItsWay(task[t])
        /\ Knows(task[t], mine, mine, conts[Place(task[t])], outcome[s])
    BY <1>0, <1>1, WorkingKnows
  <1>3. /\ Opening(task[t]) /\ mine.bound /\ conts[Place(task[t])] = None
        /\ outcome[s] = "none" /\ (s \in Legacy => ~Disputed)
    BY <1>0, <1>1, <1>2 DEF Knows, OnItsWay, Allocating, Vacant
  <1>4. PICK b, l, k :
          /\ b \in Sessions /\ l \in BoundRecord
          /\ l.branch = b /\ l.gen = mine.gen /\ l.bound = mine.bound
          /\ Moves(t, s, l, debts, k)
          /\ \/ k = Idle
             \/ k \in TaskType /\ k.pc = "image" /\ k.sid = s /\ k.kind = task[t].kind /\ k.local = l
    BY <1>0, OpenMirrorMoves
  <1>5. \A n \in Own(s) : conts[n] = None
    BY <1>0, <1>1, <1>3, OnlyPlace
  <1>6. Fit(s, l, conts') /\ (disk' = disk => Fit(s, disk.recs[s], conts'))
    <2>1. Fit(s, l, conts)  BY <1>2, <1>3, <1>4, <1>5, FitEmpty
    <2>2. Fit(s, disk.recs[s], conts)  BY <1>2 DEF BindInv, Bindings
    <2> QED  BY <1>1, <2>1, <2>2
  <1>7. Ended(s)'  BY <1>1, <1>3 DEF Ended
  <1>8. ASSUME Working(k)
        PROVE  /\ k.sid = s /\ k.kind \in Kinds /\ OnItsWay(k)
               /\ Knows(k, l, l, conts'[Place(k)], outcome'[s])
    <2>1. k.pc = "image" /\ k.sid = s /\ k.kind = task[t].kind /\ k.local = l
      BY <1>4, <1>8, IdleOK
    <2>2. Opening(k) /\ OnItsWay(k)  BY <1>3, <2>1 DEF Opening, OnItsWay
    <2>3. Place(k) = Place(task[t])  BY <1>0, <1>4, <2>1 DEF Place, Container
    <2> QED  BY <1>1, <1>2, <1>3, <1>4, <2>1, <2>2, <2>3, SameRefl DEF Knows
  <1> QED  BY <1>1, <1>2, <1>4, <1>6, <1>7, <1>8, BindMove

LEMMA BindCreate ==
  ASSUME BindInv, BranchInv', NEW t \in Tasks, Create(t)
  PROVE  BindInv'
  <1> DEFINE mine == task[t].local
             n == Place(task[t])
  <1>0. PICK s \in Sessions : s = task[t].sid
    BY WorkingKnows DEF Create, Working
  <1>1. Working(task[t]) /\ task[t].pc = "create" /\ UNCHANGED <<outcome, used>>
    BY DEF Create, Working, history
  <1>2. /\ s \in Sessions /\ s \in used /\ Mine(t, s) /\ task[t].kind \in Kinds
        /\ mine # None /\ mine \in BoundRecord /\ OnItsWay(task[t])
        /\ Knows(task[t], mine, mine, conts[n], outcome[s])
        /\ Same(disk.recs[s], mine)
    BY <1>0, <1>1, WorkingKnows
  <1>3. /\ mine.bound /\ outcome[s] = "none" /\ (s \in Legacy => ~Disputed)
    BY <1>0, <1>1, <1>2 DEF Knows, Allocating
  <1>4. PICK k : /\ Moves(t, s, mine, debts, k)
                 /\ \/ k = Idle /\ UNCHANGED conts
                    \/ /\ k = Idle \/ Carries(k, t, "boot")
                       /\ Allocate(n, mine.branch)
    BY <1>0, CreateMoves
  <1>5. CASE k = Idle /\ UNCHANGED conts
    BY <1>0, <1>1, <1>4, <1>5, BindFail
  <1>6. CASE Allocate(n, mine.branch) /\ (k = Idle \/ Carries(k, t, "boot"))
    <2>1. n = <<s, mine.gen>> /\ mine.gen \in 1..MaxGen /\ n \in Own(s) /\ n \in Names
      BY <1>0, <1>1, <1>2, <1>3, PlaceOwn DEF Place, Container, BoundRecord
    <2>2. conts \in [Names -> Workspace \cup {None}]
      BY DEF BindInv, BranchInv, Inv, WorldOK
    <2>3. conts' = [conts EXCEPT ![n] = [branch |-> mine.branch, tree |-> {}, booted |-> FALSE]]
      BY <1>6 DEF Allocate
    <2> HIDE DEF n
    <2>4. /\ conts'[n] = [branch |-> mine.branch, tree |-> {}, booted |-> FALSE]
          /\ \A m \in Names \ {n} : conts'[m] = conts[m]
      BY <2>1, <2>2, <2>3
    <2>5. \A m \in Own(s) \ {n} : conts'[m] = None
      BY <1>0, <1>1, <1>2, <2>4, OnlyPlace, OwnNames DEF n
    <2>6. Fit(s, mine, conts')
      <3>1. \A g \in 1..MaxGen : conts'[<<s, g>>] # None => g = mine.gen
        BY <2>1, <2>5 DEF Own
      <3>2. s \in Legacy => conts'[Alias] = None
        BY <1>2, <1>3, <2>1, <2>5, ConstantsAssumption DEF Own, Alias
      <3>3. conts'[<<s, mine.gen>>].branch = mine.branch  BY <2>1, <2>4
      <3> QED  BY <1>2, <1>3, <3>1, <3>2, <3>3 DEF Fit
    <2>7. Fit(s, disk.recs[s], conts')  BY <1>2, <2>6, FitSame
    <2>8. Alias \in Names /\ Alias # n
      BY <1>2, <2>1, ConstantsAssumption DEF Names, Alias
    <2>9. conts'[Alias] = conts[Alias] /\ \A m \in Names \ Own(s) : conts'[m] = conts[m]
      BY <2>1, <2>4, <2>8
    <2>10. Ended(s)'  BY <1>1, <1>3 DEF Ended
    <2>11. ASSUME Working(k)
           PROVE  /\ k.sid = s /\ k.kind \in Kinds /\ OnItsWay(k)
                  /\ Knows(k, mine, mine, conts'[Place(k)], outcome'[s])
      <3>1. Carries(k, t, "boot")  BY <1>6, <2>11, IdleOK
      <3>2. k.pc = "boot" /\ k.sid = s /\ k.kind = task[t].kind /\ Same(k.local, mine)
        BY <1>0, <3>1 DEF Carries
      <3>3. Place(k) = n  BY <1>0, <1>2, <3>2 DEF Same, Place, Container, n
      <3>4. k.local.bound  BY <1>2, <1>3, <3>2 DEF Same
      <3>5. OnItsWay(k) /\ ~Vacant(k)
        BY <1>1, <1>2, <3>2 DEF OnItsWay, Opening, Vacant
      <3>6. conts'[n] # None
        <4>1. conts'[n] \in Workspace
          BY <1>2, <2>4 DEF Workspace, BoundRecord, Record
        <4> QED  BY <4>1, NoneIsNoWorkspace
      <3> QED  BY <1>1, <1>2, <1>3, <2>4, <3>2, <3>3, <3>4, <3>5, <3>6, SameSym DEF Knows
    <2> QED  BY <1>1, <1>2, <1>4, <2>6, <2>7, <2>9, <2>10, <2>11, BindMove
  <1> QED  BY <1>4, <1>5, <1>6

LEMMA ReleaseMoves ==
  ASSUME BindInv, NEW t \in Tasks, Working(task[t]), Release(t), UNCHANGED <<memory, disk>>
  PROVE  Moves(t, task[t].sid, task[t].local, debts, Idle)
  <1>1. ~Working(Idle) /\ task' = [task EXCEPT ![t] = Idle]  BY IdleOK DEF Release
  <1> HIDE DEF Idle
  <1> QED  BY <1>1, WorkingKnows DEF Moves, memory

\* What bootstrap makes of the task's container: a checkout, its branch as it was.
LEMMA BootstrapShape ==
  ASSUME BindInv, NEW t \in Tasks, Working(task[t]), Bootstrap(t),
         NEW n, n = Place(task[t]), NEW b, b = task[t].local.branch
  PROVE  /\ n \in Names /\ b \in Sessions
         /\ \A m \in Names \ {n} : conts'[m] = conts[m]
         /\ conts[n] # None /\ conts[n] \in Workspace /\ conts'[n] \in Workspace
         /\ conts'[n].branch = conts[n].branch /\ conts'[n].booted
         /\ conts'[n].tree \in SUBSET Work
         /\ originBranch' = [originBranch EXCEPT ![b] = conts'[n].tree]
         /\ conts'[n].tree = IF Resumes(t) THEN originBranch[b] ELSE originMaster
         /\ Resumes(t) => originBranch[b] # None
  <1> DEFINE tree == IF Resumes(t) THEN originBranch[b] ELSE originMaster
  <1>1. n \in Names /\ b \in Sessions
    BY PlaceOwn, WorkingKnows DEF BoundRecord, Record
  <1>2. WorldOK  BY DEF BindInv, BranchInv, Inv
  <1>3. conts' = [conts EXCEPT ![n].tree = tree, ![n].booted = TRUE]
        /\ originBranch' = [originBranch EXCEPT ![b] = tree]
        /\ conts[n] # None /\ (Resumes(t) => originBranch[b] # None)
    BY DEF Bootstrap, Place
  <1>4. tree \in SUBSET Work  BY <1>1, <1>2, <1>3 DEF WorldOK
  <1> HIDE DEF tree
  <1> DEFINE c == [conts EXCEPT ![n].tree = tree]
  <1>5. conts[n] \in Workspace /\ conts \in [Names -> Workspace \cup {None}]
    BY <1>1, <1>2, <1>3 DEF WorldOK
  <1>6. /\ c[n] = [conts[n] EXCEPT !.tree = tree]
        /\ \A m \in Names \ {n} : c[m] = conts[m]
        /\ DOMAIN c = Names
    BY <1>1, <1>5
  <1>7. conts' = [c EXCEPT ![n].booted = TRUE]  BY <1>3
  <1> HIDE DEF c
  <1>8. /\ conts'[n] = [c[n] EXCEPT !.booted = TRUE]
        /\ \A m \in Names \ {n} : conts'[m] = conts[m]
    BY <1>1, <1>6, <1>7
  <1>9. conts'[n].branch = conts[n].branch /\ conts'[n].tree = tree /\ conts'[n] \in Workspace
        /\ conts'[n].booted
    <2>1. PICK x \in Workspace : x = conts[n]  BY <1>5
    <2>2. PICK y : y = c[n]  OBVIOUS
    <2>3. y = [x EXCEPT !.tree = tree]  BY <1>6, <2>1, <2>2
    <2>4. y \in Workspace /\ y.branch = x.branch /\ y.tree = tree
      BY <1>4, <2>1, <2>3 DEF Workspace
    <2>5. conts'[n] = [y EXCEPT !.booted = TRUE]  BY <1>8, <2>2
    <2> QED  BY <2>1, <2>4, <2>5 DEF Workspace
  <1> QED  BY <1>1, <1>3, <1>4, <1>5, <1>8, <1>9 DEF tree

LEMMA BindBootstrap ==
  ASSUME BindInv, BranchInv', NEW t \in Tasks, Working(task[t]), task[t].pc = "boot",
         Bootstrap(t), Moves(t, task[t].sid, task[t].local, debts, Idle),
         UNCHANGED <<outcome, used>>
  PROVE  BindInv'
  <1> DEFINE mine == task[t].local
  <1>0. PICK s \in Sessions : s = task[t].sid  BY WorkingKnows
  <1>1. PICK n : n = Place(task[t])  OBVIOUS
  <1>2. /\ s \in used /\ Mine(t, s) /\ Same(recs[s], mine)
        /\ mine # None /\ mine \in BoundRecord /\ mine.bound /\ outcome[s] = "none"
        /\ n \in Own(s)
    BY <1>0, <1>1, WorkingKnows, PlaceOwn DEF Knows, Allocating
  <1>3. /\ n \in Names /\ conts[n] # None /\ conts'[n].branch = conts[n].branch
        /\ \A m \in Names \ {n} : conts'[m] = conts[m]
    BY <1>1, BootstrapShape
  <1>4. Fit(s, recs[s], conts) /\ Fit(s, disk.recs[s], conts)
    BY DEF BindInv, Bindings
  <1>5. \A m \in Names : conts'[m] # None => conts[m] # None /\ conts'[m].branch = conts[m].branch
    BY <1>3
  <1>6. Fit(s, recs[s], conts') /\ Fit(s, disk.recs[s], conts')
    BY <1>4, <1>5, FitBranches
  <1>7. Fit(s, mine, conts')  BY <1>2, <1>6, FitSame, SameSym
  <1>8. Alias \in Names /\ Alias # n
    BY <1>0, <1>1, <1>2, ConstantsAssumption DEF Names, Alias, Place, Container
  <1>9. conts'[Alias] = conts[Alias] /\ \A m \in Names \ Own(s) : conts'[m] = conts[m]
    BY <1>2, <1>3, <1>8
  <1>10. Ended(s)'  BY <1>2 DEF Ended
  <1>11. Moves(t, s, mine, debts, Idle)  BY <1>0
  <1> QED  BY <1>2, <1>6, <1>7, <1>9, <1>10, <1>11, IdleOK, BindMove

LEMMA BindBoot ==
  ASSUME BindInv, BranchInv', NEW t \in Tasks, Boot(t)
  PROVE  BindInv'
  <1>1. Working(task[t]) /\ task[t].pc = "boot" /\ UNCHANGED <<outcome, used>>
    BY DEF Boot, Working, history
  <1> QED  BY <1>1, BootMoves, BindBootstrap, BindFail

LEMMA BindCancel ==
  ASSUME BindInv, BranchInv', NEW t \in Tasks, Cancel(t)
  PROVE  BindInv'
  <1>1. UNCHANGED <<memory, disk, history>>  BY DEF Cancel
  <1>2. CASE Release(t) /\ UNCHANGED conts
    BY <1>1, <1>2, IdleOK, BindQuiet DEF Release, memory, history
  <1>3. CASE task[t].pc = "boot" /\ Release(t) /\ Bootstrap(t)
    <2>1. Working(task[t])  BY <1>3 DEF Working
    <2> QED  BY <1>1, <1>3, <2>1, ReleaseMoves, BindBootstrap DEF history
  <1>4. ASSUME NEW p \in {"mirror_worker", "session_worker"}, Goto(t, p), UNCHANGED conts
        PROVE  BindInv'
    <2> DEFINE k == [task[t] EXCEPT !.pc = p]
    <2>1. task' = [task EXCEPT ![t] = k] /\ ~Working(k)
      BY <1>4 DEF Goto, BindInv, BranchInv, Inv, ControlInv, ControlOK, TaskType, Working
    <2> HIDE DEF k
    <2> QED  BY <1>1, <1>4, <2>1, BindQuiet DEF memory, history
  <1> QED  BY <1>2, <1>3, <1>4 DEF Cancel

\* The task's container goes: its session has none left.
LEMMA GoneIsEmpty ==
  ASSUME BindInv, NEW t \in Tasks, Working(task[t]),
         conts' = [conts EXCEPT ![Place(task[t])] = None]
  PROVE  /\ \A n \in Own(task[t].sid) : conts'[n] = None
         /\ \A n \in Names \ Own(task[t].sid) : conts'[n] = conts[n]
         /\ conts'[Alias] \in {conts[Alias], None}
         /\ conts'[Place(task[t])] = None
  <1>1. PICK n : n = Place(task[t])  OBVIOUS
  <1>2. n \in Names /\ n \in Own(task[t].sid) /\ Own(task[t].sid) \subseteq Names /\ Alias \in Names
    BY <1>1, PlaceOwn, WorkingKnows, OwnNames DEF Names
  <1>3. conts \in [Names -> Workspace \cup {None}]
    BY DEF BindInv, BranchInv, Inv, WorldOK
  <1>4. conts'[n] = None /\ \A m \in Names \ {n} : conts'[m] = conts[m]
    BY <1>1, <1>2, <1>3
  <1>5. \A m \in Own(task[t].sid) \ {n} : conts[m] = None
    BY <1>1, OnlyPlace
  <1> QED  BY <1>1, <1>2, <1>4, <1>5

LEMMA BindDestroy ==
  ASSUME BindInv, BranchInv', NEW t \in Tasks, Destroy(t)
  PROVE  BindInv'
  <1> DEFINE mine == task[t].local
  <1>0. PICK s \in Sessions : s = task[t].sid
    BY WorkingKnows DEF Destroy, Working
  <1>1. Working(task[t]) /\ task[t].pc = "destroy" /\ UNCHANGED <<outcome, used>>
    BY DEF Destroy, Working, history
  <1>2. /\ s \in used /\ Mine(t, s) /\ task[t].kind \in Kinds /\ mine # None
        /\ OnItsWay(task[t]) /\ Same(disk.recs[s], mine)
        /\ Knows(task[t], mine, mine, conts[Place(task[t])], outcome[s])
    BY <1>0, <1>1, WorkingKnows
  <1>3. outcome[s] = "none" /\ (s \in Legacy => ~Disputed)
    BY <1>0, <1>1, <1>2 DEF Knows
  <1>4. PICK k : /\ Moves(t, s, mine, debts, k)
                 /\ \/ k = Idle /\ UNCHANGED conts
                    \/ /\ Carries(k, t, "remove")
                       /\ conts' = [conts EXCEPT ![Place(task[t])] = None]
    BY <1>0, DestroyMoves
  <1>5. CASE k = Idle /\ UNCHANGED conts
    BY <1>0, <1>1, <1>4, <1>5, BindFail
  <1>6. CASE Carries(k, t, "remove") /\ conts' = [conts EXCEPT ![Place(task[t])] = None]
    <2>1. /\ \A n \in Own(s) : conts'[n] = None
          /\ \A n \in Names \ Own(s) : conts'[n] = conts[n]
          /\ conts'[Alias] \in {conts[Alias], None}
          /\ conts'[Place(task[t])] = None
      BY <1>0, <1>1, <1>6, GoneIsEmpty
    <2>2. \A x : Same(x, mine) => Fit(s, x, conts')
      BY <1>0, <1>1, <1>3, <2>1, UnboundIsLegacy, FitEmpty
    <2>3. Ended(s)'  BY <1>1, <1>3 DEF Ended
    <2>4. /\ k.sid = s /\ k.kind \in Kinds /\ OnItsWay(k)
          /\ Knows(k, mine, mine, conts'[Place(k)], outcome'[s])
      <3>1. k.pc = "remove" /\ k.sid = s /\ k.kind = task[t].kind /\ Same(k.local, mine)
        BY <1>0, <1>6 DEF Carries
      <3>2. Place(k) = Place(task[t]) /\ ~Allocating(k)
        BY <1>0, <1>2, <3>1 DEF Same, Place, Container, Allocating
      <3>3. OnItsWay(k)  BY <1>1, <1>2, <3>1 DEF OnItsWay, Opening
      <3> QED  BY <1>1, <1>2, <1>3, <2>1, <3>1, <3>2, <3>3, SameSym DEF Knows
    <2> QED  BY <1>1, <1>2, <1>4, <2>1, <2>2, <2>3, <2>4, SameRefl, BindMove
  <1> QED  BY <1>4, <1>5, <1>6

LEMMA BindRebind ==
  ASSUME BindInv, BranchInv', NEW t \in Tasks, RecycleRebind(t)
  PROVE  BindInv'
  <1> DEFINE mine == task[t].local
  <1>0. PICK s \in Sessions : s = task[t].sid
    BY WorkingKnows DEF RecycleRebind, Working
  <1>1. /\ Working(task[t]) /\ task[t].pc = "image" /\ task[t].kind = "recycle"
        /\ UNCHANGED <<outcome, used>>
    BY DEF RecycleRebind, Working, history
  <1>2. /\ s \in used /\ Mine(t, s) /\ task[t].kind \in Kinds /\ mine # None
        /\ mine \in BoundRecord /\ Same(disk.recs[s], mine)
        /\ Knows(task[t], mine, mine, conts[Place(task[t])], outcome[s])
    BY <1>0, <1>1, WorkingKnows
  <1>3. outcome[s] = "none" /\ (s \in Legacy => ~Disputed)
    BY <1>0, <1>1, <1>2 DEF Knows
  <1>4. CASE Moves(t, s, mine, debts, Idle) /\ UNCHANGED conts
    BY <1>0, <1>1, <1>4, BindFail
  <1>5. CASE /\ conts' = [conts EXCEPT ![Place(task[t])] = None]
             /\ \E k : \E l \in BoundRecord :
                 /\ l.branch = mine.branch /\ l.gen = mine.gen + 1 /\ l.bound
                 /\ Moves(t, s, l, debts, k)
                 /\ \/ k = Idle
                    \/ /\ k \in TaskType /\ k.pc = "layer" /\ k.sid = s
                       /\ k.kind = task[t].kind /\ k.local = l
    <2>1. /\ \A n \in Own(s) : conts'[n] = None
          /\ \A n \in Names \ Own(s) : conts'[n] = conts[n]
          /\ conts'[Alias] \in {conts[Alias], None}
      BY <1>0, <1>1, <1>5, GoneIsEmpty
    <2>2. PICK l, k :
                 /\ l \in BoundRecord
                 /\ l.branch = mine.branch /\ l.gen = mine.gen + 1 /\ l.bound
                 /\ Moves(t, s, l, debts, k)
                 /\ \/ k = Idle
                    \/ /\ k \in TaskType /\ k.pc = "layer" /\ k.sid = s
                       /\ k.kind = task[t].kind /\ k.local = l
      BY <1>5
    <2>3. Fit(s, l, conts')  BY <1>3, <2>1, <2>2, FitEmpty
    <2>4. Fit(s, disk.recs[s], conts')
      BY <1>0, <1>1, <1>2, <1>3, <2>1, UnboundIsLegacy, FitEmpty
    <2>5. Ended(s)'  BY <1>1, <1>3 DEF Ended
    <2>6. ASSUME Working(k)
          PROVE  /\ k.sid = s /\ k.kind \in Kinds /\ OnItsWay(k)
                 /\ Knows(k, l, l, conts'[Place(k)], outcome'[s])
      <3>1. k.pc = "layer" /\ k.sid = s /\ k.kind = "recycle" /\ k.local = l
        BY <1>1, <2>2, <2>6, IdleOK
      <3>2. Place(k) = <<s, l.gen>> /\ l.gen \in 1..MaxGen
        BY <2>2, <3>1 DEF Place, Container, BoundRecord
      <3>3. conts'[Place(k)] = None  BY <2>1, <3>2 DEF Own
      <3>4. OnItsWay(k)  BY <3>1 DEF OnItsWay
      <3> QED  BY <1>1, <1>2, <1>3, <2>2, <3>1, <3>3, <3>4, SameRefl DEF Knows
    <2> QED  BY <1>1, <1>2, <2>1, <2>2, <2>3, <2>4, <2>5, <2>6, BindMove
  <1> QED  BY <1>0, <1>4, <1>5, RebindMoves

LEMMA BindRemove ==
  ASSUME BindInv, BranchInv', NEW t \in Tasks, CloseRemove(t) \/ ReapRemove(t)
  PROVE  BindInv'
  <1> DEFINE mine == task[t].local
  <1>0. PICK s \in Sessions : s = task[t].sid
    BY WorkingKnows DEF CloseRemove, ReapRemove, Working
  <1>1. /\ Working(task[t]) /\ task[t].pc = "remove" /\ UNCHANGED <<conts, used>>
    BY DEF CloseRemove, ReapRemove, Working
  <1>2. /\ s \in used /\ Mine(t, s) /\ mine # None
        /\ Knows(task[t], mine, mine, conts[Place(task[t])], outcome[s])
    BY <1>0, <1>1, WorkingKnows
  <1>3. conts[Place(task[t])] = None /\ (s \in Legacy => ~Disputed)
    BY <1>0, <1>1, <1>2 DEF Knows, Vacant
  <1>4. \A n \in Own(s) : conts[n] = None
    BY <1>0, <1>1, <1>3, OnlyPlace
  <1>5. Moves(t, s, None, debts', Idle)  BY <1>0, RemoveMoves
  <1>6. Fit(s, None, conts)  BY <1>3, <1>4, FitEmpty
  <1>7. Fit(s, disk.recs[s], conts)  BY DEF BindInv, Bindings
  <1>8. \A o \in Sessions \ {s} : outcome'[o] = outcome[o]
    <2>1. outcome \in [Sessions -> {"none", "merged", "debt", "reaped"}]
      BY DEF BindInv, BranchInv, Inv, WorldOK
    <2>2. \E how : outcome' = [outcome EXCEPT ![s] = how]
      BY <1>0 DEF CloseRemove, ReapRemove
    <2> QED  BY <2>1, <2>2
  <1>9. Ended(s)'
    <2>1. \A g \in 1..MaxGen : conts[<<s, g>>] = None  BY <1>4 DEF Own
    <2>2. s \in Legacy => conts[Alias] = None  BY <1>3, <1>4 DEF Own
    <2> QED  BY <1>1, <1>2, <2>1, <2>2 DEF Ended
  <1> QED  BY <1>1, <1>2, <1>5, <1>6, <1>7, <1>8, <1>9, IdleOK, BindMove

\* A legacy session that may act is the only one to claim the old container.
LEMMA SafeNotDisputed ==
  ASSUME BindInv, NEW s \in Sessions, BindingSafe(s), s \in Legacy
  PROVE  ~Disputed
  <1> SUFFICES ASSUME Disputed  PROVE FALSE
    OBVIOUS
  <1>1. PICK o \in Legacy : o # s  BY DEF Disputed
  <1>2. o \in Sessions  BY ConstantsAssumption
  <1>3. Fit(s, recs[s], conts) /\ Fit(o, recs[o], conts)
    BY <1>2 DEF BindInv, Bindings
  <1>4. Container(s, recs[s]) = Alias /\ Container(o, recs[o]) = Alias /\ recs[o] # None
    BY <1>3 DEF Fit, Container
  <1> QED  BY <1>1, <1>2, <1>4 DEF BindingSafe

\* close, recycle, finish and the reaper claim the record as it stands.
LEMMA BindClaim ==
  ASSUME BindInv, BranchInv', NEW t \in Tasks, NEW s \in Sessions, recs[s] # None,
         SessionFree(s), NEW kind \in {"close", "finish", "recycle", "reap"}, kind \in Kinds,
         NEW seen \in 0..MaxGen, NEW life \in {"closing", "recycling"},
         Claim(t, s, kind, seen, life)
  PROVE  BindInv'
  <1>0. ControlInv /\ kind \in TaskKinds /\ Mine(t, s) /\ s \in used
    BY DEF BindInv, BranchInv, Inv, TaskKinds, Mine, Bindings
  <1>1. UNCHANGED <<conts, outcome, used>>  BY DEF Claim, history
  <1>2. PICK k : /\ Moves(t, s, recs[s], debts, k)
                 /\ \/ k = Idle
                    \/ /\ BindingSafe(s)
                       /\ k \in TaskType /\ k.pc = "flush" /\ k.kind = kind
                       /\ k.sid = s /\ k.local = recs[s]
    BY <1>0, ClaimMoves
  <1>3. ASSUME Working(k)
        PROVE  /\ k.sid = s /\ k.kind \in Kinds /\ OnItsWay(k)
               /\ Knows(k, recs[s], recs[s], conts[Place(k)], outcome[s])
    <2>1. /\ BindingSafe(s) /\ k.pc = "flush" /\ k.kind = kind /\ k.sid = s
          /\ k.local = recs[s]
      BY <1>2, <1>3, IdleOK
    <2>2. s \in Legacy => ~Disputed  BY <2>1, SafeNotDisputed
    <2>3. OnItsWay(k) /\ ~Allocating(k) /\ ~Vacant(k)
      BY <2>1 DEF OnItsWay, Allocating, Vacant
    <2> QED  BY <2>1, <2>2, <2>3, SameRefl DEF Knows
  <1> QED  BY <1>0, <1>1, <1>2, <1>3, SameRefl, BindStay

\* What a task observed was asked for.
Asked == \A t \in Tasks : task[t].pc = "observed" => task[t].kind \in Kinds

LEMMA BindObserved ==
  ASSUME BindInv, Asked, BranchInv', NEW t \in Tasks, FinishBegin(t) \/ ReapBegin(t)
  PROVE  BindInv'
  <1>0. PICK s \in Sessions : s = task[t].sid
    BY DEF FinishBegin, ReapBegin, BindInv, BranchInv, Inv, ControlInv, ControlOK, LocalOK
  <1>1. task[t].seen \in 0..MaxGen /\ task[t].kind \in Kinds
    BY DEF FinishBegin, ReapBegin, BindInv, BranchInv, Inv, ControlInv, ControlOK, TaskType, Asked
  <1>2. CASE Release(t) /\ UNCHANGED <<memory, disk, conts, git, history, faults>>
    BY <1>2, IdleOK, BindQuiet DEF Release, memory, history
  <1>3. CASE recs[s] # None /\ SessionFree(s) /\ task[t].kind = "finish"
             /\ Claim(t, s, "finish", task[t].seen, "closing")
    BY <1>1, <1>3, BindClaim
  <1>4. CASE recs[s] # None /\ SessionFree(s) /\ task[t].kind = "reap"
             /\ Claim(t, s, "reap", task[t].seen, "closing")
    BY <1>1, <1>4, BindClaim
  <1>5. CASE FinishBegin(t)  BY <1>0, <1>2, <1>3, <1>5 DEF FinishBegin
  <1>6. CASE ReapBegin(t)  BY <1>0, <1>2, <1>4, <1>6 DEF ReapBegin
  <1> QED  BY <1>5, <1>6

\* A fresh identity has no record, no container and no past.
LEMMA BindOpenBegin ==
  ASSUME BindInv, BranchInv', NEW t \in Tasks, NEW s \in Sessions,
         NEW kind \in {"open", "open_human"} \cap Kinds, OpenBegin(t, s, kind)
  PROVE  BindInv'
  <1>1. /\ Mine(t, s) /\ s \notin used /\ recs[s] = None /\ ControlInv
        /\ used' = used \cup {s} /\ UNCHANGED <<conts, outcome>>
    BY DEF OpenBegin, Mine, BindInv, BranchInv, Inv
  <1>2. /\ Fit(s, recs[s], conts) /\ Fit(s, disk.recs[s], conts) /\ Ended(s)
        /\ s \notin Legacy /\ outcome[s] = "none"
    <2>1. Fit(s, recs[s], conts) /\ Fit(s, disk.recs[s], conts) /\ Ended(s) /\ s \notin Legacy
      BY <1>1 DEF BindInv, Bindings
    <2> QED  BY <1>1, <2>1 DEF Ended
  <1>3. \A n \in Own(s) : conts[n] = None
    BY <1>1, <1>2 DEF Own, Fit
  <1>4. PICK k : /\ Moves(t, s, NewRecord(s), debts, k)
                 /\ \/ k = Idle
                    \/ /\ k \in TaskType /\ k.pc = "orphan" /\ k.kind = kind
                       /\ k.sid = s /\ k.local = NewRecord(s)
    BY <1>1, OpenBeginMoves
  <1>5. NewRecord(s).bound /\ NewRecord(s).gen = 1 /\ NewRecord(s) # None
    BY NewRecordOK, NoneIsNoRecord DEF NewRecord, BoundRecord
  <1>6. Fit(s, NewRecord(s), conts)  BY <1>2, <1>3, <1>5, FitEmpty
  <1>7. Ended(s)'  BY <1>1, <1>2 DEF Ended
  <1>8. ASSUME Working(k)
        PROVE  /\ k.sid = s /\ k.kind \in Kinds /\ OnItsWay(k)
               /\ Knows(k, NewRecord(s), NewRecord(s), conts'[Place(k)], outcome'[s])
    <2>1. k.pc = "orphan" /\ k.kind = kind /\ k.sid = s /\ k.local = NewRecord(s)
      BY <1>4, <1>8, IdleOK
    <2>2. OnItsWay(k)  BY <2>1 DEF OnItsWay, Opening
    <2>3. Place(k) = <<s, 1>> /\ 1 \in 1..MaxGen
      BY <1>5, <2>1, ConstantsAssumption DEF Place, Container
    <2>4. conts[Place(k)] = None  BY <1>3, <2>3 DEF Own
    <2> QED  BY <1>1, <1>2, <1>5, <2>1, <2>2, <2>4, SameRefl DEF Knows
  <1> QED  BY <1>1, <1>2, <1>4, <1>6, <1>7, <1>8, BindMove

\* A driver adds to one checkout and changes nothing else in a container.
LEMMA DriverShape ==
  ASSUME BindInv, NEW s \in Sessions, NEW w \in Work, DriverMayWrite(s, w), Wrote(s, w),
         NEW n, n = Container(s, recs[s])
  PROVE  /\ recs[s] \in BoundRecord /\ n \in Names
         /\ conts[n] # None /\ conts[n] \in Workspace /\ conts[n].booted
         /\ conts'[n] \in Workspace
         /\ conts'[n].branch = conts[n].branch /\ conts'[n].tree = conts[n].tree \cup {w}
         /\ \A m \in Names \ {n} : conts'[m] = conts[m]
  <1>1. WorldOK /\ ControlInv  BY DEF BindInv, BranchInv, Inv
  <1>2. recs[s] \in BoundRecord
    BY <1>1 DEF DriverMayWrite, ControlInv, ControlOK, Stores
  <1>3. n \in Names /\ conts[n] # None /\ conts[n].booted
    BY <1>2, ContainerOK DEF DriverMayWrite
  <1>4. conts[n] \in Workspace /\ conts \in [Names -> Workspace \cup {None}]
    BY <1>1, <1>3 DEF WorldOK
  <1>5. conts' = [conts EXCEPT ![n].tree = @ \cup {w}]
    BY DEF Wrote
  <1>6. conts'[n] = [conts[n] EXCEPT !.tree = @ \cup {w}]
        /\ \A m \in Names \ {n} : conts'[m] = conts[m]
    BY <1>3, <1>4, <1>5
  <1>7. PICK x \in Workspace : x = conts[n]  BY <1>4
  <1>8. conts'[n] = [x EXCEPT !.tree = @ \cup {w}]  BY <1>6, <1>7
  <1>9. conts'[n] \in Workspace /\ conts'[n].branch = x.branch /\ conts'[n].tree = x.tree \cup {w}
    BY <1>7, <1>8 DEF Workspace
  <1> QED  BY <1>2, <1>3, <1>4, <1>6, <1>7, <1>9

LEMMA BindDriver ==
  ASSUME BindInv, BranchInv', NEW s \in Sessions, NEW w \in Work, Edit(s, w) \/ Commit(s, w)
  PROVE  BindInv'
  <1>1. DriverMayWrite(s, w) /\ Wrote(s, w) /\ UNCHANGED <<recs, disk, task, used, outcome>>
    BY DEF Edit, Commit, memory
  <1>2. PICK n : n = Container(s, recs[s])  OBVIOUS
  <1>3. /\ n \in Names /\ conts[n] # None /\ conts'[n] # None /\ conts[n].booted
        /\ conts'[n].branch = conts[n].branch
        /\ \A m \in Names \ {n} : conts'[m] = conts[m]
    BY <1>1, <1>2, DriverShape, NoneIsNoWorkspace
  <1>4. \A x : \A o \in Sessions : Fit(o, x, conts) => Fit(o, x, conts')
    BY <1>3, FitBranches
  <1>5. Alias \in Names /\ \A o \in Sessions, g \in 1..MaxGen : <<o, g>> \in Names
    BY DEF Names
  <1>6. Bindings'
    <2>1. \A o \in Sessions : Ended(o) => Ended(o)'
      BY <1>1, <1>3, <1>5 DEF Ended
    <2> QED  BY <1>1, <1>3, <1>4, <1>5, <2>1 DEF BindInv, Bindings
  <1>7. TasksKnow'
    <2> SUFFICES ASSUME NEW u \in Tasks, Working(task[u])
                 PROVE  /\ task[u].kind \in Kinds /\ OnItsWay(task[u])
                        /\ Knows(task[u], recs[task[u].sid], disk.recs[task[u].sid],
                                 conts'[Place(task[u])], outcome[task[u].sid])
      BY <1>1 DEF TasksKnow, Working, OnItsWay, Opening, Knows, Allocating, Vacant, Place
    <2>1. /\ task[u].kind \in Kinds /\ OnItsWay(task[u])
          /\ Knows(task[u], recs[task[u].sid], disk.recs[task[u].sid],
                   conts[Place(task[u])], outcome[task[u].sid])
      BY DEF BindInv, TasksKnow
    <2>2. Place(task[u]) \in Names  BY PlaceOwn
    <2>3. CASE Place(task[u]) = n  BY <1>3, <2>1, <2>3 DEF Knows
    <2>4. CASE Place(task[u]) # n  BY <1>3, <2>1, <2>2, <2>4
    <2> QED  BY <2>3, <2>4
  <1> QED  BY <1>6, <1>7 DEF BindInv

LEMMA BindObserve ==
  ASSUME BindInv, BranchInv', NEW t \in Tasks, NEW s \in Sessions,
         FinishObserve(t, s) \/ ReapObserve(t, s)
  PROVE  BindInv'
  <1>1. PICK kind : Observed(t, s, kind)  BY DEF FinishObserve, ReapObserve
  <1> DEFINE k == [Idle EXCEPT !.pc = "observed", !.kind = kind, !.sid = s,
                               !.seen = recs[s].gen]
  <1>2. task' = [task EXCEPT ![t] = k] /\ ~Working(k)
    BY <1>1 DEF Observed, Working, Idle
  <1>3. UNCHANGED <<recs, disk, conts, outcome, used>>
    BY DEF FinishObserve, ReapObserve, memory, history
  <1> HIDE DEF k
  <1> QED  BY <1>2, <1>3, BindQuiet

\* Hydration rebinds nothing.
LEMMA HydrateSame ==
  ASSUME NEW r \in Stores, NEW s \in Sessions
  PROVE  Same(Hydrate(r)[s], r[s])
  <1>1. r[s] # None => r[s] \in Record
    BY DEF Stores, BoundRecord
  <1>2. r[s] # None => /\ [r[s] EXCEPT !.life = "failed", !.err = "legacy_ownership_ambiguous"] \in Record
                       /\ [r[s] EXCEPT !.life = "failed", !.err = "interrupted"] \in Record
    BY <1>1 DEF Record, Lifecycle, Failure
  <1> QED  BY <1>1, <1>2, NoneIsNoRecord DEF Hydrate, Record, Same

LEMMA BindCrash ==
  ASSUME BindInv, BranchInv', Crash
  PROVE  BindInv'
  <1>1. disk.recs \in Stores  BY DEF BindInv, BranchInv, Inv, ControlInv, ControlOK
  <1>2. /\ recs' = Hydrate(disk.recs) /\ \A t \in Tasks : ~Working(task'[t])
        /\ UNCHANGED <<disk, conts, outcome, used>>
    BY IdleOK DEF Crash, history
  <1>3. \A s \in Sessions : Same(recs'[s], disk.recs[s])
    BY <1>1, <1>2, HydrateSame
  <1>4. \A s \in Sessions : /\ Fit(s, recs'[s], conts)
                            /\ recs'[s] # None => disk.recs[s] # None
    BY <1>3, FitSame DEF BindInv, Bindings, Same
  <1>5. \A s \in Sessions : Ended(s)'
    BY <1>2 DEF BindInv, Bindings, Ended
  <1>6. Bindings'
    BY <1>2, <1>4, <1>5 DEF BindInv, Bindings
  <1>7. TasksKnow'
    BY <1>2 DEF TasksKnow, Working
  <1> QED  BY <1>6, <1>7 DEF BindInv

LEMMA BindSaved ==
  ASSUME BindInv, BranchInv', OthersPersist
  PROVE  BindInv'
  <1>1. disk'.recs = recs /\ UNCHANGED <<recs, task, conts, outcome, used>>
    BY DEF OthersPersist, Saved, memory, history
  <1>2. TasksKnow'
    BY <1>1 DEF BindInv, TasksKnow, Working, OnItsWay, Opening, Knows, Allocating, Vacant, Place
  <1>3. Bindings'
    BY <1>1 DEF BindInv, Bindings, Ended
  <1> QED  BY <1>2, <1>3 DEF BindInv

LEMMA BindStutter ==
  ASSUME BindInv, BranchInv', UNCHANGED vars
  PROVE  BindInv'
  <1>1. UNCHANGED <<recs, disk, task, conts, outcome, used>>  BY DEF vars
  <1>2. TasksKnow'
    BY <1>1 DEF BindInv, TasksKnow, Working, OnItsWay, Opening, Knows, Allocating, Vacant, Place
  <1>3. Bindings'
    BY <1>1 DEF BindInv, Bindings, Ended
  <1> QED  BY <1>2, <1>3 DEF BindInv

LEMMA AskedStep ==
  ASSUME BindInv, Asked, NEW t \in Tasks, NEW k, task' = [task EXCEPT ![t] = k],
         k.pc = "observed" => k.kind \in Kinds
  PROVE  Asked'
  BY DEF Asked, BindInv, BranchInv, Inv, ControlInv, ControlOK

LEMMA AskedClaim ==
  ASSUME BindInv, Asked, NEW t \in Tasks, NEW s \in Sessions, recs[s] # None,
         NEW kind \in TaskKinds, NEW seen \in 0..MaxGen, NEW life \in {"closing", "recycling"},
         Claim(t, s, kind, seen, life)
  PROVE  Asked'
  <1>1. ControlInv  BY DEF BindInv, BranchInv, Inv
  <1>2. PICK k : Moves(t, s, recs[s], debts, k) /\ (k = Idle \/ k.pc = "flush")
    BY <1>1, ClaimMoves
  <1>3. Idle.pc = "idle"  BY DEF Idle
  <1> QED  BY <1>2, <1>3, AskedStep DEF Moves

LEMMA AskedRequest ==
  ASSUME BindInv, Asked, NEW t \in Tasks, NEW s \in Sessions, Request(t, s)
  PROVE  Asked'
  <1>1. ControlInv /\ Idle.pc = "idle"  BY DEF BindInv, BranchInv, Inv, Idle
  <1>2. ASSUME NEW kind \in {"open", "open_human"}, OpenBegin(t, s, kind)
        PROVE  Asked'
    <2>1. PICK k : Moves(t, s, NewRecord(s), debts, k) /\ (k = Idle \/ k.pc = "orphan")
      BY <1>1, <1>2, OpenBeginMoves
    <2> QED  BY <1>1, <2>1, AskedStep DEF Moves
  <1>3. CASE CloseBegin(t, s) \/ RecycleBegin(t, s)
    <2>1. recs[s].gen \in 0..MaxGen /\ recs[s] # None
      BY <1>1, <1>3 DEF CloseBegin, RecycleBegin, ControlInv, ControlOK, Stores, BoundRecord, Record
    <2>2. \E kind \in TaskKinds, life \in {"closing", "recycling"} :
            Claim(t, s, kind, recs[s].gen, life)
      BY <1>3 DEF CloseBegin, RecycleBegin, TaskKinds
    <2> QED  BY <2>1, <2>2, AskedClaim
  <1>4. ASSUME NEW kind \in Kinds, Observed(t, s, kind)  PROVE Asked'
    <2> DEFINE k == [Idle EXCEPT !.pc = "observed", !.kind = kind, !.sid = s,
                                 !.seen = recs[s].gen]
    <2>1. task' = [task EXCEPT ![t] = k] /\ k.kind = kind
      BY <1>4 DEF Observed, Idle
    <2> HIDE DEF k
    <2> QED  BY <2>1, AskedStep
  <1> QED
    BY <1>2, <1>3, <1>4 DEF Request, FinishObserve, ReapObserve

LEMMA AskedRunning ==
  ASSUME BindInv, Asked, NEW t \in Tasks, Locking(t) \/ Running(t)
  PROVE  Asked'
  <1>0. Idle.pc = "idle"  BY DEF Idle
  <1>1. ASSUME NEW s, NEW l, NEW d, NEW k, Moves(t, s, l, d, k),
               \/ k = Idle
               \/ k.pc \in {"image", "flush"}
               \/ \E p \in Pcs \ {"observed"} : Carries(k, t, p)
        PROVE  Asked'
    BY <1>0, <1>1, AskedStep DEF Moves, Carries
  <1>2. {"layer", "create", "boot", "mirror", "destroy", "publish", "image", "remove"}
          \subseteq Pcs \ {"observed"}
    BY DEF Pcs
  <1>3. CASE OpenMirror(t)
    <2>1. PICK l, k : /\ Moves(t, task[t].sid, l, debts, k)
                      /\ k = Idle \/ k.pc = "image"
      BY <1>3, OpenMirrorMoves
    <2> QED  BY <1>1, <2>1
  <1>4. CASE OpenImage(t)  BY <1>1, <1>2, <1>4, OpenImageMoves
  <1>5. CASE Layer(t)  BY <1>1, <1>2, <1>5, LayerMoves
  <1>6. CASE Create(t)  BY <1>1, <1>2, <1>6, CreateMoves
  <1>7. CASE Boot(t)  BY <1>1, <1>7, BootMoves
  <1>8. CASE Flush(t)
    <2> DEFINE p == IF task[t].kind = "reap" THEN "destroy" ELSE "mirror"
    <2>1. PICK k : /\ Moves(t, task[t].sid, task[t].local, debts, k)
                   /\ k = Idle \/ Carries(k, t, p)
      BY <1>8, FlushMoves
    <2>2. p \in Pcs \ {"observed"}  BY <1>2
    <2> QED  BY <1>1, <2>1, <2>2
  <1>9. CASE CloseMerge(t)  BY <1>1, <1>2, <1>9, CloseMergeMoves
  <1>10. CASE RecycleFetch(t)  BY <1>1, <1>2, <1>10, RecycleFetchMoves
  <1>11. CASE Publish(t)  BY <1>1, <1>2, <1>11, PublishMoves
  <1>12. CASE Destroy(t)  BY <1>1, <1>2, <1>12, DestroyMoves
  <1>13. CASE CloseRemove(t) \/ ReapRemove(t)  BY <1>1, <1>13, RemoveMoves
  <1>14. CASE RecycleRebind(t)
    <2>1. PICK l, k : /\ Moves(t, task[t].sid, l, debts, k)
                      /\ k = Idle \/ k.pc = "layer"
      BY <1>14, RebindMoves
    <2> QED  BY <1>0, <2>1, AskedStep DEF Moves
  <1>15. CASE Release(t)
    BY <1>0, <1>15, AskedStep DEF Release
  <1>16. CASE FinishBegin(t) \/ ReapBegin(t)
    <2>1. task[t].sid \in Sessions /\ task[t].seen \in 0..MaxGen
      BY <1>16 DEF FinishBegin, ReapBegin, BindInv, BranchInv, Inv, ControlInv, ControlOK,
                   LocalOK, TaskType
    <2>2. \/ Release(t)
          \/ recs[task[t].sid] # None /\ \E kind \in TaskKinds :
               Claim(t, task[t].sid, kind, task[t].seen, "closing")
      BY <1>16 DEF FinishBegin, ReapBegin, TaskKinds
    <2> QED  BY <1>15, <2>1, <2>2, AskedClaim
  <1> QED
    BY <1>3, <1>4, <1>5, <1>6, <1>7, <1>8, <1>9, <1>10, <1>11, <1>12, <1>13, <1>14, <1>15,
       <1>16 DEF Locking, Running, WorkerDone

LEMMA AskedNext ==
  ASSUME BindInv, Asked, [Next]_vars
  PROVE  Asked'
  <1>1. CASE UNCHANGED task  BY <1>1 DEF Asked
  <1>2. CASE Crash  BY <1>2 DEF Crash, Asked, Idle
  <1>3. ASSUME NEW t \in Tasks, Cancel(t)  PROVE Asked'
    <2>1. Release(t) \/ \E p \in {"mirror_worker", "session_worker"} : Goto(t, p)
      BY <1>3 DEF Cancel
    <2>2. CASE Release(t)
      <3>1. Idle.pc = "idle"  BY DEF Idle
      <3> QED  BY <2>2, <3>1, AskedStep DEF Release
    <2>3. ASSUME NEW p \in {"mirror_worker", "session_worker"}, Goto(t, p)  PROVE Asked'
      <3> DEFINE k == [task[t] EXCEPT !.pc = p]
      <3>1. task' = [task EXCEPT ![t] = k] /\ k.pc = p
        BY <2>3 DEF Goto, BindInv, BranchInv, Inv, ControlInv, ControlOK, TaskType
      <3> HIDE DEF k
      <3> QED  BY <3>1, AskedStep
    <2> QED  BY <2>1, <2>2, <2>3
  <1> QED
    BY <1>1, <1>2, <1>3, AskedRequest, AskedRunning
    DEF Next, Edit, Commit, OthersPersist, Rest, vars

LEMMA BindInit == Init => BindInv /\ Asked
  <1> SUFFICES ASSUME Init  PROVE BindInv /\ Asked
    OBVIOUS
  <1> DEFINE old == [s \in Sessions |-> IF s \in Legacy THEN LegacyRecord(s) ELSE None]
  <1>1. BranchInv  BY BranchInit
  <1>2. recs = Hydrate(old) /\ disk.recs = old /\ used = Legacy
        /\ \A t \in Tasks : task[t] = Idle
    BY DEF Init
  <1>3. \A s \in Sessions : outcome[s] = "none"  BY DEF Init
  <1>4. old \in Stores  BY <1>1, <1>2 DEF BranchInv, Inv, ControlInv, ControlOK
  <1>5. /\ \A n \in Names \ {Alias} : conts[n] = None
        /\ conts[Alias] # None => conts[Alias].branch \in Legacy
    BY DEF Init, Names
  <1>6. ASSUME NEW s \in Sessions
        PROVE  /\ Fit(s, recs[s], conts) /\ Fit(s, disk.recs[s], conts) /\ Ended(s)
               /\ recs[s] # None \/ disk.recs[s] # None => s \in used
    <2>1. \A g \in 1..MaxGen : conts[<<s, g>>] = None
      <3> SUFFICES ASSUME NEW g \in 1..MaxGen  PROVE <<s, g>> \in Names \ {Alias}
        BY <1>5
      <3> QED  BY ConstantsAssumption DEF Names, Alias
    <2>2. s \in Legacy => old[s] # None /\ ~old[s].bound /\ old[s].branch = s
      <3>1. LegacyRecord(s) \in Record
        BY ConstantsAssumption DEF LegacyRecord, Record, Lifecycle, Failure
      <3> QED  BY <3>1, NoneIsNoRecord DEF LegacyRecord
    <2>3. s \notin Legacy => old[s] = None  OBVIOUS
    <2> HIDE DEF old
    <2>4. Fit(s, old[s], conts)  BY <2>1, <2>2, <2>3 DEF Fit
    <2>5. Same(recs[s], old[s])  BY <1>2, <1>4, HydrateSame
    <2> QED  BY <1>2, <1>3, <2>3, <2>4, <2>5, FitSame DEF Ended, Same
  <1>7. Bindings  BY <1>2, <1>5, <1>6 DEF Bindings
  <1>8. TasksKnow  BY <1>2, IdleOK DEF TasksKnow
  <1>9. Asked  BY <1>2 DEF Asked, Idle
  <1> QED  BY <1>1, <1>7, <1>8, <1>9 DEF BindInv

LEMMA BindNext ==
  ASSUME BindInv, Asked, [Next]_vars
  PROVE  BindInv'
  <1>1. BranchInv'  BY BranchNext DEF BindInv
  <1>2. ASSUME NEW t \in Tasks, NEW s \in Sessions, Request(t, s)  PROVE BindInv'
    <2>1. CASE CloseBegin(t, s) /\ "close" \in Kinds
      <3>1. recs[s].gen \in 0..MaxGen
        BY <2>1 DEF CloseBegin, BindInv, BranchInv, Inv, ControlInv, ControlOK, Stores,
                    BoundRecord, Record
      <3> QED  BY <1>1, <2>1, <3>1, BindClaim DEF CloseBegin
    <2>2. CASE RecycleBegin(t, s) /\ "recycle" \in Kinds
      <3>1. recs[s].gen \in 0..MaxGen
        BY <2>2 DEF RecycleBegin, BindInv, BranchInv, Inv, ControlInv, ControlOK, Stores,
                    BoundRecord, Record
      <3> QED  BY <1>1, <2>2, <3>1, BindClaim DEF RecycleBegin
    <2> QED  BY <1>1, <1>2, <2>1, <2>2, BindOpenBegin, BindObserve DEF Request
  <1>3. ASSUME NEW t \in Tasks, Locking(t)  PROVE BindInv'
    BY <1>1, <1>3, BindObserved, BindCloseMerge, BindRecycleFetch DEF Locking
  <1>4. ASSUME NEW t \in Tasks, Running(t)  PROVE BindInv'
    <2>1. CASE WorkerDone(t)
      BY <1>1, <2>1, IdleOK, BindQuiet DEF WorkerDone, Release, memory, history
    <2> QED
      BY <1>1, <1>4, <2>1, BindOpenMirror, BindOpenImage, BindLayer, BindCreate, BindBoot,
         BindFlush, BindPublish, BindDestroy, BindRemove, BindRebind
      DEF Running
  <1>5. CASE Rest \/ UNCHANGED vars
    BY <1>1, <1>5, BindStutter DEF Rest
  <1> QED
    BY <1>1, <1>2, <1>3, <1>4, <1>5, BindCancel, BindDriver, BindSaved, BindCrash DEF Next

\* Each session has one runtime: recycle destroys the former generation before
\* docker creates the next, whatever fails, is cancelled or crashes in between.
THEOREM OneRuntime == Spec => []OneRuntimePerSession
  <1>1. BindInv => OneRuntimePerSession
    <2> SUFFICES ASSUME BindInv, NEW s \in Sessions
                 PROVE  Cardinality({g \in 1..MaxGen : conts[<<s, g>>] # None}) <= 1
      BY DEF OneRuntimePerSession
    <2>1. {g \in 1..MaxGen : conts[<<s, g>>] # None} \subseteq {recs[s].gen}
      BY DEF BindInv, Bindings, Fit
    <2>2. IsFiniteSet({recs[s].gen}) /\ Cardinality({recs[s].gen}) = 1
      BY FS_Singleton
    <2>3. Cardinality({g \in 1..MaxGen : conts[<<s, g>>] # None}) <= Cardinality({recs[s].gen})
      BY <2>1, <2>2, FS_Subset
    <2> QED  BY <2>2, <2>3
  <1> QED  BY <1>1, BindInit, BindNext, AskedNext, PTL DEF Spec

\* Only a task at work removes a container, and only its own.
LEMMA OnlyMineGoes ==
  ASSUME BindInv, [Next]_vars, NEW n \in Names, conts[n] # None, conts'[n] = None
  PROVE  \E t \in Tasks : Working(task[t]) /\ n = Place(task[t])
  <1>0. WorldOK  BY DEF BindInv, BranchInv, Inv
  <1>1. ASSUME NEW t \in Tasks, Working(task[t]),
               conts' = [conts EXCEPT ![Place(task[t])] = None]
        PROVE  \E u \in Tasks : Working(task[u]) /\ n = Place(task[u])
    <2> SUFFICES ASSUME n # Place(task[t])  PROVE FALSE
      BY <1>1
    <2> QED  BY <1>0, <1>1 DEF WorldOK
  <1>2. ASSUME NEW t \in Tasks, Working(task[t]), Bootstrap(t)  PROVE FALSE
    BY <1>2, BootstrapShape, NoneIsNoWorkspace
  <1>3. ASSUME NEW s \in Sessions, NEW w \in Work, DriverMayWrite(s, w), Wrote(s, w)
        PROVE  FALSE
    BY <1>3, DriverShape, NoneIsNoWorkspace
  <1>4. CASE UNCHANGED conts
    BY <1>4
  <1>5. ASSUME NEW t \in Tasks, Running(t)
        PROVE  \E u \in Tasks : Working(task[u]) /\ n = Place(task[u])
    <2>1. CASE Destroy(t) \/ RecycleRebind(t)
      <3>1. Working(task[t]) /\ (UNCHANGED conts \/ conts' = [conts EXCEPT ![Place(task[t])] = None])
        BY <2>1 DEF Destroy, RecycleRebind, Working, Runtime, Place
      <3> QED  BY <1>1, <3>1
    <2>2. CASE Boot(t)
      <3>1. Working(task[t]) /\ (Bootstrap(t) \/ UNCHANGED conts)
        BY <2>2, BootMoves DEF Boot, Working
      <3> QED  BY <1>2, <3>1
    <2>3. CASE Create(t)
      <3>1. Working(task[t])  BY <2>3 DEF Create, Working
      <3>2. UNCHANGED conts \/ Allocate(Place(task[t]), task[t].local.branch)
        BY <2>3, CreateMoves
      <3>3. PICK x : x = Place(task[t])  OBVIOUS
      <3>4. PICK c : c = [branch |-> task[t].local.branch, tree |-> {}, booted |-> FALSE]
        OBVIOUS
      <3>5. c \in Workspace  BY <3>1, <3>4, WorkingKnows DEF Workspace, BoundRecord, Record
      <3>6. UNCHANGED conts \/ conts' = [conts EXCEPT ![x] = c]
        BY <3>2, <3>3, <3>4 DEF Allocate
      <3> QED  BY <1>0, <3>5, <3>6, NoneIsNoWorkspace DEF WorldOK
    <2>4. CASE UNCHANGED conts  BY <2>4
    <2> QED
      BY <1>5, <2>1, <2>2, <2>3, <2>4
      DEF Running, OpenMirror, OpenImage, Layer, Flush, Publish, CloseRemove, ReapRemove,
          WorkerDone
  <1>6. ASSUME NEW t \in Tasks, Cancel(t)
        PROVE  \E u \in Tasks : Working(task[u]) /\ n = Place(task[u])
    <2>1. UNCHANGED conts \/ (Working(task[t]) /\ Bootstrap(t))
      BY <1>6 DEF Cancel, Working
    <2> QED  BY <1>2, <2>1
  <1>7. ASSUME NEW t \in Tasks, Locking(t)  PROVE UNCHANGED conts
    BY <1>7 DEF Locking, FinishBegin, ReapBegin, CloseMerge, RecycleFetch, Claim
  <1>8. ASSUME NEW t \in Tasks, NEW s \in Sessions, Request(t, s)  PROVE UNCHANGED conts
    BY <1>8 DEF Request, OpenBegin, CloseBegin, RecycleBegin, FinishObserve, ReapObserve, Claim
  <1>9. CASE OthersPersist \/ Crash \/ Rest \/ UNCHANGED vars
    BY <1>4, <1>9 DEF OthersPersist, Crash, Rest, vars
  <1>10. ASSUME NEW s \in Sessions, NEW w \in Work, Edit(s, w) \/ Commit(s, w)  PROVE FALSE
    BY <1>3, <1>10 DEF Edit, Commit
  <1> QED  BY <1>4, <1>5, <1>6, <1>7, <1>8, <1>9, <1>10 DEF Next

\* A container that two records claim is never destroyed: binding_safe refuses
\* both, and no hydration after a crash gives either of them a task.
THEOREM DisputedKept == Spec => DisputedNeverDestroyed
  <1> DEFINE Step == \A n \in Names : conts[n] # None /\ conts'[n] = None =>
                       Cardinality({s \in Sessions : recs[s] # None /\ Container(s, recs[s]) = n}) <= 1
  <1>1. ASSUME BindInv, [Next]_vars  PROVE Step
    <2> SUFFICES ASSUME NEW n \in Names, conts[n] # None, conts'[n] = None
                 PROVE  Cardinality({s \in Sessions : recs[s] # None /\ Container(s, recs[s]) = n}) <= 1
      OBVIOUS
    <2>1. PICK t \in Tasks : Working(task[t]) /\ n = Place(task[t])
      BY <1>1, OnlyMineGoes
    <2>2. PICK s \in Sessions : s = task[t].sid  BY <1>1, <2>1, WorkingKnows
    <2>3. n \in Own(s) /\ (s \in Legacy => ~Disputed)
      BY <1>1, <2>1, <2>2, PlaceOwn
    <2>4. ASSUME NEW o \in Sessions, recs[o] # None, Container(o, recs[o]) = n
          PROVE  o = s
      <3>1. Fit(o, recs[o], conts)  BY <1>1 DEF BindInv, Bindings
      <3>2. CASE recs[o].bound
        BY <2>3, <2>4, <3>2, ConstantsAssumption DEF Container, Own, Alias
      <3>3. CASE ~recs[o].bound
        <4>1. o \in Legacy /\ n = Alias  BY <2>4, <3>1, <3>3 DEF Fit, Container
        <4>2. s \in Legacy  BY <2>3, <4>1, ConstantsAssumption DEF Own, Alias
        <4> QED  BY <2>3, <4>1, <4>2 DEF Disputed
      <3> QED  BY <3>2, <3>3
    <2>5. {o \in Sessions : recs[o] # None /\ Container(o, recs[o]) = n} \subseteq {s}
      BY <2>4
    <2>6. IsFiniteSet({s}) /\ Cardinality({s}) = 1
      BY FS_Singleton
    <2>7. Cardinality({o \in Sessions : recs[o] # None /\ Container(o, recs[o]) = n})
            <= Cardinality({s})
      BY <2>5, <2>6, FS_Subset
    <2> QED  BY <2>6, <2>7
  <1>2. BindInv /\ [Next]_vars => [Step]_vars
    BY <1>1
  <1> QED  BY <1>2, BindInit, BindNext, AskedNext, PTL DEF Spec, DisputedNeverDestroyed

-----------------------------------------------------------------------------
(* A record listed active has its container                                *)
(*                                                                         *)
(* With no crash and no client that goes away, a transition either ends    *)
(* with its record active and its container booted, drops the record, or   *)
(* marks it failed before it gives the session guard back.                 *)

\* No transition of one session touches the container another's record names.
LEMMA ContainerApart ==
  ASSUME BindInv, NEW s \in Sessions, NEW o \in Sessions \ {s}, recs[o] # None
  PROVE  Container(o, recs[o]) \in Names \ Own(s)
  <1>1. recs[o] \in BoundRecord /\ Fit(o, recs[o], conts)
    BY DEF BindInv, Bindings, BranchInv, Inv, ControlInv, ControlOK, Stores
  <1>2. CASE recs[o].bound
    <2>1. Container(o, recs[o]) = <<o, recs[o].gen>> /\ recs[o].gen \in 1..MaxGen
      BY <1>1, <1>2 DEF Container, BoundRecord
    <2> QED  BY <2>1, ConstantsAssumption DEF Names, Own, Alias
  <1>3. CASE ~recs[o].bound
    <2>1. Container(o, recs[o]) = Alias /\ o \in Legacy
      BY <1>1, <1>3 DEF Container, Fit
    <2> QED  BY <2>1, ConstantsAssumption DEF Names, Own, Alias, Disputed
  <1> QED  BY <1>2, <1>3

Runs(x, c) == x.owned /\ c # None /\ c.booted

\* A task that holds no guard but those of its request, and about to boot only
\* what it has put as owned.
Diligent(k) ==
  /\ k.pc \notin {"mirror_worker", "session_worker"}
  /\ k.pc = "boot" => k.local.owned

Ready == ActiveIsRunnable /\ \A t \in Tasks : Diligent(task[t])

LEMMA ReadyStep ==
  ASSUME BindInv, Ready, NEW t \in Tasks, NEW s \in Sessions, Mine(t, s),
         task[t].pc \in {"idle", "observed"} \/ task[t].sid = s,
         NEW k, task' = [task EXCEPT ![t] = k], Diligent(k),
         \A o \in Sessions \ {s} : recs'[o] = recs[o],
         \A n \in Names \ Own(s) : conts'[n] = conts[n],
         \/ HeldSession(k, s)
         \/ recs'[s] = None
         \/ recs'[s].life # "active"
         \/ Runs(recs'[s], conts'[Container(s, recs'[s])])
  PROVE  Ready'
  <1>1. task'[t] = k /\ \A u \in Tasks \ {t} : task'[u] = task[u]
    BY DEF BindInv, BranchInv, Inv, ControlInv, ControlOK
  <1>2. \A u \in Tasks : Diligent(task'[u])
    BY <1>1 DEF Ready
  <1>3. ASSUME NEW o \in Sessions, recs'[o] # None, recs'[o].life = "active", SessionFree(o)'
        PROVE  Runs(recs'[o], conts'[Container(o, recs'[o])])
    <2>1. CASE o = s
      BY <1>1, <1>3, <2>1 DEF SessionFree, HoldsSession, HeldSession
    <2>2. CASE o # s
      <3>1. recs'[o] = recs[o]  BY <2>2
      <3>2. SessionFree(o)
        BY <1>1, <1>3, <2>2 DEF SessionFree, HoldsSession
      <3>3. Runs(recs[o], conts[Container(o, recs[o])])
        BY <1>3, <3>1, <3>2 DEF Ready, ActiveIsRunnable, Runs
      <3>4. Container(o, recs[o]) \in Names \ Own(s)
        BY <1>3, <2>2, <3>1, ContainerApart
      <3> QED  BY <3>1, <3>3, <3>4
    <2> QED  BY <2>1, <2>2
  <1>4. ActiveIsRunnable'
    BY <1>3 DEF ActiveIsRunnable, Runs, Container
  <1> QED  BY <1>2, <1>4 DEF Ready, Diligent

\* No guard is given back, records stand, containers only fill.
LEMMA ReadyQuiet ==
  ASSUME BindInv, Ready, recs' = recs,
         \A n \in Names : conts[n] # None /\ conts[n].booted =>
           conts'[n] # None /\ conts'[n].booted,
         \A u \in Tasks : Diligent(task'[u]),
         \A o \in Sessions : SessionFree(o)' => SessionFree(o)
  PROVE  Ready'
  <1>1. ASSUME NEW o \in Sessions, recs'[o] # None, recs'[o].life = "active", SessionFree(o)'
        PROVE  Runs(recs'[o], conts'[Container(o, recs'[o])])
    <2>1. Runs(recs[o], conts[Container(o, recs[o])])
      BY <1>1 DEF Ready, ActiveIsRunnable, Runs
    <2>2. Container(o, recs[o]) \in Names
      BY <1>1, ContainerOK
      DEF BindInv, BranchInv, Inv, ControlInv, ControlOK, Stores
    <2> QED  BY <2>1, <2>2 DEF Runs
  <1>2. ActiveIsRunnable'
    BY <1>1 DEF ActiveIsRunnable, Runs, Container
  <1> QED  BY <1>2 DEF Ready, Diligent

LEMMA ReadyStill ==
  ASSUME BindInv, Ready, UNCHANGED <<recs, conts, task>>
  PROVE  Ready'
  BY DEF Ready, ActiveIsRunnable, SessionFree, HoldsSession, Diligent, Container

\* A task goes from one point without guards to another.
LEMMA ReadyUnguarded ==
  ASSUME BindInv, Ready, NEW t \in Tasks, NEW k, task' = [task EXCEPT ![t] = k],
         task[t].pc \in {"idle", "observed"}, k.pc \in {"idle", "observed"},
         recs' = recs, conts' = conts
  PROVE  Ready'
  <1>1. task'[t] = k /\ \A u \in Tasks \ {t} : task'[u] = task[u]
    BY DEF BindInv, BranchInv, Inv, ControlInv, ControlOK
  <1>2. \A u \in Tasks : Diligent(task'[u])
    BY <1>1 DEF Ready, Diligent
  <1>3. ASSUME NEW o \in Sessions, SessionFree(o)'  PROVE SessionFree(o)
    BY <1>1, <1>3 DEF SessionFree, HoldsSession
  <1> QED  BY <1>2, <1>3, ReadyQuiet

\* A failure ends the request with the record marked failed.
LEMMA ReadyFailed ==
  ASSUME BindInv, Ready, NEW t \in Tasks, NEW s \in Sessions, Mine(t, s),
         task[t].pc \in {"idle", "observed"} \/ task[t].sid = s,
         NEW r \in Stores, r[s] \in BoundRecord, \A o \in Sessions \ {s} : r[o] = recs[o],
         NEW d, NEW code \in Failure, Failed(t, s, code, r, d),
         \A n \in Names \ Own(s) : conts'[n] = conts[n]
  PROVE  Ready'
  <1> DEFINE m == [r[s] EXCEPT !.life = "failed", !.err = code]
  <1>1. recs' = Mark(r, s, "failed", code) /\ task' = [task EXCEPT ![t] = Idle]
    BY DEF Failed, Release
  <1>2. \A o \in Sessions \ {s} : recs'[o] = recs[o]
    BY <1>1, MarkOK DEF Lifecycle
  <1>3. m.life = "failed"  BY DEF BoundRecord, Record
  <1>4. recs'[s] = m  BY <1>1 DEF Mark, Stores
  <1>5. Diligent(Idle)  BY DEF Diligent, Idle
  <1> HIDE DEF m
  <1> QED  BY <1>1, <1>2, <1>3, <1>4, <1>5, ReadyStep

LEMMA ReadyFail ==
  ASSUME BindInv, Ready, NEW t \in Tasks, NEW s \in Sessions, recs[s] # None, Mine(t, s),
         task[t].pc \in {"idle", "observed"} \/ task[t].sid = s,
         NEW f, FailHere(t, s) \/ FailInjected(t, f, s),
         \A n \in Names \ Own(s) : conts'[n] = conts[n]
  PROVE  Ready'
  <1>1. Failed(t, s, "other", recs, debts)
    BY DEF FailHere, FailInjected, Fail
  <1>2. recs \in Stores /\ recs[s] \in BoundRecord
    BY DEF BindInv, BranchInv, Inv, ControlInv, ControlOK, Stores
  <1> QED  BY <1>1, <1>2, ReadyFailed DEF Failure

\* What is put and persisted is carried on, or has its container.
LEMMA ReadyPersist ==
  ASSUME BindInv, Ready, NEW t \in Tasks, NEW s \in Sessions, Mine(t, s),
         task[t].pc \in {"idle", "observed"} \/ task[t].sid = s,
         NEW r \in Stores, r[s] \in BoundRecord, \A o \in Sessions \ {s} : r[o] = recs[o],
         NEW d, NEW k, Diligent(k), TryPersist(t, s, r, d, k),
         HeldSession(k, s) \/ Runs(r[s], conts'[Container(s, r[s])]),
         \A n \in Names \ Own(s) : conts'[n] = conts[n]
  PROVE  Ready'
  <1>1. CASE Failed(t, s, "other", r, d)
    BY <1>1, ReadyFailed DEF Failure
  <1>2. CASE recs' = r /\ task' = [task EXCEPT ![t] = k]
    BY <1>2, ReadyStep
  <1> QED  BY <1>1, <1>2 DEF TryPersist

LEMMA ReadyPut ==
  ASSUME BindInv, Ready, NEW t \in Tasks, Working(task[t]), NEW l \in BoundRecord,
         NEW d, NEW k, Diligent(k),
         TryPersist(t, task[t].sid, [recs EXCEPT ![task[t].sid] = l], d, k),
         HeldSession(k, task[t].sid) \/ Runs(l, conts'[Container(task[t].sid, l)]),
         \A n \in Names \ Own(task[t].sid) : conts'[n] = conts[n]
  PROVE  Ready'
  <1> DEFINE s == task[t].sid
             r == [recs EXCEPT ![s] = l]
  <1>1. s \in Sessions /\ Mine(t, s)  BY WorkingKnows
  <1>2. r \in Stores /\ r[s] = l /\ \A o \in Sessions \ {s} : r[o] = recs[o]
    BY WorkingKnows DEF Stores
  <1>3. TryPersist(t, s, r, d, k)  OBVIOUS
  <1> HIDE DEF r
  <1> QED  BY <1>1, <1>2, <1>3, ReadyPersist

\* A step on, or a failure, of a task that keeps its record.
LEMMA ReadyGoto ==
  ASSUME BindInv, Ready, NEW t \in Tasks, Working(task[t]), UNCHANGED recs,
         NEW k, task' = [task EXCEPT ![t] = k], Diligent(k), HeldSession(k, task[t].sid),
         \A n \in Names \ Own(task[t].sid) : conts'[n] = conts[n]
  PROVE  Ready'
  BY WorkingKnows, ReadyStep

LEMMA ReadyHere ==
  ASSUME BindInv, Ready, NEW t \in Tasks, Working(task[t]),
         NEW f, FailHere(t, task[t].sid) \/ FailInjected(t, f, task[t].sid),
         \A n \in Names \ Own(task[t].sid) : conts'[n] = conts[n]
  PROVE  Ready'
  <1>1. recs[task[t].sid] # None  BY WorkingKnows, NoneIsNoRecord DEF BoundRecord
  <1> QED  BY <1>1, WorkingKnows, ReadyFail

LEMMA ReadyOpenBegin ==
  ASSUME BindInv, Ready, NEW t \in Tasks, NEW s \in Sessions,
         NEW kind \in {"open", "open_human"}, OpenBegin(t, s, kind)
  PROVE  Ready'
  <1> DEFINE k == [Idle EXCEPT !.pc = "orphan", !.kind = kind, !.sid = s, !.local = NewRecord(s)]
             r == [recs EXCEPT ![s] = NewRecord(s)]
  <1>1. k.pc = "orphan" /\ k.sid = s /\ Idle.pc = "idle"  BY DEF Idle
  <1>2. Diligent(k) /\ HeldSession(k, s)  BY <1>1 DEF Diligent, HeldSession
  <1>3. r \in Stores /\ r[s] \in BoundRecord /\ \A o \in Sessions \ {s} : r[o] = recs[o]
    BY NewRecordOK DEF BindInv, BranchInv, Inv, ControlInv, ControlOK, Stores
  <1>4. Mine(t, s) /\ task[t].pc = "idle"  BY <1>1 DEF OpenBegin, Mine
  <1>5. TryPersist(t, s, r, debts, k) /\ UNCHANGED conts  BY DEF OpenBegin
  <1> HIDE DEF k, r
  <1> QED  BY <1>2, <1>3, <1>4, <1>5, ReadyPersist

LEMMA ReadyClaim ==
  ASSUME BindInv, Ready, NEW t \in Tasks, task[t].pc \in {"idle", "observed"},
         NEW s \in Sessions, SessionFree(s), recs[s] # None,
         NEW kind \in TaskKinds, NEW seen \in 0..MaxGen, NEW life \in {"closing", "recycling"},
         Claim(t, s, kind, seen, life)
  PROVE  Ready'
  <1> DEFINE k == [Idle EXCEPT !.pc = "flush", !.kind = kind, !.sid = s,
                               !.seen = seen, !.local = recs[s]]
             r == Mark(recs, s, life, "none")
  <1>1. recs \in Stores /\ recs[s] \in BoundRecord /\ Mine(t, s) /\ UNCHANGED conts
    BY DEF BindInv, BranchInv, Inv, ControlInv, ControlOK, Stores, Mine, Claim
  <1>2. CASE Failed(t, s, "legacy_ownership_ambiguous", recs, debts)
    BY <1>1, <1>2, ReadyFailed DEF Failure
  <1>3. CASE FailHere(t, s)
    BY <1>1, <1>3, ReadyFail
  <1>4. CASE TryPersist(t, s, r, debts, k)
    <2>1. k.pc = "flush" /\ k.sid = s  BY DEF Idle
    <2>2. Diligent(k) /\ HeldSession(k, s)  BY <2>1 DEF Diligent, HeldSession
    <2>3. r \in Stores /\ r[s] \in BoundRecord /\ \A o \in Sessions \ {s} : r[o] = recs[o]
      <3>1. life \in Lifecycle /\ "none" \in Failure  BY DEF Lifecycle, Failure
      <3> QED  BY <1>1, <3>1, MarkOK
    <2> HIDE DEF k, r
    <2> QED  BY <1>1, <1>4, <2>2, <2>3, ReadyPersist
  <1> QED  BY <1>2, <1>3, <1>4 DEF Claim, Fail

LEMMA ReadyRequest ==
  ASSUME BindInv, Ready, NEW t \in Tasks, NEW s \in Sessions, Request(t, s)
  PROVE  Ready'
  <1>1. CASE CloseBegin(t, s) \/ RecycleBegin(t, s)
    <2>1. /\ recs[s].gen \in 0..MaxGen /\ recs[s] # None /\ SessionFree(s)
          /\ task[t].pc = "idle"
      BY <1>1 DEF CloseBegin, RecycleBegin, Idle, BindInv, BranchInv, Inv, ControlInv,
                  ControlOK, Stores, BoundRecord, Record
    <2>2. \E kind \in TaskKinds, life \in {"closing", "recycling"} :
            Claim(t, s, kind, recs[s].gen, life)
      BY <1>1 DEF CloseBegin, RecycleBegin, TaskKinds
    <2> QED  BY <2>1, <2>2, ReadyClaim
  <1>2. CASE FinishObserve(t, s) \/ ReapObserve(t, s)
    <2>1. UNCHANGED <<recs, conts>> /\ task[t].pc = "idle"
      BY <1>2 DEF FinishObserve, ReapObserve, memory, Idle
    <2>2. PICK kind : Observed(t, s, kind)
      BY <1>2 DEF FinishObserve, ReapObserve
    <2> DEFINE k == [Idle EXCEPT !.pc = "observed", !.kind = kind, !.sid = s,
                                 !.seen = recs[s].gen]
    <2>3. task' = [task EXCEPT ![t] = k] /\ k.pc = "observed"
      BY <2>2 DEF Observed, Idle
    <2> HIDE DEF k
    <2>4. recs' = recs /\ conts' = conts /\ task[t].pc = "idle"
      BY <2>1
    <2> QED  BY <2>3, <2>4, ReadyUnguarded
  <1> QED  BY <1>1, <1>2, ReadyOpenBegin DEF Request

LEMMA ReadyObserved ==
  ASSUME BindInv, Ready, NEW t \in Tasks, FinishBegin(t) \/ ReapBegin(t)
  PROVE  Ready'
  <1>1. task[t].sid \in Sessions /\ task[t].seen \in 0..MaxGen /\ task[t].pc = "observed"
        /\ SessionFree(task[t].sid)
    BY DEF FinishBegin, ReapBegin, BindInv, BranchInv, Inv, ControlInv, ControlOK,
           LocalOK, TaskType
  <1>2. \/ Release(t) /\ UNCHANGED <<recs, conts>>
        \/ recs[task[t].sid] # None /\ \E kind \in TaskKinds :
             Claim(t, task[t].sid, kind, task[t].seen, "closing")
    BY DEF FinishBegin, ReapBegin, TaskKinds, memory
  <1>3. CASE Release(t) /\ UNCHANGED <<recs, conts>>
    <2>1. task' = [task EXCEPT ![t] = Idle] /\ Idle.pc = "idle"
      BY <1>3 DEF Release, Idle
    <2> HIDE DEF Idle
    <2>2. recs' = recs /\ conts' = conts /\ task[t].pc = "observed"
      BY <1>1, <1>3
    <2> QED  BY <2>1, <2>2, ReadyUnguarded
  <1> QED  BY <1>1, <1>2, <1>3, ReadyClaim

\* A request that goes on at p, past its guards and before its boot.
LEMMA ReadyAt ==
  ASSUME BindInv, Ready, NEW t \in Tasks, Working(task[t]), UNCHANGED recs,
         NEW p \in {"layer", "mirror", "destroy", "publish", "image", "remove"},
         Goto(t, p),
         \A n \in Names \ Own(task[t].sid) : conts'[n] = conts[n]
  PROVE  Ready'
  <1> DEFINE k == [task[t] EXCEPT !.pc = p]
  <1>1. k.pc = p /\ k.sid = task[t].sid  BY WorkingKnows DEF TaskType
  <1>2. task' = [task EXCEPT ![t] = k]
    BY DEF Goto, BindInv, BranchInv, Inv, ControlInv, ControlOK
  <1> HIDE DEF k
  <1> QED  BY <1>1, <1>2, ReadyGoto DEF Diligent, HeldSession

\* A record put and persisted on the way to p, or a failure.
LEMMA ReadyPutAt ==
  ASSUME BindInv, Ready, NEW t \in Tasks, Working(task[t]), NEW l \in BoundRecord,
         NEW p \in {"image", "layer", "create", "boot"}, p = "boot" => l.owned,
         TryPersist(t, task[t].sid, [recs EXCEPT ![task[t].sid] = l], debts,
                    [task[t] EXCEPT !.pc = p, !.local = l]),
         \A n \in Names \ Own(task[t].sid) : conts'[n] = conts[n]
  PROVE  Ready'
  <1> DEFINE k == [task[t] EXCEPT !.pc = p, !.local = l]
  <1>1. k.pc = p /\ k.sid = task[t].sid /\ k.local = l  BY WorkingKnows DEF TaskType
  <1>2. Diligent(k) /\ HeldSession(k, task[t].sid)  BY <1>1 DEF Diligent, HeldSession
  <1>3. TryPersist(t, task[t].sid, [recs EXCEPT ![task[t].sid] = l], debts, k)  OBVIOUS
  <1> HIDE DEF k
  <1> QED  BY <1>2, <1>3, ReadyPut

LEMMA ReadyOpenMirror ==
  ASSUME BindInv, Ready, NEW t \in Tasks, OpenMirror(t)
  PROVE  Ready'
  <1> DEFINE s == task[t].sid
             mine == task[t].local
  <1>1. Working(task[t]) /\ UNCHANGED conts  BY DEF OpenMirror, Working
  <1>2. ASSUME NEW b \in Sessions,
               TryPersist(t, s, [recs EXCEPT ![s] = [mine EXCEPT !.branch = b]], debts,
                          [task[t] EXCEPT !.pc = "image", !.local = [mine EXCEPT !.branch = b]])
        PROVE  Ready'
    <2> DEFINE l == [mine EXCEPT !.branch = b]
    <2>1. l \in BoundRecord  BY <1>1, WorkingKnows DEF BoundRecord, Record
    <2>2. TryPersist(t, s, [recs EXCEPT ![s] = l], debts,
                     [task[t] EXCEPT !.pc = "image", !.local = l])
      BY <1>2
    <2> HIDE DEF l
    <2> QED  BY <1>1, <2>1, <2>2, ReadyPutAt
  <1>3. CASE FailInjected(t, "mirror", s)  BY <1>1, <1>3, ReadyHere
  <1>4. Orphans \subseteq Sessions /\ mine.branch \in Sessions
    BY <1>1, WorkingKnows DEF Orphans, BoundRecord, Record
  <1> QED  BY <1>2, <1>3, <1>4 DEF OpenMirror

LEMMA ReadyLayer ==
  ASSUME BindInv, Ready, NEW t \in Tasks, Layer(t)
  PROVE  Ready'
  <1> DEFINE l == IF task[t].kind = "recycle"
                    THEN [task[t].local EXCEPT !.owned = FALSE, !.life = "recycling"]
                    ELSE task[t].local
  <1>1. Working(task[t]) /\ UNCHANGED conts  BY DEF Layer, Working
  <1>2. l \in BoundRecord
    BY <1>1, WorkingKnows DEF BoundRecord, Record, Lifecycle
  <1>3. TryPersist(t, task[t].sid, [recs EXCEPT ![task[t].sid] = l], debts,
                   [task[t] EXCEPT !.pc = "create", !.local = l])
    BY DEF Layer
  <1> HIDE DEF l
  <1> QED  BY <1>1, <1>2, <1>3, ReadyPutAt

\* What is created is put as owned.
LEMMA ReadyCreate ==
  ASSUME BindInv, Ready, NEW t \in Tasks, Create(t)
  PROVE  Ready'
  <1> DEFINE l == [task[t].local EXCEPT !.owned = TRUE]
  <1>1. Working(task[t])  BY DEF Create, Working
  <1>2. l \in BoundRecord /\ l.owned
    BY <1>1, WorkingKnows DEF BoundRecord, Record
  <1>3. \A n \in Names \ Own(task[t].sid) : conts'[n] = conts[n]
    <2>1. UNCHANGED conts \/ Allocate(Place(task[t]), task[t].local.branch)
      BY CreateMoves
    <2> QED  BY <1>1, <2>1, PlaceOwn DEF Allocate, BindInv, BranchInv, Inv, WorldOK
  <1>4. CASE TryPersist(t, task[t].sid, [recs EXCEPT ![task[t].sid] = l], debts,
                        [task[t] EXCEPT !.pc = "boot", !.local = l])
    <2> HIDE DEF l
    <2> QED  BY <1>1, <1>2, <1>3, <1>4, ReadyPutAt
  <1>5. CASE FailInjected(t, "docker", task[t].sid) \/ FailHere(t, task[t].sid)
    BY <1>1, <1>3, <1>5, ReadyHere
  <1> QED  BY <1>4, <1>5 DEF Create

\* The record becomes active with its container booted, under the guard.
LEMMA ReadyBoot ==
  ASSUME BindInv, Ready, NEW t \in Tasks, Boot(t)
  PROVE  Ready'
  <1> DEFINE s == task[t].sid
             l == [task[t].local EXCEPT !.life = "active", !.err = "none"]
  <1>1. Working(task[t]) /\ task[t].pc = "boot"  BY DEF Boot, Working
  <1>2. \A n \in Names \ Own(s) : conts'[n] = conts[n]
    <2>1. CASE UNCHANGED conts  BY <2>1
    <2>2. CASE Bootstrap(t)  BY <1>1, <2>2, BootstrapShape, PlaceOwn
    <2> QED  BY <2>1, <2>2, BootMoves
  <1>3. CASE FailInjected(t, "boot", s) \/ FailHere(t, s)
    BY <1>1, <1>2, <1>3, ReadyHere
  <1>4. CASE Bootstrap(t) /\ TryPersist(t, s, [recs EXCEPT ![s] = l], debts, Idle)
    <2>1. task[t].local.owned  BY <1>1 DEF Ready, Diligent
    <2>2. l \in BoundRecord /\ l.owned /\ Container(s, l) = Place(task[t])
      BY <1>1, <2>1, WorkingKnows
      DEF BoundRecord, Record, Lifecycle, Failure, Container, Place
    <2>3. PICK n : n = Place(task[t])  OBVIOUS
    <2>4. conts'[n] \in Workspace /\ conts'[n].booted
      BY <1>1, <1>4, <2>3, BootstrapShape
    <2>5. Runs(l, conts'[Container(s, l)])
      BY <2>2, <2>3, <2>4, NoneIsNoWorkspace DEF Runs
    <2>6. Diligent(Idle)  BY DEF Diligent, Idle
    <2> HIDE DEF l
    <2> QED  BY <1>1, <1>2, <1>4, <2>2, <2>5, <2>6, ReadyPut
  <1> QED  BY <1>3, <1>4 DEF Boot

LEMMA ReadyFlush ==
  ASSUME BindInv, Ready, NEW t \in Tasks, Flush(t)
  PROVE  Ready'
  <1>1. Working(task[t]) /\ UNCHANGED conts  BY DEF Flush, Working
  <1>2. CASE FailInjected(t, "flush", task[t].sid) \/ FailHere(t, task[t].sid)
    BY <1>1, <1>2, ReadyHere
  <1>3. ASSUME NEW p \in {"destroy", "mirror"}, Goto(t, p), UNCHANGED memory  PROVE Ready'
    BY <1>1, <1>3, ReadyAt DEF memory
  <1> QED  BY <1>2, <1>3 DEF Flush

LEMMA ReadyMerge ==
  ASSUME BindInv, Ready, NEW t \in Tasks, CloseMerge(t) \/ RecycleFetch(t)
  PROVE  Ready'
  <1>1. Working(task[t]) /\ UNCHANGED conts
    BY DEF CloseMerge, RecycleFetch, Working
  <1>2. CASE FetchFails(t)  BY <1>1, <1>2, ReadyHere DEF FetchFails
  <1>3. CASE Fetched(t) /\ Goto(t, "image")
    BY <1>1, <1>3, ReadyAt DEF Fetched, memory
  <1>4. ASSUME NEW debt, Fetched(t),
               task' = [task EXCEPT ![t] = [@ EXCEPT !.pc = "publish", !.debt = debt]]
        PROVE  Ready'
    <2> DEFINE k == [task[t] EXCEPT !.pc = "publish", !.debt = debt]
    <2>1. k.pc = "publish" /\ k.sid = task[t].sid  BY <1>1, WorkingKnows DEF TaskType
    <2>2. task' = [task EXCEPT ![t] = k] /\ UNCHANGED recs  BY <1>4 DEF Fetched, memory
    <2> HIDE DEF k
    <2> QED  BY <1>1, <2>1, <2>2, ReadyGoto DEF Diligent, HeldSession
  <1> QED  BY <1>2, <1>3, <1>4 DEF CloseMerge, RecycleFetch

LEMMA ReadyPublish ==
  ASSUME BindInv, Ready, NEW t \in Tasks, Publish(t)
  PROVE  Ready'
  <1> DEFINE k == [task[t] EXCEPT !.pc = "destroy"]
  <1>1. Working(task[t]) /\ UNCHANGED conts  BY DEF Publish, Working
  <1>2. CASE FailInjected(t, "push", task[t].sid) \/ FailHere(t, task[t].sid)
    BY <1>1, <1>2, ReadyHere
  <1>3. ASSUME NEW d, TryPersist(t, task[t].sid, recs, d, k)  PROVE Ready'
    <2>1. k.pc = "destroy" /\ k.sid = task[t].sid  BY <1>1, WorkingKnows DEF TaskType
    <2> HIDE DEF k
    <2>2. Diligent(k) /\ HeldSession(k, task[t].sid)
      BY <2>1 DEF Diligent, HeldSession
    <2> QED  BY <1>1, <1>3, <2>2, WorkingKnows, ReadyPersist
  <1> QED  BY <1>2, <1>3 DEF Publish

LEMMA ReadyDestroy ==
  ASSUME BindInv, Ready, NEW t \in Tasks, Destroy(t) \/ RecycleRebind(t)
  PROVE  Ready'
  <1> DEFINE s == task[t].sid
             l == [task[t].local EXCEPT !.gen = @ + 1, !.bound = TRUE, !.owned = FALSE]
  <1>1. Working(task[t])  BY DEF Destroy, RecycleRebind, Working
  <1>2. \A n \in Names \ Own(s) : conts'[n] = conts[n]
    <2>1. UNCHANGED conts \/ conts' = [conts EXCEPT ![Place(task[t])] = None]
      BY DEF Destroy, RecycleRebind, Runtime, Place
    <2> QED  BY <1>1, <2>1, GoneIsEmpty
  <1>3. ASSUME NEW f, FailInjected(t, f, s)  PROVE Ready'
    BY <1>1, <1>2, <1>3, ReadyHere
  <1>4. CASE Goto(t, "remove") /\ UNCHANGED memory
    BY <1>1, <1>2, <1>4, ReadyAt DEF memory
  <1>5. CASE /\ task[t].pc = "image" /\ task[t].kind = "recycle"
             /\ TryPersist(t, s, [recs EXCEPT ![s] = l], debts,
                           [task[t] EXCEPT !.pc = "layer", !.local = l])
    <2>1. task[t].local.gen \in 0..MaxGen /\ task[t].local.gen < MaxGen
      BY <1>1, <1>5, WorkingKnows
      DEF BindInv, BranchInv, Inv, ControlInv, ControlOK, LocalOK, BoundRecord, Record
    <2>2. task[t].local.gen + 1 \in 0..MaxGen /\ task[t].local.gen + 1 \in 1..MaxGen
      BY <2>1, ConstantsAssumption
    <2>3. l \in BoundRecord
      BY <1>1, <2>2, WorkingKnows DEF BoundRecord, Record
    <2> HIDE DEF l
    <2> QED  BY <1>1, <1>2, <1>5, <2>3, ReadyPutAt
  <1> QED  BY <1>3, <1>4, <1>5 DEF Destroy, RecycleRebind

LEMMA ReadyRemove ==
  ASSUME BindInv, Ready, NEW t \in Tasks, CloseRemove(t) \/ ReapRemove(t)
  PROVE  Ready'
  <1>1. Working(task[t]) /\ UNCHANGED conts  BY DEF CloseRemove, ReapRemove, Working
  <1>2. recs' = [recs EXCEPT ![task[t].sid] = None] /\ task' = [task EXCEPT ![t] = Idle]
    BY DEF CloseRemove, ReapRemove, Release
  <1>3. /\ recs'[task[t].sid] = None
        /\ \A o \in Sessions \ {task[t].sid} : recs'[o] = recs[o]
    BY <1>1, <1>2, WorkingKnows DEF Stores
  <1>4. Diligent(Idle)  BY DEF Diligent, Idle
  <1> HIDE DEF Idle
  <1> QED  BY <1>1, <1>2, <1>3, <1>4, WorkingKnows, ReadyStep

LEMMA ReadyDriver ==
  ASSUME BindInv, Ready, NEW s \in Sessions, NEW w \in Work, Edit(s, w) \/ Commit(s, w)
  PROVE  Ready'
  <1>1. DriverMayWrite(s, w) /\ Wrote(s, w) /\ UNCHANGED <<recs, task>>
    BY DEF Edit, Commit, memory
  <1>2. PICK n : n = Container(s, recs[s])  OBVIOUS
  <1>3. /\ n \in Names /\ conts[n] # None /\ conts[n] \in Workspace /\ conts[n].booted
        /\ conts'[n] \in Workspace
        /\ \A m \in Names \ {n} : conts'[m] = conts[m]
    BY <1>1, <1>2, DriverShape
  <1>4. conts'[n].booted
    <2>1. conts' = [conts EXCEPT ![n].tree = @ \cup {w}]
      BY <1>1, <1>2 DEF Wrote
    <2>2. conts'[n] = [conts[n] EXCEPT !.tree = @ \cup {w}]
      BY <1>3, <2>1 DEF BindInv, BranchInv, Inv, WorldOK
    <2>3. PICK x \in Workspace : x = conts[n]  BY <1>3
    <2>4. conts'[n] = [x EXCEPT !.tree = @ \cup {w}]  BY <2>2, <2>3
    <2> QED  BY <1>3, <2>3, <2>4 DEF Workspace
  <1>5. conts'[n] # None  BY <1>3, NoneIsNoWorkspace
  <1>6. /\ \A u \in Tasks : Diligent(task'[u])
        /\ \A o \in Sessions : SessionFree(o)' => SessionFree(o)
    BY <1>1 DEF Ready, SessionFree, HoldsSession
  <1>7. \A m \in Names : conts[m] # None /\ conts[m].booted => conts'[m] # None /\ conts'[m].booted
    BY <1>3, <1>4, <1>5
  <1> QED  BY <1>1, <1>6, <1>7, ReadyQuiet

LEMMA ReadyNext ==
  ASSUME Faults \cap {"crash", "cancel"} = {}, BindInv, Ready, [Next]_vars
  PROVE  Ready'
  <1>1. ~Crash /\ \A t \in Tasks : ~Cancel(t)  BY DEF Crash, Cancel, Inject
  <1>2. ASSUME NEW t \in Tasks  PROVE ~WorkerDone(t)
    BY DEF WorkerDone, Ready, Diligent
  <1>3. ASSUME NEW t \in Tasks, OpenImage(t)  PROVE Ready'
    <2>1. Working(task[t]) /\ UNCHANGED conts  BY <1>3 DEF OpenImage, Working
    <2>2. CASE FailInjected(t, "image", task[t].sid)
      BY <2>1, <2>2, ReadyHere
    <2>3. CASE Goto(t, "layer") /\ UNCHANGED memory
      BY <2>1, <2>3, ReadyAt DEF memory
    <2> QED  BY <1>3, <2>2, <2>3 DEF OpenImage
  <1>4. CASE OthersPersist \/ Rest \/ UNCHANGED vars
    BY <1>4, ReadyStill DEF OthersPersist, Rest, vars, memory
  <1>5. ASSUME NEW t \in Tasks, Locking(t) \/ Running(t)  PROVE Ready'
    BY <1>2, <1>3, <1>5, ReadyObserved, ReadyOpenMirror, ReadyLayer, ReadyCreate, ReadyBoot,
       ReadyFlush, ReadyMerge, ReadyPublish, ReadyDestroy, ReadyRemove
    DEF Locking, Running
  <1> QED
    BY <1>1, <1>4, <1>5, ReadyRequest, ReadyDriver DEF Next

\* Hydration fails every claim on a container that several legacy records share.
LEMMA ReadyInit == Init => Ready
  <1> SUFFICES ASSUME Init  PROVE Ready
    OBVIOUS
  <1> DEFINE old == [s \in Sessions |-> IF s \in Legacy THEN LegacyRecord(s) ELSE None]
             claims == {s \in Sessions : old[s] # None /\ ~old[s].bound}
  <1>1. BindInv /\ recs = Hydrate(old) /\ \A t \in Tasks : task[t] = Idle
    BY BindInit DEF Init
  <1>2. ASSUME NEW s \in Sessions, recs[s] # None, recs[s].life = "active"
        PROVE  Runs(recs[s], conts[Container(s, recs[s])])
    <2>1. s \in Legacy  BY <1>1, <1>2 DEF Hydrate
    <2>2. old[s] = LegacyRecord(s)  BY <2>1
    <2>3. LegacyRecord(s).life = "active" /\ ~LegacyRecord(s).bound /\ LegacyRecord(s).owned
          /\ LegacyRecord(s) # None
      <3>1. LegacyRecord(s) \in Record
        BY ConstantsAssumption DEF LegacyRecord, Record, Lifecycle, Failure
      <3> QED  BY <3>1, NoneIsNoRecord DEF LegacyRecord
    <2>4. recs[s] = old[s]
      <3>1. CASE Cardinality(claims) > 1
        <4>1. recs[s].life = "failed"
          <5>1. recs[s] = [old[s] EXCEPT !.life = "failed", !.err = "legacy_ownership_ambiguous"]
            BY <1>1, <2>2, <2>3, <3>1 DEF Hydrate
          <5> QED  BY <2>2, <5>1 DEF LegacyRecord
        <4> QED  BY <1>2, <4>1
      <3>2. CASE ~(Cardinality(claims) > 1)
        BY <1>1, <2>2, <2>3, <3>2 DEF Hydrate
      <3> QED  BY <3>1, <3>2
    <2>5. Container(s, recs[s]) = Alias  BY <2>2, <2>3, <2>4 DEF Container
    <2>6. Legacy # {} /\ Alias \in Names  BY <2>1 DEF Names
    <2>7. PICK b \in Legacy : conts[Alias] = [branch |-> b, tree |-> {}, booted |-> TRUE]
      BY <2>6 DEF Init
    <2>8. conts[Alias] \in Workspace /\ conts[Alias].booted
      BY <2>7, ConstantsAssumption DEF Workspace
    <2> HIDE DEF old
    <2> QED  BY <2>2, <2>3, <2>4, <2>5, <2>8, NoneIsNoWorkspace DEF Runs
  <1>3. ActiveIsRunnable  BY <1>2 DEF ActiveIsRunnable, Runs
  <1> QED  BY <1>1, <1>3 DEF Ready, Diligent, Idle

\* A session listed active and at rest has the runtime its binding names, owned
\* and booted, whichever steps fail; a crash or a client that goes away in the
\* middle of a transition is what can leave it without one.
THEOREM ActiveRuns ==
  ASSUME Faults \cap {"crash", "cancel"} = {}
  PROVE  Spec => []ActiveIsRunnable
  <1> DEFINE I == BindInv /\ Asked /\ Ready
  <1>1. Init => I  BY BindInit, ReadyInit
  <1>2. I /\ [Next]_vars => I'  BY BindNext, AskedNext, ReadyNext
  <1>3. I => ActiveIsRunnable  BY DEF Ready
  <1> QED  BY <1>1, <1>2, <1>3, PTL DEF Spec

=============================================================================
