-------------------------- MODULE SessionWork_proofs --------------------------
(***************************************************************************)
(* No work is lost: what the remote holds of a session at each step of a   *)
(* transition, and what the debts, the event log and master may therefore  *)
(* say. The bindings of SessionBinding_proofs are what this rests on.      *)
(***************************************************************************)
EXTENDS SessionBinding_proofs

-----------------------------------------------------------------------------
(* Whose branch a container pushes to                                      *)

\* The container of a task at work is on the branch the task works for.
LEMMA PlaceBranch ==
  ASSUME BindInv, NEW t \in Tasks, Working(task[t]), conts[Place(task[t])] # None
  PROVE  conts[Place(task[t])].branch = task[t].local.branch
  <1> DEFINE l == task[t].local
  <1>0. PICK s \in Sessions : s = task[t].sid  BY WorkingKnows
  <1>1. /\ Fit(s, recs[s], conts) /\ Same(recs[s], l) /\ l # None /\ l \in BoundRecord
        /\ s \in Legacy => ~Disputed
    BY <1>0, WorkingKnows, PlaceOwn DEF BindInv, Bindings
  <1>2. CASE l.bound
    <2>1. Place(task[t]) = <<s, l.gen>> /\ l.gen \in 1..MaxGen
      BY <1>0, <1>1, <1>2 DEF Place, Container, BoundRecord
    <2> QED  BY <1>1, <2>1 DEF Fit, Same
  <1>3. CASE ~l.bound
    <2>1. Place(task[t]) = Alias  BY <1>3 DEF Place, Container
    <2>2. s \in Legacy /\ l.branch = s  BY <1>1, <1>3 DEF Fit, Same
    <2>3. conts[Alias].branch \in Legacy  BY <2>1 DEF BindInv, Bindings
    <2> QED  BY <1>1, <2>1, <2>2, <2>3 DEF Disputed
  <1> QED  BY <1>2, <1>3

\* No two sessions with a task at hand are on one branch.
LEMMA OtherBranch ==
  ASSUME BindInv, NEW s \in Sessions, recs[s] # None,
         NEW u \in Tasks, Working(task[u]), task[u].sid # s
  PROVE  task[u].local.branch # recs[s].branch
  <1>1. task[u].sid \in Sessions /\ recs[task[u].sid] # None
        /\ task[u].local.branch = recs[task[u].sid].branch
    BY WorkingKnows, NoneIsNoRecord DEF BindInv, BranchInv, RecordBranches, BoundRecord
  <1> QED  BY <1>1 DEF BindInv, BranchInv, RecordBranches, Exclusive

\* A container is never on the branch of a task at work for another session.
LEMMA PushApart ==
  ASSUME BindInv, NEW s \in Sessions, recs[s] # None,
         NEW n, n = Container(s, recs[s]), conts[n] # None,
         NEW u \in Tasks, Working(task[u]), task[u].sid # s
  PROVE  conts[n].branch # task[u].local.branch
  <1>0. Fit(s, recs[s], conts) /\ recs[s] \in BoundRecord
    BY DEF BindInv, Bindings, BranchInv, Inv, ControlInv, ControlOK, Stores
  <1>1. task[u].local.branch # recs[s].branch  BY OtherBranch
  <1>2. CASE recs[s].bound
    <2>1. n = <<s, recs[s].gen>> /\ recs[s].gen \in 1..MaxGen
      BY <1>0, <1>2 DEF Container, BoundRecord
    <2> QED  BY <1>0, <1>1, <2>1 DEF Fit
  <1>3. CASE ~recs[s].bound
    <2>1. n = Alias /\ s \in Legacy /\ recs[s].branch = s
      BY <1>0, <1>3 DEF Container, Fit
    <2>2. PICK p \in Legacy : p = conts[Alias].branch  BY <2>1 DEF BindInv, Bindings
    <2>3. CASE p = s  BY <1>1, <2>1, <2>2, <2>3
    <2>4. CASE p # s
      <3>1. p \in Sessions /\ Disputed  BY <2>1, <2>4, ConstantsAssumption DEF Disputed
      <3>2. Fit(p, recs[p], conts)  BY <3>1 DEF BindInv, Bindings
      <3>3. recs[p] # None /\ recs[p].branch = p  BY <3>1, <3>2 DEF Fit
      <3>4. task[u].sid # p  BY <3>1, PlaceOwn
      <3> QED  BY <2>1, <2>2, <3>1, <3>3, <3>4, OtherBranch
    <2> QED  BY <2>3, <2>4
  <1> QED  BY <1>2, <1>3

-----------------------------------------------------------------------------
(* Refs                                                                    *)
(*                                                                         *)
(* What the remote has of the branches in use, and who answers for a debt. *)

\* Of a task k at work, given the remote branches ob, master om, the mirror's
\* master mm, and the debts in memory and in the snapshot.
RefOK(k, ob, om, mm, d, e) ==
  /\ Allocating(k) /\ Opening(k) /\ k.local.branch = k.sid => ob[k.sid] = None
  /\ Checkpointed(k) => ob[k.local.branch] # None
  /\ k.pc = "publish" => om \subseteq mm
  /\ k.pc = "orphan" => k.local.branch = k.sid /\ k.sid \notin d /\ k.sid \notin e

\* Each debt is on the remote or named by a record.
Owed(d, r, ob) ==
  \A b \in d : ob[b] # None \/ \E s \in Sessions : r[s] # None /\ r[s].branch = b

Refs ==
  /\ \A t \in Tasks : Working(task[t]) =>
       RefOK(task[t], originBranch, originMaster, mirrorMaster, debts, disk.debts)
  /\ debts \subseteq used /\ disk.debts \subseteq used
  /\ Owed(debts, recs, originBranch) /\ Owed(disk.debts, disk.recs, originBranch)

LEMMA OwedSame ==
  ASSUME NEW d, NEW ob, NEW r, NEW q, \A s \in Sessions : Same(q[s], r[s]), Owed(d, r, ob)
  PROVE  Owed(d, q, ob)
  BY DEF Owed, Same

\* One task moves, its branch is b, and nobody else works for that branch.
Frame(t, b, ob) ==
  /\ \A c \in Sessions \ {b} : ob[c] = originBranch[c]
  /\ \A u \in Tasks \ {t} : Working(task[u]) => task[u].local.branch # b

LEMMA RefMove ==
  ASSUME BindInv, Refs, NEW t \in Tasks, NEW s \in Sessions, Mine(t, s),
         NEW l, NEW d, NEW k, Moves(t, s, l, d, k),
         NEW b \in Sessions, Frame(t, b, originBranch'),
         UNCHANGED <<originMaster, mirrorMaster>> \/ HeldMerge(task[t]) \/ MergeFree,
         d \subseteq debts \cup {b}, used \subseteq used', b \in used',
         Working(k) => RefOK(k, originBranch', originMaster', mirrorMaster', d, disk'.debts),
         Owed(d, recs', originBranch'),
         disk' = disk => Owed(disk.debts, disk.recs, originBranch')
  PROVE  Refs'
  <1>0. ControlInv  BY DEF BindInv, BranchInv, Inv
  <1>1. task'[t] = k /\ \A u \in Tasks \ {t} : task'[u] = task[u]
    BY <1>0 DEF Moves, ControlInv, ControlOK
  <1>2. debts' = d /\ disk'.debts \in {d, disk.debts}
    BY DEF Moves
  <1>3. ASSUME NEW u \in Tasks \ {t}, Working(task[u])
        PROVE  RefOK(task[u], originBranch', originMaster', mirrorMaster', debts', disk'.debts)
    <2>1. /\ RefOK(task[u], originBranch, originMaster, mirrorMaster, debts, disk.debts)
          /\ task[u].local.branch # b
      BY <1>3 DEF Refs, Frame
    <2>2. task[u].local.branch \in Sessions /\ task[u].sid \in Sessions
      BY <1>3, WorkingKnows DEF BoundRecord, Record
    <2>3. originBranch'[task[u].local.branch] = originBranch[task[u].local.branch]
      BY <2>1, <2>2 DEF Frame
    <2>4. task[u].pc = "publish" => UNCHANGED <<originMaster, mirrorMaster>>
      BY <1>0 DEF ControlInv, MutualExclusion, MergeFree, HoldsMerge, HeldMerge
    <2> QED  BY <1>2, <2>1, <2>3, <2>4 DEF RefOK
  <1>4. \A u \in Tasks : Working(task'[u]) =>
          RefOK(task'[u], originBranch', originMaster', mirrorMaster', debts', disk'.debts)
    BY <1>1, <1>2, <1>3
  <1>5. Owed(disk'.debts, disk'.recs, originBranch')
    <2>1. CASE /\ \A o \in Sessions \ {s} : disk'.recs[o] = recs[o]
               /\ Same(disk'.recs[s], l)
               /\ disk'.debts = d
      <3>1. \A o \in Sessions : Same(disk'.recs[o], recs'[o])
        BY <2>1, SameRefl, SameSym, SameTrans DEF Moves
      <3> QED  BY <2>1, <3>1, OwedSame
    <2> QED  BY <2>1 DEF Moves
  <1>6. debts' \subseteq used' /\ disk'.debts \subseteq used'
    BY <1>2 DEF Refs
  <1> QED  BY <1>2, <1>4, <1>5, <1>6 DEF Refs, Working

\* The task keeps its record on its branch, and no branch is dropped.
LEMMA RefKeep ==
  ASSUME BindInv, Refs, NEW t \in Tasks, NEW s \in Sessions, Mine(t, s),
         NEW l, l # None, recs[s] # None => l.branch = recs[s].branch,
         NEW d, NEW k, Moves(t, s, l, d, k),
         NEW b \in Sessions, b = l.branch, Frame(t, b, originBranch'),
         originBranch[b] # None => originBranch'[b] # None,
         UNCHANGED <<originMaster, mirrorMaster>> \/ HeldMerge(task[t]) \/ MergeFree,
         d \subseteq debts \cup {b}, used \subseteq used', b \in used',
         Working(k) => RefOK(k, originBranch', originMaster', mirrorMaster', d, disk'.debts)
  PROVE  Refs'
  <1>1. \A c \in Sessions : originBranch[c] # None => originBranch'[c] # None
    BY DEF Frame
  <1>2. debts \subseteq Sessions /\ disk.debts \subseteq Sessions
    BY DEF BindInv, BranchInv, Inv, ControlInv, ControlOK
  <1>3. recs'[s] # None /\ recs'[s].branch = b /\ \A o \in Sessions \ {s} : recs'[o] = recs[o]
    BY DEF Moves, Same
  <1>4. Owed(d, recs', originBranch')
    BY <1>1, <1>2, <1>3 DEF Refs, Owed
  <1>5. Owed(disk.debts, disk.recs, originBranch')
    BY <1>1, <1>2 DEF Refs, Owed
  <1> QED  BY <1>4, <1>5, RefMove

\* A task at work, its branch and what it may rely on.
LEMMA WorkingRef ==
  ASSUME BindInv, Refs, NEW t \in Tasks, Working(task[t])
  PROVE  /\ task[t].local.branch \in Sessions /\ task[t].local.branch \in used
         /\ recs[task[t].sid] # None /\ recs[task[t].sid].branch = task[t].local.branch
         /\ \A u \in Tasks \ {t} : Working(task[u]) =>
              task[u].sid # task[t].sid /\ task[u].local.branch # task[t].local.branch
         /\ RefOK(task[t], originBranch, originMaster, mirrorMaster, debts, disk.debts)
  <1>1. /\ task[t].local.branch \in Sessions /\ task[t].local.branch \in used
        /\ recs[task[t].sid] # None /\ recs[task[t].sid].branch = task[t].local.branch
        /\ task[t].sid \in Sessions
    BY WorkingKnows, LocalBranchDrawn, NoneIsNoRecord
    DEF BindInv, BranchInv, RecordBranches, BoundRecord, Record
  <1>2. ASSUME NEW u \in Tasks \ {t}, Working(task[u])
        PROVE  task[u].sid # task[t].sid
    <2>1. HeldSession(task[u], task[u].sid)  BY <1>2 DEF HeldSession, Working
    <2> QED  BY <1>1, <1>2, <2>1, WorkingKnows, MineIsMine DEF BindInv, BranchInv, Inv
  <1> QED  BY <1>1, <1>2, OtherBranch DEF Refs

\* The task at work moves on or fails, its branch as it was or pushed.
LEMMA RefCarry ==
  ASSUME BindInv, Refs, NEW t \in Tasks, Working(task[t]),
         NEW l, l # None, l.branch = task[t].local.branch,
         NEW d, NEW k, Moves(t, task[t].sid, l, d, k),
         NEW b, b = task[t].local.branch,
         \A c \in Sessions \ {b} : originBranch'[c] = originBranch[c],
         originBranch[b] # None => originBranch'[b] # None,
         UNCHANGED <<originMaster, mirrorMaster>> \/ HeldMerge(task[t]) \/ MergeFree,
         d \subseteq debts \cup {b}, UNCHANGED used,
         Working(k) => RefOK(k, originBranch', originMaster', mirrorMaster', d, disk'.debts)
  PROVE  Refs'
  <1>1. PICK s \in Sessions : s = task[t].sid  BY WorkingKnows
  <1>2. Mine(t, s) /\ b \in Sessions /\ b \in used'  BY <1>1, WorkingKnows, WorkingRef
  <1>3. Frame(t, b, originBranch')  BY WorkingRef DEF Frame
  <1>4. recs[s] # None => l.branch = recs[s].branch  BY <1>1, WorkingRef
  <1> QED  BY <1>1, <1>2, <1>3, <1>4, RefKeep

\* A task at work fails.
LEMMA RefFail ==
  ASSUME BindInv, Refs, NEW t \in Tasks, Working(task[t]),
         Moves(t, task[t].sid, task[t].local, debts, Idle),
         UNCHANGED <<originBranch, used>>,
         UNCHANGED <<originMaster, mirrorMaster>> \/ HeldMerge(task[t]) \/ MergeFree
  PROVE  Refs'
  BY IdleOK, WorkingKnows, RefCarry

\* Nobody's records or tasks at work change; one branch may be pushed.
LEMMA RefWorld ==
  ASSUME BindInv, Refs, \A u \in Tasks : Working(task'[u]) => task'[u] = task[u],
         UNCHANGED <<recs, debts, disk, originMaster, mirrorMaster>>, used \subseteq used',
         NEW b, \A c \in Sessions \ {b} : originBranch'[c] = originBranch[c],
         originBranch[b] # None => originBranch'[b] # None,
         \/ originBranch'[b] = originBranch[b]
         \/ \A u \in Tasks : Working(task'[u]) /\ task[u].local.branch = b => ~Allocating(task[u])
  PROVE  Refs'
  <1>1. \A c \in Sessions : originBranch[c] # None => originBranch'[c] # None
    OBVIOUS
  <1>2. debts \subseteq Sessions /\ disk.debts \subseteq Sessions
    BY DEF BindInv, BranchInv, Inv, ControlInv, ControlOK
  <1>3. ASSUME NEW u \in Tasks, Working(task'[u])
        PROVE  RefOK(task'[u], originBranch', originMaster', mirrorMaster', debts', disk'.debts)
    <2>1. task'[u] = task[u]  BY <1>3
    <2>2. RefOK(task[u], originBranch, originMaster, mirrorMaster, debts, disk.debts)
      BY <1>3, <2>1 DEF Refs
    <2>3. task[u].local.branch \in Sessions
      BY <1>3, <2>1, WorkingKnows DEF BoundRecord, Record
    <2> QED  BY <1>1, <1>3, <2>1, <2>2, <2>3 DEF RefOK
  <1>4. Owed(debts, recs, originBranch') /\ Owed(disk.debts, disk.recs, originBranch')
    BY <1>1, <1>2 DEF Refs, Owed
  <1> QED  BY <1>3, <1>4 DEF Refs, Working

-----------------------------------------------------------------------------
(* The refs, step by step                                                  *)

\* A task at work moves on without pushing or recording a debt.
LEMMA RefGoOn ==
  ASSUME BindInv, Refs, NEW t \in Tasks, Working(task[t]),
         NEW k, Moves(t, task[t].sid, task[t].local, debts, k),
         \/ k = Idle
         \/ \E p \in Pcs \ {"orphan", "publish"} : Carries(k, t, p),
         UNCHANGED <<originBranch, used>>,
         UNCHANGED <<originMaster, mirrorMaster>> \/ HeldMerge(task[t]) \/ MergeFree,
         Working(k) => /\ Allocating(k) /\ Opening(k) => Allocating(task[t])
                       /\ Checkpointed(k) => Checkpointed(task[t])
  PROVE  Refs'
  <1>1. ASSUME Working(k)
        PROVE  RefOK(k, originBranch', originMaster', mirrorMaster', debts, disk'.debts)
    <2>1. PICK p \in Pcs \ {"orphan", "publish"} : Carries(k, t, p)
      BY <1>1, IdleOK
    <2>2. /\ k.pc = p /\ k.sid = task[t].sid /\ k.kind = task[t].kind
          /\ k.local.branch = task[t].local.branch
      BY <2>1, WorkingKnows DEF Carries, Same
    <2>3. RefOK(task[t], originBranch, originMaster, mirrorMaster, debts, disk.debts)
      BY WorkingRef
    <2> QED  BY <1>1, <2>2, <2>3 DEF RefOK, Opening
  <1> QED  BY <1>1, WorkingKnows, RefCarry

LEMMA RefOpen ==
  ASSUME BindInv, Refs, NEW t \in Tasks, OpenImage(t) \/ Layer(t) \/ Create(t)
  PROVE  Refs'
  <1>1. /\ Working(task[t]) /\ UNCHANGED <<originBranch, originMaster, mirrorMaster, used>>
        /\ Allocating(task[t])
    BY DEF OpenImage, Layer, Create, Working, git, history, Allocating, Opening
  <1>2. PICK p, k :
          /\ p \in {"layer", "create", "boot"}
          /\ Moves(t, task[t].sid, task[t].local, debts, k) /\ (k = Idle \/ Carries(k, t, p))
    BY OpenImageMoves, LayerMoves, CreateMoves
  <1>3. p \in Pcs \ {"orphan", "publish"}  BY <1>2 DEF Pcs
  <1>4. Working(k) => ~Checkpointed(k)
    BY <1>2, IdleOK DEF Carries, Checkpointed
  <1> QED  BY <1>1, <1>2, <1>3, <1>4, RefGoOn

\* A branch bootstrapped is a branch pushed.
LEMMA BootstrapPushes ==
  ASSUME BindInv, NEW t \in Tasks, Working(task[t]), Bootstrap(t),
         NEW b, b = task[t].local.branch
  PROVE  /\ \A c \in Sessions \ {b} : originBranch'[c] = originBranch[c]
         /\ originBranch'[b] # None
  <1>1. PICK n : n = Place(task[t])  OBVIOUS
  <1>2. /\ b \in Sessions /\ conts'[n].tree \in SUBSET Work
        /\ originBranch' = [originBranch EXCEPT ![b] = conts'[n].tree]
    BY <1>1, BootstrapShape
  <1>3. originBranch \in [Sessions -> (SUBSET Work) \cup {None}]
    BY DEF BindInv, BranchInv, Inv, WorldOK
  <1> QED  BY <1>2, <1>3, NoneIsNoWorkspace

\* A push replaces one branch by the checkout, which has all that was there.
LEMMA PushedShape ==
  ASSUME BindInv, NEW n \in Names, CanPush(n), originBranch' = Pushed(n)
  PROVE  /\ conts[n] # None /\ conts[n] \in Workspace
         /\ conts[n].branch \in Sessions
         /\ \A c \in Sessions \ {conts[n].branch} : originBranch'[c] = originBranch[c]
         /\ originBranch'[conts[n].branch] = conts[n].tree
         /\ originBranch'[conts[n].branch] # None
         /\ originBranch[conts[n].branch] # None =>
              originBranch[conts[n].branch] \subseteq conts[n].tree
  <1>1. WorldOK  BY DEF BindInv, BranchInv, Inv
  <1>2. conts[n] # None /\ conts[n] \in Workspace  BY <1>1 DEF WorldOK, CanPush
  <1>3. conts[n].branch \in Sessions /\ conts[n].tree \in SUBSET Work  BY <1>2 DEF Workspace
  <1>4. originBranch \in [Sessions -> (SUBSET Work) \cup {None}]  BY <1>1 DEF WorldOK
  <1> QED  BY <1>2, <1>3, <1>4, NoneIsNoWorkspace DEF Pushed, CanPush

LEMMA RefBootstrap ==
  ASSUME BindInv, Refs, NEW t \in Tasks, Working(task[t]),
         Moves(t, task[t].sid, task[t].local, debts, Idle),
         Bootstrap(t), UNCHANGED <<originMaster, mirrorMaster, used>>
  PROVE  Refs'
  <1>1. PICK b : b = task[t].local.branch  OBVIOUS
  <1>2. \A c \in Sessions \ {b} : originBranch'[c] = originBranch[c]
    BY <1>1, BootstrapPushes
  <1>3. originBranch'[b] # None  BY <1>1, BootstrapPushes
  <1> QED  BY <1>1, <1>2, <1>3, IdleOK, WorkingKnows, RefCarry

LEMMA RefBoot ==
  ASSUME BindInv, Refs, NEW t \in Tasks, Boot(t)
  PROVE  Refs'
  <1>1. Working(task[t]) /\ UNCHANGED <<originMaster, mirrorMaster, used>>
    BY DEF Boot, Working, history
  <1> QED  BY <1>1, BootMoves, RefBootstrap, RefFail

LEMMA RefCancel ==
  ASSUME BindInv, Refs, NEW t \in Tasks, Cancel(t)
  PROVE  Refs'
  <1>1. UNCHANGED <<memory, disk, originMaster, mirrorMaster, used>>  BY DEF Cancel, history
  <1>2. CASE task[t].pc = "boot" /\ Release(t) /\ Bootstrap(t)
    <2>1. Working(task[t])  BY <1>2 DEF Working
    <2> QED  BY <1>1, <1>2, <2>1, ReleaseMoves, RefBootstrap
  <1>3. ASSUME NEW k, ~Working(k), task' = [task EXCEPT ![t] = k], UNCHANGED originBranch
        PROVE  Refs'
    <2>1. \A u \in Tasks : Working(task'[u]) => task'[u] = task[u]
      BY <1>3 DEF BindInv, BranchInv, Inv, ControlInv, ControlOK
    <2> QED  BY <1>1, <1>3, <2>1, RefWorld DEF memory
  <1>4. CASE Release(t) /\ UNCHANGED originBranch
    BY <1>3, <1>4, IdleOK DEF Release
  <1>5. ASSUME NEW p \in {"mirror_worker", "session_worker"}, Goto(t, p), UNCHANGED originBranch
        PROVE  Refs'
    <2> DEFINE k == [task[t] EXCEPT !.pc = p]
    <2>1. task' = [task EXCEPT ![t] = k] /\ ~Working(k)
      BY <1>5 DEF Goto, BindInv, BranchInv, Inv, ControlInv, ControlOK, TaskType, Working
    <2> HIDE DEF k
    <2> QED  BY <1>3, <1>5, <2>1
  <1> QED  BY <1>2, <1>4, <1>5 DEF Cancel

LEMMA RefFlush ==
  ASSUME BindInv, Refs, NEW t \in Tasks, Flush(t)
  PROVE  Refs'
  <1> DEFINE p == IF task[t].kind = "reap" THEN "destroy" ELSE "mirror"
  <1>1. /\ Working(task[t]) /\ UNCHANGED <<originMaster, mirrorMaster, used>>
    BY DEF Flush, Working, history
  <1>2. PICK n \in Names : n = Place(task[t])  BY <1>1, PlaceOwn
  <1>3. PICK b \in Sessions : b = task[t].local.branch  BY <1>1, WorkingRef
  <1>4. PICK k : /\ Moves(t, task[t].sid, task[t].local, debts, k)
                 /\ \/ k = Idle
                    \/ Carries(k, t, p) /\ CanPush(n) /\ originBranch' = Pushed(n)
    BY <1>2, FlushMoves
  <1>5. UNCHANGED originBranch \/ (CanPush(n) /\ originBranch' = Pushed(n))
    BY <1>2 DEF Flush, Runtime, Place
  <1>6. CanPush(n) => conts[n].branch = b
    BY <1>1, <1>2, <1>3, PlaceBranch DEF CanPush
  <1>7. /\ \A c \in Sessions \ {b} : originBranch'[c] = originBranch[c]
        /\ originBranch[b] # None => originBranch'[b] # None
        /\ originBranch' = Pushed(n) /\ CanPush(n) => originBranch'[b] # None
    BY <1>3, <1>5, <1>6, PushedShape
  <1>8. ASSUME Working(k)
        PROVE  RefOK(k, originBranch', originMaster', mirrorMaster', debts, disk'.debts)
    <2>1. Carries(k, t, p) /\ originBranch'[b] # None  BY <1>4, <1>7, <1>8, IdleOK
    <2>2. k.pc = p /\ k.local.branch = b
      BY <1>1, <1>3, <2>1, WorkingKnows DEF Carries, Same
    <2> QED  BY <2>1, <2>2 DEF RefOK, Allocating
  <1> QED  BY <1>1, <1>3, <1>4, <1>7, <1>8, WorkingKnows, RefCarry

LEMMA MergeContains ==
  ASSUME NEW m, NEW b, NEW o \in CloseOutcomes(m, b)
  PROVE  /\ m \subseteq o.master
         /\ ~o.debt => b \subseteq o.master
         /\ o.master \subseteq m \cup b
  <1>1. \/ o = [master |-> m, debt |-> FALSE] /\ b \subseteq m
        \/ o = [master |-> b, debt |-> FALSE] /\ m \subseteq b
        \/ o = [master |-> m \cup b, debt |-> FALSE]
        \/ o = [master |-> m, debt |-> TRUE]
    BY DEF CloseOutcomes
  <1> QED  BY <1>1

LEMMA RefCloseMerge ==
  ASSUME BindInv, Refs, NEW t \in Tasks, CloseMerge(t)
  PROVE  Refs'
  <1>1. /\ Working(task[t]) /\ UNCHANGED <<originMaster, originBranch, used>>
        /\ MergeFree
    BY DEF CloseMerge, Working, history
  <1>2. PICK k : /\ Moves(t, task[t].sid, task[t].local, debts, k)
                 /\ \/ k = Idle
                    \/ /\ Carries(k, t, "publish")
                       /\ originBranch[task[t].local.branch] # None
                       /\ \E o \in CloseOutcomes(originMaster, originBranch[task[t].local.branch]) :
                            mirrorMaster' = o.master
    BY CloseMergeMoves
  <1>3. ASSUME Working(k)
        PROVE  RefOK(k, originBranch', originMaster', mirrorMaster', debts, disk'.debts)
    <2>1. /\ Carries(k, t, "publish") /\ originBranch[task[t].local.branch] # None
          /\ originMaster \subseteq mirrorMaster'
      BY <1>2, <1>3, IdleOK, MergeContains
    <2>2. k.pc = "publish" /\ k.local.branch = task[t].local.branch
      BY <1>1, <2>1, WorkingKnows DEF Carries, Same
    <2> QED  BY <1>1, <2>1, <2>2 DEF RefOK, Allocating
  <1> QED  BY <1>1, <1>2, <1>3, WorkingKnows, RefCarry

LEMMA RefRecycleFetch ==
  ASSUME BindInv, Refs, NEW t \in Tasks, RecycleFetch(t)
  PROVE  Refs'
  <1>1. /\ Working(task[t]) /\ task[t].pc = "mirror" /\ task[t].kind = "recycle"
        /\ UNCHANGED <<originMaster, originBranch, used>> /\ MergeFree
    BY DEF RecycleFetch, Working, history
  <1>2. PICK k : /\ Moves(t, task[t].sid, task[t].local, debts, k)
                 /\ k = Idle \/ Carries(k, t, "image")
    BY RecycleFetchMoves
  <1>3. "image" \in Pcs \ {"orphan", "publish"} /\ Checkpointed(task[t])
    BY <1>1 DEF Pcs, Checkpointed
  <1>4. Working(k) => ~Opening(k)
    BY <1>1, <1>2, IdleOK DEF Carries, Opening
  <1> QED  BY <1>1, <1>2, <1>3, <1>4, RefGoOn

LEMMA RefPublish ==
  ASSUME BindInv, Refs, NEW t \in Tasks, Publish(t)
  PROVE  Refs'
  <1>1. /\ Working(task[t]) /\ UNCHANGED <<originBranch, mirrorMaster, used>>
        /\ task[t].pc = "publish" /\ HeldMerge(task[t])
    BY DEF Publish, Working, history, HeldMerge
  <1>2. PICK b \in Sessions : b = task[t].local.branch  BY <1>1, WorkingRef
  <1>3. PICK d, k : /\ Moves(t, task[t].sid, task[t].local, d, k)
                    /\ k = Idle \/ Carries(k, t, "destroy")
                    /\ d \in {debts, debts \cup {b}}
    BY <1>2, PublishMoves
  <1>4. ASSUME Working(k)
        PROVE  RefOK(k, originBranch', originMaster', mirrorMaster', d, disk'.debts)
    <2>1. k.pc = "destroy" /\ k.local.branch = b
      BY <1>1, <1>2, <1>3, <1>4, IdleOK, WorkingKnows DEF Carries, Same
    <2>2. originBranch[b] # None
      BY <1>1, <1>2, WorkingRef DEF RefOK, Checkpointed
    <2> QED  BY <1>1, <2>1, <2>2 DEF RefOK, Allocating
  <1> QED  BY <1>1, <1>2, <1>3, <1>4, WorkingKnows, RefCarry

LEMMA RefDestroy ==
  ASSUME BindInv, Refs, NEW t \in Tasks, Destroy(t)
  PROVE  Refs'
  <1>1. /\ Working(task[t]) /\ task[t].pc = "destroy"
        /\ UNCHANGED <<originMaster, mirrorMaster, originBranch, used>>
    BY DEF Destroy, Working, git, history
  <1>2. PICK k : /\ Moves(t, task[t].sid, task[t].local, debts, k)
                 /\ k = Idle \/ Carries(k, t, "remove")
    BY DestroyMoves
  <1>3. "remove" \in Pcs \ {"orphan", "publish"} /\ Checkpointed(task[t])
    BY <1>1 DEF Pcs, Checkpointed
  <1>4. Working(k) => ~Allocating(k)
    BY <1>2, IdleOK DEF Carries, Allocating
  <1> QED  BY <1>1, <1>2, <1>3, <1>4, RefGoOn

LEMMA RefRebind ==
  ASSUME BindInv, Refs, NEW t \in Tasks, RecycleRebind(t)
  PROVE  Refs'
  <1>1. /\ Working(task[t]) /\ task[t].kind = "recycle"
        /\ UNCHANGED <<originMaster, mirrorMaster, originBranch, used>>
    BY DEF RecycleRebind, Working, git, history
  <1>2. CASE Moves(t, task[t].sid, task[t].local, debts, Idle)
    BY <1>1, <1>2, RefFail
  <1>3. ASSUME NEW l \in BoundRecord, l.branch = task[t].local.branch,
               NEW k, Moves(t, task[t].sid, l, debts, k),
               k = Idle \/ (k.pc = "layer" /\ k.kind = task[t].kind)
        PROVE  Refs'
    <2>1. l # None  BY NoneIsNoRecord DEF BoundRecord
    <2>2. Working(k) => RefOK(k, originBranch', originMaster', mirrorMaster', debts, disk'.debts)
      BY <1>1, <1>3, IdleOK DEF RefOK, Checkpointed, Opening
    <2> QED  BY <1>1, <1>3, <2>1, <2>2, RefCarry
  <1> QED  BY <1>2, <1>3, RebindMoves

\* A fresh identity has no branch and owes nothing.
LEMMA RefOpenBegin ==
  ASSUME BindInv, Refs, NEW t \in Tasks, NEW s \in Sessions,
         NEW kind \in {"open", "open_human"} \cap Kinds, OpenBegin(t, s, kind)
  PROVE  Refs'
  <1>1. /\ Mine(t, s) /\ s \notin used /\ recs[s] = None /\ ControlInv
        /\ used' = used \cup {s}
        /\ UNCHANGED <<originBranch, originMaster, mirrorMaster>>
    BY DEF OpenBegin, Mine, BindInv, BranchInv, Inv, git
  <1>2. PICK k : /\ Moves(t, s, NewRecord(s), debts, k)
                 /\ \/ k = Idle
                    \/ /\ k \in TaskType /\ k.pc = "orphan" /\ k.kind = kind
                       /\ k.sid = s /\ k.local = NewRecord(s)
    BY <1>1, OpenBeginMoves
  <1>3. NewRecord(s).branch = s /\ NewRecord(s) # None
    BY NewRecordOK, NoneIsNoRecord DEF NewRecord, BoundRecord
  <1>4. originBranch[s] = None  BY <1>1 DEF BindInv, BranchInv, WorldBranches
  <1>5. s \notin debts /\ s \notin disk'.debts
    BY <1>1, <1>2 DEF Refs, Moves
  <1>6. Frame(t, s, originBranch')  BY <1>1, WorkingRef DEF Frame
  <1>7. ASSUME Working(k)
        PROVE  RefOK(k, originBranch', originMaster', mirrorMaster', debts, disk'.debts)
    <2>1. k.pc = "orphan" /\ k.sid = s /\ k.local = NewRecord(s)
      BY <1>2, <1>7, IdleOK
    <2> QED  BY <1>1, <1>3, <1>4, <1>5, <2>1 DEF RefOK, Checkpointed
  <1> QED  BY <1>1, <1>2, <1>3, <1>6, <1>7, RefKeep

\* An orphan taken over is on the remote or a head of the mirror, and no debtor.
LEMMA RefOpenMirror ==
  ASSUME BindInv, Refs, NEW t \in Tasks, OpenMirror(t)
  PROVE  Refs'
  <1>0. PICK s \in Sessions : s = task[t].sid
    BY WorkingKnows DEF OpenMirror, Working
  <1>1. /\ Working(task[t]) /\ task[t].pc = "orphan" /\ HeldMerge(task[t])
        /\ UNCHANGED <<originBranch, originMaster, used>>
    BY DEF OpenMirror, Working, HeldMerge, history
  <1>2. /\ s \in used /\ Mine(t, s) /\ OnItsWay(task[t])
        /\ task[t].local.branch = s /\ recs[s].branch = s
        /\ RefOK(task[t], originBranch, originMaster, mirrorMaster, debts, disk.debts)
    BY <1>0, <1>1, WorkingKnows, WorkingRef DEF RefOK
  <1>3. /\ Opening(task[t]) /\ originBranch[s] = None /\ s \notin debts /\ s \notin disk.debts
    BY <1>0, <1>1, <1>2 DEF RefOK, Allocating, OnItsWay, Opening
  <1>4. PICK b, l, k :
          /\ b \in Sessions /\ l \in BoundRecord
          /\ l.branch = b
          /\ Moves(t, s, l, debts, k)
          /\ \/ k = Idle
             \/ k \in TaskType /\ k.pc = "image" /\ k.sid = s /\ k.kind = task[t].kind /\ k.local = l
    BY <1>0, OpenMirrorMoves
  <1>5. Frame(t, s, originBranch')
    BY <1>0, <1>1, <1>2, WorkingRef DEF Frame
  <1>6. ASSUME Working(k)
        PROVE  RefOK(k, originBranch', originMaster', mirrorMaster', debts, disk'.debts)
    <2>1. k.pc = "image" /\ k.sid = s /\ Opening(k)
      BY <1>3, <1>4, <1>6, IdleOK DEF Opening
    <2> QED  BY <1>1, <1>3, <2>1 DEF RefOK, Checkpointed, Opening
  <1>7. debts \subseteq Sessions /\ disk.debts \subseteq Sessions
    BY DEF BindInv, BranchInv, Inv, ControlInv, ControlOK
  <1>8. Owed(debts, recs', originBranch')
    BY <1>1, <1>2, <1>3, <1>4 DEF Refs, Owed, Moves
  <1>9. Owed(disk.debts, disk.recs, originBranch')
    BY <1>1 DEF Refs
  <1> QED  BY <1>1, <1>2, <1>4, <1>5, <1>6, <1>8, <1>9, RefMove

\* A request claims the record as it is.
LEMMA RefClaim ==
  ASSUME BindInv, Refs, NEW t \in Tasks, NEW s \in Sessions, recs[s] # None,
         SessionFree(s), NEW kind \in {"close", "finish", "recycle", "reap"},
         NEW seen \in 0..MaxGen, NEW life \in {"closing", "recycling"},
         Claim(t, s, kind, seen, life)
  PROVE  Refs'
  <1>0. ControlInv /\ kind \in TaskKinds /\ Mine(t, s)
    BY DEF BindInv, BranchInv, Inv, TaskKinds, Mine
  <1>1. UNCHANGED <<originBranch, originMaster, mirrorMaster, used>>
    BY DEF Claim, history, git
  <1>2. PICK k : /\ Moves(t, s, recs[s], debts, k)
                 /\ k = Idle \/ (k.pc = "flush" /\ k.sid = s)
    BY <1>0, ClaimMoves
  <1>3. PICK b \in Sessions : b = recs[s].branch /\ b \in used
    BY <1>0 DEF BindInv, BranchInv, RecordBranches, Drawn, ControlInv, ControlOK, Stores,
                BoundRecord, Record
  <1>4. ASSUME NEW u \in Tasks \ {t}, Working(task[u])
        PROVE  task[u].local.branch # b
    <2>1. task[u].sid # s
      BY <1>4 DEF SessionFree, HoldsSession, Working
    <2> QED  BY <1>3, <1>4, <2>1, OtherBranch
  <1>5. Frame(t, b, originBranch')  BY <1>1, <1>4 DEF Frame
  <1>6. Working(k) => RefOK(k, originBranch', originMaster', mirrorMaster', debts, disk'.debts)
    BY <1>2, IdleOK DEF RefOK, Checkpointed, Allocating
  <1> QED  BY <1>0, <1>1, <1>2, <1>3, <1>5, <1>6, RefKeep

\* A task that ends, waits or only reads, everything else as it was.
LEMMA RefQuiet ==
  ASSUME BindInv, Refs, NEW t \in Tasks, NEW k, ~Working(k),
         task' = [task EXCEPT ![t] = k],
         UNCHANGED <<recs, debts, disk, originBranch, originMaster, mirrorMaster, used>>
  PROVE  Refs'
  <1>1. \A u \in Tasks : Working(task'[u]) => task'[u] = task[u]
    BY DEF BindInv, BranchInv, Inv, ControlInv, ControlOK
  <1> QED  BY <1>1, RefWorld

LEMMA RefObserved ==
  ASSUME BindInv, Refs, NEW t \in Tasks, FinishBegin(t) \/ ReapBegin(t)
  PROVE  Refs'
  <1>0. PICK s \in Sessions : s = task[t].sid
    BY DEF FinishBegin, ReapBegin, BindInv, BranchInv, Inv, ControlInv, ControlOK, LocalOK
  <1>1. task[t].seen \in 0..MaxGen
    BY DEF FinishBegin, ReapBegin, BindInv, BranchInv, Inv, ControlInv, ControlOK, TaskType
  <1>2. CASE Release(t) /\ UNCHANGED <<memory, disk, conts, git, history, faults>>
    BY <1>2, IdleOK, RefQuiet DEF Release, memory, git, history
  <1>3. ASSUME recs[s] # None, SessionFree(s), NEW kind \in {"finish", "reap"},
               Claim(t, s, kind, task[t].seen, "closing")
        PROVE  Refs'
    BY <1>1, <1>3, RefClaim
  <1>4. CASE FinishBegin(t)  BY <1>0, <1>2, <1>3, <1>4 DEF FinishBegin
  <1>5. CASE ReapBegin(t)  BY <1>0, <1>2, <1>3, <1>5 DEF ReapBegin
  <1> QED  BY <1>4, <1>5

\* The companion's checkpoint pushes the container of a session nobody works for.
LEMMA RefObserve ==
  ASSUME BindInv, Refs, NEW t \in Tasks, NEW s \in Sessions,
         FinishObserve(t, s) \/ ReapObserve(t, s)
  PROVE  Refs'
  <1>1. PICK kind : Observed(t, s, kind)  BY DEF FinishObserve, ReapObserve
  <1> DEFINE k == [Idle EXCEPT !.pc = "observed", !.kind = kind, !.sid = s,
                               !.seen = recs[s].gen]
  <1>2. task' = [task EXCEPT ![t] = k] /\ ~Working(k)
    BY <1>1 DEF Observed, Working, Idle
  <1> HIDE DEF k
  <1>3. UNCHANGED <<recs, debts, disk, originMaster, mirrorMaster, used>>
    BY DEF FinishObserve, ReapObserve, memory, git, history
  <1>4. CASE ReapObserve(t, s)
    BY <1>2, <1>3, <1>4, RefQuiet DEF ReapObserve, git
  <1>5. CASE FinishObserve(t, s)
    <2>1. PICK n : n = Container(s, recs[s])  OBVIOUS
    <2>2. /\ recs[s] # None /\ SessionFree(s) /\ CanPush(n) /\ originBranch' = Pushed(n)
          /\ n \in Names
      BY <1>5, <2>1, ContainerOK
      DEF FinishObserve, BindInv, BranchInv, Inv, ControlInv, ControlOK, Stores
    <2>3. PICK b : b = conts[n].branch  OBVIOUS
    <2>4. /\ \A c \in Sessions \ {b} : originBranch'[c] = originBranch[c]
          /\ originBranch[b] # None => originBranch'[b] # None
      BY <2>2, <2>3, PushedShape
    <2>5. \A u \in Tasks : Working(task'[u]) => task'[u] = task[u]
      BY <1>2 DEF BindInv, BranchInv, Inv, ControlInv, ControlOK
    <2>6. ASSUME NEW u \in Tasks, Working(task'[u])  PROVE task[u].local.branch # b
      <3>1. Working(task[u]) /\ task[u].sid # s
        BY <2>2, <2>5, <2>6 DEF SessionFree, HoldsSession, Working
      <3> QED  BY <2>1, <2>2, <2>3, <3>1, PushApart DEF CanPush
    <2> QED  BY <1>3, <2>4, <2>5, <2>6, RefWorld
  <1> QED  BY <1>4, <1>5

\* A close drops the branch its record named, paid for; a reap leaves it.
LEMMA RefRemove ==
  ASSUME BindInv, Refs, NEW t \in Tasks, CloseRemove(t) \/ ReapRemove(t)
  PROVE  Refs'
  <1>0. PICK s \in Sessions : s = task[t].sid
    BY WorkingKnows DEF CloseRemove, ReapRemove, Working
  <1>1. /\ Working(task[t]) /\ task[t].pc = "remove"
        /\ UNCHANGED <<originMaster, mirrorMaster, used>>
    BY DEF CloseRemove, ReapRemove, Working, git
  <1>2. PICK b \in Sessions : b = task[t].local.branch  BY <1>1, WorkingRef
  <1>3. /\ b \in used /\ Mine(t, s) /\ recs[s] # None /\ recs[s].branch = b
        /\ originBranch[b] # None
        /\ disk.recs[s] # None /\ disk.recs[s].branch = b
    BY <1>0, <1>1, <1>2, WorkingRef, WorkingKnows DEF RefOK, Checkpointed, Same
  <1>4. PICK d : d = debts' /\ Moves(t, s, None, d, Idle)  BY <1>0, RemoveMoves
  <1>5. originBranch \in [Sessions -> (SUBSET Work) \cup {None}]
        /\ debts \subseteq Sessions /\ disk.debts \subseteq Sessions
    BY DEF BindInv, BranchInv, Inv, WorldOK, ControlInv, ControlOK
  <1>6. /\ d \subseteq debts
        /\ \A c \in Sessions \ {b} : originBranch'[c] = originBranch[c]
        /\ originBranch'[b] = originBranch[b] \/ b \notin d
    <2>1. CASE CloseRemove(t) /\ task[t].debt
      BY <1>4, <2>1 DEF CloseRemove
    <2>2. CASE CloseRemove(t) /\ ~task[t].debt
      BY <1>2, <1>4, <1>5, <2>2 DEF CloseRemove
    <2>3. CASE ReapRemove(t)
      BY <1>4, <2>3 DEF ReapRemove, git
    <2> QED  BY <2>1, <2>2, <2>3
  <1>7. Frame(t, b, originBranch')  BY <1>1, <1>2, <1>6, WorkingRef DEF Frame
  <1>8. Owed(d, recs', originBranch')
    <2> SUFFICES ASSUME NEW c \in d, originBranch'[c] = None
                 PROVE  \E o \in Sessions : recs'[o] # None /\ recs'[o].branch = c
      BY DEF Owed
    <2>1. c \in Sessions /\ c # b  BY <1>3, <1>5, <1>6
    <2>2. originBranch[c] = None /\ c \in debts  BY <1>6, <2>1
    <2>3. PICK o \in Sessions : recs[o] # None /\ recs[o].branch = c
      BY <2>2 DEF Refs, Owed
    <2>4. o # s  BY <1>3, <2>1, <2>3
    <2> QED  BY <1>4, <2>3, <2>4 DEF Moves
  <1>9. Owed(disk.debts, disk.recs, originBranch')
    <2> SUFFICES ASSUME NEW c \in disk.debts, originBranch'[c] = None
                 PROVE  \E o \in Sessions : disk.recs[o] # None /\ disk.recs[o].branch = c
      BY DEF Owed
    <2>1. c \in Sessions  BY <1>5
    <2>2. CASE c = b  BY <1>3, <2>2
    <2>3. CASE c # b  BY <1>6, <2>1, <2>3 DEF Refs, Owed
    <2> QED  BY <2>2, <2>3
  <1>10. d \subseteq debts \cup {b} /\ used \subseteq used' /\ b \in used'
    BY <1>1, <1>3, <1>6
  <1>11. ~Working(Idle)  BY IdleOK
  <1> HIDE DEF Idle
  <1> QED  BY <1>1, <1>3, <1>4, <1>7, <1>8, <1>9, <1>10, <1>11, RefMove

\* Where a driver writes nobody is allocating: the checkout is booted.
LEMMA RefDriver ==
  ASSUME BindInv, Refs, NEW s \in Sessions, NEW w \in Work, Edit(s, w) \/ Commit(s, w)
  PROVE  Refs'
  <1>1. /\ DriverMayWrite(s, w) /\ Wrote(s, w)
        /\ UNCHANGED <<recs, debts, disk, task, originMaster, mirrorMaster, used>>
    BY DEF Edit, Commit, memory, git
  <1>2. CASE Edit(s, w)
    <2>1. UNCHANGED originBranch  BY <1>2 DEF Edit, git
    <2> QED  BY <1>1, <2>1, RefWorld
  <1>3. CASE Commit(s, w)
    <2>1. PICK n : n = Container(s, recs[s])  OBVIOUS
    <2>2. /\ recs[s] # None /\ recs[s] \in BoundRecord /\ n \in Names
          /\ conts[n] # None /\ conts[n] \in Workspace /\ conts[n].booted
      BY <1>1, <2>1, DriverShape DEF DriverMayWrite
    <2>3. PICK b \in Sessions : b = conts[n].branch
      BY <2>2 DEF Workspace
    <2>4. originBranch' = [originBranch EXCEPT ![b] = conts[n].tree \cup {w}]
      BY <1>3, <2>1, <2>3 DEF Commit
    <2>5. originBranch \in [Sessions -> (SUBSET Work) \cup {None}]
      BY DEF BindInv, BranchInv, Inv, WorldOK
    <2>6. conts[n].tree \cup {w} \in SUBSET Work
      BY <2>2 DEF Workspace
    <2>7. originBranch'[b] # None /\ \A c \in Sessions \ {b} : originBranch'[c] = originBranch[c]
      BY <2>3, <2>4, <2>5, <2>6, NoneIsNoWorkspace
    <2>8. ASSUME NEW u \in Tasks, Working(task[u]), task[u].local.branch = b
          PROVE  ~Allocating(task[u])
      <3>1. task[u].sid = s  BY <2>1, <2>2, <2>3, <2>8, PushApart
      <3>2. Place(task[u]) = n
        BY <2>1, <2>8, <3>1, WorkingKnows DEF Same, Place, Container
      <3> QED  BY <2>2, <2>8, <3>2, WorkingKnows DEF Knows, Vacant, Allocating
    <2> QED  BY <1>1, <2>7, <2>8, RefWorld
  <1> QED  BY <1>2, <1>3

\* A crash brings the snapshot's debts back with the snapshot's records.
LEMMA RefCrash ==
  ASSUME BindInv, Refs, Crash
  PROVE  Refs'
  <1>1. disk.recs \in Stores  BY DEF BindInv, BranchInv, Inv, ControlInv, ControlOK
  <1>2. /\ recs' = Hydrate(disk.recs) /\ debts' = disk.debts
        /\ \A t \in Tasks : ~Working(task'[t])
        /\ UNCHANGED <<disk, originBranch, used>>
    BY IdleOK DEF Crash, history, git
  <1>3. \A s \in Sessions : Same(recs'[s], disk.recs[s])
    BY <1>1, <1>2, HydrateSame
  <1>4. Owed(debts', recs', originBranch')
    BY <1>2, <1>3, OwedSame DEF Refs
  <1> QED  BY <1>2, <1>4 DEF Refs, Working

LEMMA RefSaved ==
  ASSUME Refs, OthersPersist
  PROVE  Refs'
  <1>1. /\ disk'.recs = recs /\ disk'.debts = debts
        /\ UNCHANGED <<recs, debts, task, originBranch, originMaster, mirrorMaster, used>>
    BY DEF OthersPersist, Saved, memory, history, git
  <1>2. \A t \in Tasks : Working(task[t]) =>
          RefOK(task[t], originBranch, originMaster, mirrorMaster, debts, debts)
    BY DEF Refs, RefOK
  <1> QED  BY <1>1, <1>2 DEF Refs, Working

LEMMA RefStutter ==
  ASSUME Refs, UNCHANGED vars
  PROVE  Refs'
  BY DEF Refs, Working, vars

LEMMA RefInit == Init => Refs
  <1> SUFFICES ASSUME Init  PROVE Refs
    OBVIOUS
  <1>1. debts = {} /\ disk.debts = {} /\ \A t \in Tasks : ~Working(task[t])
    BY IdleOK DEF Init
  <1> QED  BY <1>1 DEF Refs, Owed

LEMMA RefNext ==
  ASSUME BindInv, Refs, [Next]_vars
  PROVE  Refs'
  <1>1. ASSUME NEW t \in Tasks, NEW s \in Sessions, Request(t, s)  PROVE Refs'
    <2>1. CASE CloseBegin(t, s) \/ RecycleBegin(t, s)
      <3>1. recs[s].gen \in 0..MaxGen
        BY <2>1 DEF CloseBegin, RecycleBegin, BindInv, BranchInv, Inv, ControlInv, ControlOK,
                    Stores, BoundRecord, Record
      <3> QED  BY <2>1, <3>1, RefClaim DEF CloseBegin, RecycleBegin
    <2> QED  BY <1>1, <2>1, RefOpenBegin, RefObserve DEF Request
  <1>2. ASSUME NEW t \in Tasks, Locking(t)  PROVE Refs'
    BY <1>2, RefObserved, RefCloseMerge, RefRecycleFetch DEF Locking
  <1>3. ASSUME NEW t \in Tasks, Running(t)  PROVE Refs'
    <2>1. CASE WorkerDone(t)
      BY <2>1, IdleOK, RefQuiet DEF WorkerDone, Release, memory, git, history
    <2> QED
      BY <1>3, <2>1, RefOpenMirror, RefOpen, RefBoot, RefFlush, RefPublish, RefDestroy,
         RefRemove, RefRebind
      DEF Running
  <1>4. CASE Rest \/ UNCHANGED vars
    BY <1>4, RefStutter DEF Rest
  <1> QED
    BY <1>1, <1>2, <1>3, <1>4, RefCancel, RefDriver, RefSaved, RefCrash DEF Next

\* A debt can always be paid: close records it before it removes anything, drops
\* it with the branch it merged, and a crash brings back no debt whose record it
\* does not bring back too.
THEOREM DebtsKept == Spec => []DebtKept
  <1>1. Refs => DebtKept  BY DEF Refs, Owed, DebtKept
  <1> QED  BY <1>1, BindInit, BindNext, AskedNext, RefInit, RefNext, PTL DEF Spec

-----------------------------------------------------------------------------
(* Contents                                                                *)
(*                                                                         *)
(* What refs and checkouts hold was made by a session; what the remote has *)
(* it keeps, but for a branch that a close removes.                        *)

Made == {w \in Work : author[w] # None}

Contents ==
  /\ originMaster \subseteq Made /\ mirrorMaster \subseteq Made
  /\ \A b \in Sessions : originBranch[b] # None => originBranch[b] \subseteq Made
  /\ \A n \in Names : conts[n] # None => conts[n].tree \subseteq Made

Grows ==
  /\ originMaster \subseteq originMaster'
  /\ \A b \in Sessions : originBranch[b] # None =>
       originBranch'[b] # None /\ originBranch[b] \subseteq originBranch'[b]

LEMMA StillTrees ==
  ASSUME Contents, UNCHANGED <<originMaster, originBranch, mirrorMaster, conts, author>>
  PROVE  Contents' /\ Grows
  BY DEF Contents, Made, Grows

LEMMA PushTrees ==
  ASSUME BindInv, Contents, NEW n \in Names, CanPush(n), originBranch' = Pushed(n),
         UNCHANGED <<originMaster, mirrorMaster, conts, author>>
  PROVE  Contents' /\ Grows
  <1>1. PICK b \in Sessions : b = conts[n].branch  BY PushedShape
  <1>2. /\ \A c \in Sessions \ {b} : originBranch'[c] = originBranch[c]
        /\ originBranch'[b] = conts[n].tree /\ originBranch'[b] # None
        /\ originBranch[b] # None => originBranch[b] \subseteq conts[n].tree
    BY <1>1, PushedShape
  <1>3. conts[n].tree \subseteq Made  BY PushedShape DEF Contents
  <1>4. Contents'  BY <1>1, <1>2, <1>3 DEF Contents, Made
  <1> QED  BY <1>1, <1>2, <1>4 DEF Grows

\* A new branch starts at master, one resumed stays what it is.
LEMMA BootTrees ==
  ASSUME BindInv, Refs, Contents, NEW t \in Tasks, task[t].pc = "boot", Bootstrap(t),
         UNCHANGED <<originMaster, mirrorMaster, author>>
  PROVE  Contents' /\ Grows
  <1>1. Working(task[t])  BY DEF Working
  <1>2. PICK n : n = Place(task[t])  OBVIOUS
  <1>3. PICK b : b = task[t].local.branch  OBVIOUS
  <1>4. /\ n \in Names /\ b \in Sessions
        /\ \A m \in Names \ {n} : conts'[m] = conts[m]
        /\ conts'[n].tree \in SUBSET Work
        /\ originBranch' = [originBranch EXCEPT ![b] = conts'[n].tree]
        /\ conts'[n].tree = IF Resumes(t) THEN originBranch[b] ELSE originMaster
        /\ Resumes(t) => originBranch[b] # None
    BY <1>1, <1>2, <1>3, BootstrapShape
  <1>5. conts'[n].tree \subseteq Made  BY <1>4 DEF Contents
  <1>6. originBranch \in [Sessions -> (SUBSET Work) \cup {None}]
    BY DEF BindInv, BranchInv, Inv, WorldOK
  <1>7. PICK x : x = conts'[n].tree  OBVIOUS
  <1>8. /\ originBranch'[b] = x /\ x # None
        /\ \A c \in Sessions \ {b} : originBranch'[c] = originBranch[c]
    BY <1>4, <1>6, <1>7, NoneIsNoWorkspace
  <1>9. Contents'  BY <1>4, <1>5, <1>7, <1>8 DEF Contents, Made
  <1>10. originBranch[b] # None => originBranch[b] = x
    <2>1. CASE Resumes(t)  BY <1>4, <1>7, <2>1
    <2>2. CASE ~Resumes(t)
      <3>1. task[t].kind # "recycle" /\ b = task[t].sid
        BY <1>3, <2>2 DEF Resumes
      <3>2. Opening(task[t]) /\ Allocating(task[t])
        BY <1>1, <3>1, WorkingKnows DEF OnItsWay, Opening, Allocating
      <3>3. originBranch[b] = None
        BY <1>1, <1>3, <3>1, <3>2, WorkingRef DEF RefOK
      <3> QED  BY <3>3
    <2> QED  BY <2>1, <2>2
  <1>11. \A c \in Sessions : originBranch[c] # None => originBranch'[c] = originBranch[c]
    BY <1>8, <1>10
  <1>12. Grows  BY <1>11 DEF Grows
  <1> QED  BY <1>9, <1>12

\* Everything else a running task does to the refs and the containers.
LEMMA OpenTrees ==
  ASSUME BindInv, Contents, NEW t \in Tasks, OpenMirror(t) \/ Create(t)
  PROVE  Contents' /\ Grows
  <1>1. UNCHANGED <<originMaster, originBranch, author>>
    BY DEF OpenMirror, Create, git, history
  <1>2. CASE OpenMirror(t)
    <2>1. mirrorMaster' \in {mirrorMaster, originMaster} /\ UNCHANGED conts
      BY <1>2 DEF OpenMirror
    <2> QED  BY <1>1, <2>1 DEF Contents, Made, Grows
  <1>3. CASE Create(t)
    <2>1. Working(task[t]) /\ UNCHANGED mirrorMaster  BY <1>3 DEF Create, Working, git
    <2>2. PICK n \in Names : n = Place(task[t])  BY <2>1, PlaceOwn
    <2>3. PICK c : c = [branch |-> task[t].local.branch, tree |-> {}, booted |-> FALSE]
      OBVIOUS
    <2>4. UNCHANGED conts \/ conts' = [conts EXCEPT ![n] = c]
      BY <1>3, <2>2, <2>3, CreateMoves DEF Allocate
    <2>5. conts \in [Names -> Workspace \cup {None}]
      BY DEF BindInv, BranchInv, Inv, WorldOK
    <2>6. c.tree = {}  BY <2>3
    <2>7. \A m \in Names : conts'[m] = conts[m] \/ conts'[m].tree = {}
      BY <2>4, <2>5, <2>6
    <2> QED  BY <1>1, <2>1, <2>7 DEF Contents, Made, Grows
  <1> QED  BY <1>2, <1>3

LEMMA MergeTrees ==
  ASSUME BindInv, Contents, NEW t \in Tasks, CloseMerge(t) \/ RecycleFetch(t)
  PROVE  Contents' /\ Grows
  <1>1. UNCHANGED <<originMaster, originBranch, conts, author>>
    BY DEF CloseMerge, RecycleFetch, history
  <1>2. mirrorMaster' \subseteq Made
    <2>1. CASE mirrorMaster' \in {mirrorMaster, originMaster}
      BY <2>1 DEF Contents
    <2>2. CASE CloseMerge(t) /\ Fetched(t)
      <3>1. Working(task[t])  BY <2>2 DEF CloseMerge, Working
      <3>2. PICK b \in Sessions : b = task[t].local.branch
        BY <3>1, WorkingKnows DEF BoundRecord, Record
      <3>3. originBranch[b] \subseteq Made  BY <2>2, <3>2 DEF Fetched, Contents
      <3>4. \/ mirrorMaster' \in {mirrorMaster, originMaster}
            \/ \E o \in CloseOutcomes(originMaster, originBranch[b]) : mirrorMaster' = o.master
        BY <2>2, <3>2 DEF CloseMerge, FetchFails
      <3> QED  BY <2>1, <3>3, <3>4, MergeContains DEF Contents
    <2> QED  BY <2>1, <2>2 DEF CloseMerge, RecycleFetch, FetchFails
  <1> QED  BY <1>1, <1>2 DEF Contents, Made, Grows

\* The mirror's master is ahead of the remote's when it is pushed.
LEMMA PublishTrees ==
  ASSUME BindInv, Refs, Contents, NEW t \in Tasks, Publish(t)
  PROVE  Contents' /\ Grows
  <1>1. /\ UNCHANGED <<originBranch, mirrorMaster, conts, author>>
        /\ originMaster' \in {originMaster, mirrorMaster}
    BY DEF Publish, history
  <1>2. originMaster \subseteq mirrorMaster
    BY WorkingRef DEF RefOK, Publish, Working
  <1> QED  BY <1>1, <1>2 DEF Contents, Made, Grows

LEMMA GoneTrees ==
  ASSUME BindInv, Contents, NEW t \in Tasks, Destroy(t) \/ RecycleRebind(t)
  PROVE  Contents' /\ Grows
  <1>1. UNCHANGED <<originMaster, originBranch, mirrorMaster, author>>
    BY DEF Destroy, RecycleRebind, git, history
  <1>2. \A n \in Names : conts'[n] # None => conts'[n] = conts[n]
    <2>1. UNCHANGED conts \/ conts' = [conts EXCEPT ![Runtime(t)] = None]
      BY DEF Destroy, RecycleRebind
    <2> QED  BY <2>1 DEF BindInv, BranchInv, Inv, WorldOK
  <1> QED  BY <1>1, <1>2 DEF Contents, Made, Grows

LEMMA RemoveTrees ==
  ASSUME BindInv, Contents, NEW t \in Tasks, CloseRemove(t) \/ ReapRemove(t)
  PROVE  Contents' /\ (UNCHANGED originBranch => Grows)
  <1>1. UNCHANGED <<originMaster, mirrorMaster, conts, author>>
    BY DEF CloseRemove, ReapRemove, git
  <1>2. UNCHANGED originBranch \/ originBranch' = [originBranch EXCEPT ![task[t].local.branch] = None]
    BY DEF CloseRemove, ReapRemove, git
  <1>3. \A b \in Sessions : originBranch'[b] # None => originBranch'[b] = originBranch[b]
    BY <1>2 DEF BindInv, BranchInv, Inv, WorldOK
  <1> QED  BY <1>1, <1>3 DEF Contents, Made, Grows

\* A driver's work is made before anybody has it.
LEMMA DriverTrees ==
  ASSUME BindInv, Contents, NEW s \in Sessions, NEW w \in Work, Edit(s, w) \/ Commit(s, w)
  PROVE  Contents' /\ Grows
  <1>1. /\ DriverMayWrite(s, w) /\ Wrote(s, w) /\ UNCHANGED <<originMaster, mirrorMaster>>
    BY DEF Edit, Commit, git
  <1>2. PICK n : n = Container(s, recs[s])  OBVIOUS
  <1>3. /\ n \in Names /\ conts[n] # None /\ conts[n] \in Workspace
        /\ conts'[n].tree = conts[n].tree \cup {w}
        /\ \A m \in Names \ {n} : conts'[m] = conts[m]
    BY <1>1, <1>2, DriverShape
  <1>4. author \in [Work -> Sessions \cup {None}]
        /\ originBranch \in [Sessions -> (SUBSET Work) \cup {None}]
    BY DEF BindInv, BranchInv, Inv, WorldOK
  <1>5. Made \subseteq Made' /\ w \in Made'
    BY <1>1, <1>4, ConstantsAssumption DEF Made, Wrote
  <1>6. /\ originMaster' \subseteq Made' /\ mirrorMaster' \subseteq Made'
        /\ \A m \in Names : conts'[m] # None => conts'[m].tree \subseteq Made'
    BY <1>1, <1>3, <1>5 DEF Contents
  <1>7. CASE Edit(s, w)
    <2>1. UNCHANGED originBranch  BY <1>7 DEF Edit, git
    <2>2. \A b \in Sessions : originBranch'[b] # None => originBranch'[b] \subseteq Made'
      BY <1>5, <2>1 DEF Contents
    <2> QED  BY <1>1, <1>6, <2>1, <2>2 DEF Contents, Grows
  <1>8. CASE Commit(s, w)
    <2>1. PICK b \in Sessions : b = conts[n].branch  BY <1>3 DEF Workspace
    <2>2. PICK x : x = conts[n].tree \cup {w}  OBVIOUS
    <2>3. originBranch' = [originBranch EXCEPT ![b] = x] /\ CanPush(n)
      BY <1>2, <1>8, <2>1, <2>2 DEF Commit
    <2>4. x # None  BY <1>3, <2>2, NoneIsNoWorkspace DEF Workspace
    <2>5. originBranch'[b] = x /\ \A c \in Sessions \ {b} : originBranch'[c] = originBranch[c]
      BY <1>4, <2>1, <2>3
    <2>6. x \subseteq Made'  BY <1>3, <1>5, <2>2 DEF Contents
    <2>7. \A c \in Sessions : originBranch'[c] # None => originBranch'[c] \subseteq Made'
      BY <1>5, <2>5, <2>6 DEF Contents
    <2>8. originBranch[b] # None => originBranch[b] \subseteq x
      BY <2>1, <2>2, <2>3 DEF CanPush
    <2>9. Grows  BY <1>1, <2>4, <2>5, <2>8 DEF Grows
    <2> QED  BY <1>6, <2>7, <2>9 DEF Contents
  <1> QED  BY <1>7, <1>8

\* Every step keeps what the remote has, but for the branch a close removes.
LEMMA TreesStep ==
  ASSUME BindInv, Refs, Contents, [Next]_vars
  PROVE  /\ Contents'
         /\ Grows \/ \E t \in Tasks : CloseRemove(t) /\ ~task[t].debt
  <1>1. ASSUME NEW t \in Tasks, NEW s \in Sessions, Request(t, s)
        PROVE  Contents' /\ Grows
    <2>1. CASE FinishObserve(t, s)
      <3>1. PICK n \in Names : CanPush(n) /\ originBranch' = Pushed(n)
        BY <2>1, ContainerOK
        DEF FinishObserve, BindInv, BranchInv, Inv, ControlInv, ControlOK, Stores
      <3> QED  BY <2>1, <3>1, PushTrees DEF FinishObserve, history
    <2> QED
      BY <1>1, <2>1, StillTrees
      DEF Request, OpenBegin, CloseBegin, RecycleBegin, ReapObserve, Claim, git, history
  <1>2. ASSUME NEW t \in Tasks, Locking(t)
        PROVE  Contents' /\ Grows
    <2>1. CASE FinishBegin(t) \/ ReapBegin(t)
      BY <2>1, StillTrees DEF FinishBegin, ReapBegin, Claim, git, history
    <2> QED  BY <1>2, <2>1, MergeTrees DEF Locking
  <1>3. ASSUME NEW t \in Tasks, Running(t)
        PROVE  Contents' /\ (Grows \/ (CloseRemove(t) /\ ~task[t].debt))
    <2>1. CASE OpenImage(t) \/ Layer(t) \/ WorkerDone(t)
      BY <2>1, StillTrees DEF OpenImage, Layer, WorkerDone, git, history
    <2>2. CASE Boot(t)
      <3>1. /\ Bootstrap(t) \/ UNCHANGED <<conts, originBranch>>
            /\ UNCHANGED <<originMaster, mirrorMaster, author>> /\ task[t].pc = "boot"
        BY <2>2, BootMoves DEF Boot, history
      <3> QED  BY <3>1, BootTrees, StillTrees
    <2>3. CASE Flush(t)
      <3>1. PICK n \in Names : n = Place(task[t])
        BY <2>3, PlaceOwn DEF Flush, Working
      <3>2. UNCHANGED <<originMaster, mirrorMaster, conts, author>>
            /\ (UNCHANGED originBranch \/ (CanPush(n) /\ originBranch' = Pushed(n)))
        BY <2>3, <3>1 DEF Flush, Runtime, Place, history
      <3> QED  BY <3>2, PushTrees, StillTrees
    <2>4. CASE CloseRemove(t) \/ ReapRemove(t)
      <3>1. UNCHANGED originBranch \/ (CloseRemove(t) /\ ~task[t].debt)
        BY <2>4 DEF CloseRemove, ReapRemove, git
      <3> QED  BY <2>4, <3>1, RemoveTrees
    <2> QED
      BY <1>3, <2>1, <2>2, <2>3, <2>4, OpenTrees, PublishTrees, GoneTrees DEF Running
  <1>4. ASSUME NEW t \in Tasks, Cancel(t)
        PROVE  Contents' /\ Grows
    <2>1. /\ UNCHANGED <<originMaster, mirrorMaster, author>>
          /\ UNCHANGED <<conts, originBranch>> \/ (task[t].pc = "boot" /\ Bootstrap(t))
      BY <1>4 DEF Cancel, history
    <2> QED  BY <2>1, BootTrees, StillTrees
  <1>5. CASE OthersPersist \/ Crash \/ Rest \/ UNCHANGED vars
    BY <1>5, StillTrees DEF OthersPersist, Crash, Rest, vars, git, history
  <1> QED
    BY <1>1, <1>2, <1>3, <1>4, <1>5, DriverTrees DEF Next

LEMMA TreesInit == Init => Contents
  <1> SUFFICES ASSUME Init  PROVE Contents
    OBVIOUS
  <1>1. /\ originMaster = {} /\ mirrorMaster = {}
        /\ \A b \in Sessions : originBranch[b] # None => originBranch[b] = {}
        /\ \A n \in Names : conts[n] # None => conts[n].tree = {}
    BY DEF Init
  <1> QED  BY <1>1 DEF Contents

-----------------------------------------------------------------------------
(* Work                                                                    *)
(*                                                                         *)
(* Where each unit of work is, as long as no driver writes under a         *)
(* transition of its own session.                                          *)

\* A task past its checkpoint takes nothing away that the remote lacks: k, given
\* master om and branches ob on the remote, the mirror's master mm, container c.
Covered(k, om, mm, ob, c) ==
  /\ Checkpointed(k) /\ c # None => c.tree \subseteq ob[k.local.branch]
  /\ k.pc = "publish" /\ ~k.debt => ob[k.local.branch] \subseteq mm
  /\ k.pc \in {"destroy", "remove"} /\ k.kind # "reap" /\ ~k.debt =>
       ob[k.local.branch] \subseteq om

NoWork(s) == \A w \in Work : author[w] # s

OnRemote(w) ==
  \/ w \in originMaster
  \/ \E b \in Sessions : originBranch[b] # None /\ w \in originBranch[b]

\* The work w of a session s that has not ended is in master, on its branch or in
\* its container.
Held(w, s) ==
  \/ w \in originMaster
  \/ originBranch[recs[s].branch] # None /\ w \in originBranch[recs[s].branch]
  \/ /\ conts[Container(s, recs[s])] # None
     /\ w \in conts[Container(s, recs[s])].tree

\* What a session owes its work, by how it ended.
Kept(w, s) ==
  /\ outcome[s] = "none" => Held(w, s)
  /\ outcome[s] = "merged" => w \in originMaster
  /\ outcome[s] \in {"debt", "reaped"} => OnRemote(w)

\* A session with work was drawn; not ended, it is in memory and in the snapshot.
Listed(s) ==
  /\ s \in used
  /\ outcome[s] = "none" =>
       recs[s] # None /\ disk.recs[s] # None /\ recs[s].branch = disk.recs[s].branch

Works ==
  /\ \A t \in Tasks : Working(task[t]) =>
       Covered(task[t], originMaster, mirrorMaster, originBranch, conts[Place(task[t])])
  /\ \A t \in Tasks : task[t].pc = "orphan" => NoWork(task[t].sid)
  /\ \A w \in Made : Listed(author[w]) /\ Kept(w, author[w])

LEMMA RemoteGrows ==
  ASSUME Grows, NEW w, OnRemote(w)
  PROVE  OnRemote(w)'
  BY DEF Grows, OnRemote

\* What a task's container held is on the branch, or still in the container.
Saves(s, l) ==
  \/ conts[Container(s, recs[s])] = None
  \/ /\ originBranch'[l.branch] # None
     /\ conts[Container(s, recs[s])].tree \subseteq originBranch'[l.branch]
  \/ /\ Same(l, recs[s])
     /\ conts'[Container(s, recs[s])] # None
     /\ conts[Container(s, recs[s])].tree \subseteq conts'[Container(s, recs[s])].tree

LEMMA CoverMove ==
  ASSUME BindInv, Works, NEW t \in Tasks, NEW s \in Sessions, Mine(t, s),
         NEW l, NEW d, NEW k, Moves(t, s, l, d, k),
         NEW b \in Sessions, Frame(t, b, originBranch'),
         originMaster \subseteq originMaster',
         \A n \in Names \ Own(s) : conts'[n] = conts[n],
         UNCHANGED mirrorMaster \/ HeldMerge(task[t]) \/ MergeFree,
         Working(k) => Covered(k, originMaster', mirrorMaster', originBranch', conts'[Place(k)])
  PROVE  \A u \in Tasks : Working(task'[u]) =>
           Covered(task'[u], originMaster', mirrorMaster', originBranch', conts'[Place(task'[u])])
  <1>0. ControlInv  BY DEF BindInv, BranchInv, Inv
  <1>1. task'[t] = k  BY <1>0 DEF Moves, ControlInv, ControlOK
  <1>2. ASSUME NEW u \in Tasks \ {t}, Working(task'[u])
        PROVE  Covered(task'[u], originMaster', mirrorMaster', originBranch', conts'[Place(task'[u])])
    <2>1. task'[u] = task[u]  BY <1>0 DEF Moves, ControlInv, ControlOK
    <2>2. Working(task[u])  BY <1>2, <2>1
    <2>3. task[u].sid \in Sessions \ {s}  BY <2>2, OthersKnow
    <2>4. Place(task[u]) \in Names \ Own(s)  BY <2>2, <2>3, PlaceOwn, OwnApart
    <2>5. conts'[Place(task[u])] = conts[Place(task[u])]  BY <2>4
    <2>6. task[u].local.branch \in Sessions \ {b}
      BY <2>2, WorkingKnows DEF Frame, BoundRecord, Record
    <2>7. originBranch'[task[u].local.branch] = originBranch[task[u].local.branch]
      BY <2>6 DEF Frame
    <2>8. task[u].pc = "publish" => UNCHANGED mirrorMaster
      BY <1>0 DEF ControlInv, MutualExclusion, MergeFree, HoldsMerge, HeldMerge
    <2>9. Covered(task[u], originMaster, mirrorMaster, originBranch, conts[Place(task[u])])
      BY <2>2 DEF Works
    <2> QED  BY <2>1, <2>5, <2>7, <2>8, <2>9 DEF Covered
  <1> QED  BY <1>1, <1>2

\* A session whose task does not move keeps its work where it was.
LEMMA KeptElsewhere ==
  ASSUME BindInv, Grows, NEW s \in Sessions, NEW o \in Sessions \ {s}, recs'[o] = recs[o],
         \A n \in Names \ Own(s) : conts'[n] = conts[n], outcome'[o] = outcome[o],
         Listed(o), NEW w, Kept(w, o)
  PROVE  Kept(w, o)'
  <1>1. ASSUME outcome[o] = "none", Held(w, o)  PROVE Held(w, o)'
    <2>1. recs[o] # None /\ recs[o].branch \in Sessions
      BY <1>1 DEF Listed, BindInv, BranchInv, Inv, ControlInv, ControlOK, Stores,
                  BoundRecord, Record
    <2>2. PICK n : n = Container(o, recs[o])  OBVIOUS
    <2>3. conts'[n] = conts[n] /\ Container(o, recs'[o]) = n
      BY <2>1, <2>2, ContainerApart
    <2> QED  BY <1>1, <2>1, <2>2, <2>3 DEF Held, Grows
  <1>2. OnRemote(w) => OnRemote(w)'  BY RemoteGrows
  <1> QED  BY <1>1, <1>2 DEF Kept, Grows

\* A session whose task moves does, if the task saves what it takes away.
LEMMA KeptHere ==
  ASSUME BindInv, Grows, NEW s \in Sessions, recs[s] # None,
         NEW l, l # None, Same(recs'[s], l), l.branch = recs[s].branch, Saves(s, l),
         outcome'[s] = outcome[s], NEW w, Kept(w, s)
  PROVE  Kept(w, s)'
  <1>1. ASSUME Held(w, s)  PROVE Held(w, s)'
    <2>1. recs[s].branch \in Sessions
      BY DEF BindInv, BranchInv, Inv, ControlInv, ControlOK, Stores, BoundRecord, Record
    <2>2. recs'[s].branch = recs[s].branch  BY DEF Same
    <2>3. Same(l, recs[s]) => Container(s, recs'[s]) = Container(s, recs[s])
      BY DEF Same, Container
    <2>4. PICK n : n = Container(s, recs[s])  OBVIOUS
    <2>5. CASE w \in originMaster  BY <2>5 DEF Held, Grows
    <2>6. CASE originBranch[recs[s].branch] # None /\ w \in originBranch[recs[s].branch]
      BY <2>1, <2>2, <2>6 DEF Held, Grows
    <2>7. CASE conts[n] # None /\ w \in conts[n].tree
      BY <2>2, <2>3, <2>4, <2>7 DEF Held, Saves
    <2> QED  BY <1>1, <2>4, <2>5, <2>6, <2>7 DEF Held
  <1>2. OnRemote(w) => OnRemote(w)'  BY RemoteGrows
  <1> QED  BY <1>1, <1>2 DEF Kept, Grows

LEMMA WorkMove ==
  ASSUME BindInv, Works, Grows, NEW t \in Tasks, NEW s \in Sessions, Mine(t, s),
         NEW l, NEW d, NEW k, Moves(t, s, l, d, k),
         NEW b \in Sessions, Frame(t, b, originBranch'),
         \A n \in Names \ Own(s) : conts'[n] = conts[n],
         UNCHANGED mirrorMaster \/ HeldMerge(task[t]) \/ MergeFree,
         UNCHANGED <<author, outcome>>, used \subseteq used',
         \/ NoWork(s)
         \/ recs[s] # None /\ l # None /\ l.branch = recs[s].branch /\ Saves(s, l),
         k.pc = "orphan" => NoWork(k.sid),
         Working(k) => Covered(k, originMaster', mirrorMaster', originBranch', conts'[Place(k)])
  PROVE  Works'
  <1>0. ControlInv  BY DEF BindInv, BranchInv, Inv
  <1>1. task'[t] = k /\ \A u \in Tasks \ {t} : task'[u] = task[u]
    BY <1>0 DEF Moves, ControlInv, ControlOK
  <1>2. \A u \in Tasks : Working(task'[u]) =>
          Covered(task'[u], originMaster', mirrorMaster', originBranch', conts'[Place(task'[u])])
    BY CoverMove DEF Grows
  <1>3. \A u \in Tasks : task'[u].pc = "orphan" => NoWork(task'[u].sid)
    BY <1>1 DEF Works
  <1>4. ASSUME NEW w \in Made, NEW o \in Sessions, o = author[w]
        PROVE  Listed(o)' /\ Kept(w, o)'
    <2>1. Listed(o) /\ Kept(w, o)  BY <1>4 DEF Works
    <2>2. CASE o # s
      <3>1. recs'[o] = recs[o] /\ disk'.recs[o] \in {recs[o], disk.recs[o]}
        BY <2>2 DEF Moves
      <3>2. Listed(o)'  BY <2>1, <3>1 DEF Listed
      <3> QED  BY <2>1, <2>2, <3>1, <3>2, KeptElsewhere
    <2>3. CASE o = s
      <3>1. ~NoWork(s)  BY <1>4, <2>3 DEF NoWork, Made
      <3>2. recs[s] # None /\ l # None /\ l.branch = recs[s].branch /\ Saves(s, l)
        BY <3>1
      <3>3. Same(recs'[s], l) /\ (disk' = disk \/ Same(disk'.recs[s], l))
        BY DEF Moves
      <3>4. Listed(s)'  BY <2>1, <2>3, <3>2, <3>3 DEF Listed, Same
      <3> QED  BY <2>1, <2>3, <3>2, <3>3, <3>4, KeptHere
    <2> QED  BY <2>2, <2>3
  <1>5. Made' = Made /\ \A w \in Made : author[w] \in Sessions
    BY DEF Made, BindInv, BranchInv, Inv, WorldOK
  <1> QED  BY <1>2, <1>3, <1>4, <1>5 DEF Works, Working, NoWork

\* A task at work moves on or fails with its binding and every container.
LEMMA WorkCarry ==
  ASSUME BindInv, Refs, Works, Grows, NEW t \in Tasks, Working(task[t]),
         NEW d, NEW k, Moves(t, task[t].sid, task[t].local, d, k),
         NEW b, b = task[t].local.branch,
         \A c \in Sessions \ {b} : originBranch'[c] = originBranch[c],
         UNCHANGED mirrorMaster \/ HeldMerge(task[t]) \/ MergeFree,
         UNCHANGED <<conts, author, outcome, used>>,
         k.pc # "orphan",
         Working(k) => Covered(k, originMaster', mirrorMaster', originBranch', conts'[Place(k)])
  PROVE  Works'
  <1>1. PICK s \in Sessions : s = task[t].sid  BY WorkingKnows
  <1>2. Mine(t, s) /\ b \in Sessions /\ recs[s] # None /\ recs[s].branch = b
    BY <1>1, WorkingKnows, WorkingRef
  <1>3. Frame(t, b, originBranch')  BY WorkingRef DEF Frame
  <1>4. task[t].local # None /\ Same(task[t].local, recs[s])
    BY <1>1, WorkingKnows, SameSym
  <1>5. Saves(s, task[t].local)  BY <1>4 DEF Saves
  <1> QED  BY <1>1, <1>2, <1>3, <1>4, <1>5, WorkMove

\* A task at work fails.
LEMMA WorkFail ==
  ASSUME BindInv, Refs, Works, Grows, NEW t \in Tasks, Working(task[t]), NEW d,
         Moves(t, task[t].sid, task[t].local, d, Idle),
         UNCHANGED originBranch,
         UNCHANGED mirrorMaster \/ HeldMerge(task[t]) \/ MergeFree,
         UNCHANGED <<conts, author, outcome, used>>
  PROVE  Works'
  <1>1. ~Working(Idle) /\ Idle.pc # "orphan"  BY IdleOK DEF Idle
  <1>2. PICK b : b = task[t].local.branch  OBVIOUS
  <1> HIDE DEF Idle
  <1> QED  BY <1>1, <1>2, WorkCarry

-----------------------------------------------------------------------------
(* The work, step by step                                                  *)

LEMMA BeforeCheckpoint ==
  ASSUME NEW k, ~Checkpointed(k), NEW om, NEW mm, NEW ob, NEW c
  PROVE  Covered(k, om, mm, ob, c)
  BY DEF Checkpointed, Covered

\* An identity not drawn yet has made nothing.
LEMMA FreshHasNoWork ==
  ASSUME BindInv, Works, NEW s \in Sessions, s \notin used
  PROVE  NoWork(s)
  <1> SUFFICES ASSUME NEW w \in Work, author[w] = s  PROVE FALSE
    BY DEF NoWork
  <1>1. w \in Made  BY ConstantsAssumption DEF Made
  <1> QED  BY <1>1 DEF Works, Listed

LEMMA WorkOpenBegin ==
  ASSUME BindInv, Refs, Works, Grows, NEW t \in Tasks, NEW s \in Sessions,
         NEW kind \in {"open", "open_human"} \cap Kinds, OpenBegin(t, s, kind)
  PROVE  Works'
  <1>1. /\ Mine(t, s) /\ s \notin used /\ ControlInv
        /\ used' = used \cup {s}
        /\ UNCHANGED <<originBranch, mirrorMaster, conts, author, outcome>>
    BY DEF OpenBegin, Mine, BindInv, BranchInv, Inv, git
  <1>2. PICK k : /\ Moves(t, s, NewRecord(s), debts, k)
                 /\ k = Idle \/ (k.pc = "orphan" /\ k.sid = s)
    BY <1>1, OpenBeginMoves
  <1>3. NoWork(s)  BY <1>1, FreshHasNoWork
  <1>4. Frame(t, s, originBranch')  BY <1>1, WorkingRef DEF Frame
  <1>5. k.pc = "orphan" => NoWork(k.sid)
    BY <1>2, <1>3 DEF Idle
  <1>6. ~Checkpointed(k)  BY <1>2 DEF Checkpointed, Idle
  <1> QED  BY <1>1, <1>2, <1>3, <1>4, <1>5, <1>6, BeforeCheckpoint, WorkMove

\* The branch may change: nothing was made yet.
LEMMA WorkOpenMirror ==
  ASSUME BindInv, Refs, Works, Grows, NEW t \in Tasks, OpenMirror(t)
  PROVE  Works'
  <1>0. PICK s \in Sessions : s = task[t].sid
    BY WorkingKnows DEF OpenMirror, Working
  <1>1. /\ Working(task[t]) /\ task[t].pc = "orphan" /\ HeldMerge(task[t])
        /\ UNCHANGED <<originBranch, conts, author, outcome, used>>
    BY DEF OpenMirror, Working, HeldMerge, history
  <1>2. Mine(t, s) /\ NoWork(s) /\ OnItsWay(task[t])
    BY <1>0, <1>1, WorkingKnows DEF Works
  <1>3. PICK l, k : /\ Moves(t, s, l, debts, k)
                    /\ k = Idle \/ (k.pc = "image" /\ k.kind = task[t].kind)
    BY <1>0, OpenMirrorMoves
  <1>4. k.pc # "orphan" /\ ~Checkpointed(k)
    BY <1>1, <1>2, <1>3 DEF Checkpointed, Idle, OnItsWay, Opening
  <1>5. PICK b \in Sessions : b = task[t].local.branch  BY <1>1, WorkingRef
  <1>6. Frame(t, b, originBranch')  BY <1>1, <1>5, WorkingRef DEF Frame
  <1> QED  BY <1>1, <1>2, <1>3, <1>4, <1>6, BeforeCheckpoint, WorkMove

LEMMA WorkOpen ==
  ASSUME BindInv, Refs, Works, Grows, NEW t \in Tasks, OpenImage(t) \/ Layer(t)
  PROVE  Works'
  <1>1. /\ Working(task[t])
        /\ UNCHANGED <<originBranch, mirrorMaster, conts, author, outcome, used>>
    BY DEF OpenImage, Layer, Working, git, history
  <1>2. PICK p, k :
          /\ p \in {"layer", "create"}
          /\ Moves(t, task[t].sid, task[t].local, debts, k) /\ (k = Idle \/ Carries(k, t, p))
    BY OpenImageMoves, LayerMoves
  <1>3. k.pc # "orphan" /\ ~Checkpointed(k)
    BY <1>2 DEF Checkpointed, Idle, Carries
  <1> QED  BY <1>1, <1>2, <1>3, BeforeCheckpoint, WorkCarry

LEMMA WorkCreate ==
  ASSUME BindInv, Refs, Works, Grows, NEW t \in Tasks, Create(t)
  PROVE  Works'
  <1>0. PICK s \in Sessions : s = task[t].sid
    BY WorkingKnows DEF Create, Working
  <1>1. /\ Working(task[t]) /\ task[t].pc = "create"
        /\ UNCHANGED <<originBranch, mirrorMaster, author, outcome, used>>
    BY DEF Create, Working, git, history
  <1>2. PICK n : n = Place(task[t])  OBVIOUS
  <1>3. /\ Mine(t, s) /\ task[t].local # None /\ recs[s] # None
        /\ recs[s].branch = task[t].local.branch
        /\ Container(s, recs[s]) = n /\ conts[n] = None
    BY <1>0, <1>1, <1>2, WorkingKnows, WorkingRef
    DEF Knows, Vacant, Same, Place, Container
  <1>4. PICK k : /\ Moves(t, s, task[t].local, debts, k)
                 /\ k = Idle \/ Carries(k, t, "boot")
                 /\ UNCHANGED conts \/ Allocate(n, task[t].local.branch)
    BY <1>0, <1>2, CreateMoves
  <1>5. \A m \in Names \ Own(s) : conts'[m] = conts[m]
    <2>1. n \in Own(s)  BY <1>0, <1>1, <1>2, PlaceOwn
    <2> QED  BY <1>4, <2>1 DEF Allocate, BindInv, BranchInv, Inv, WorldOK
  <1>6. k.pc # "orphan" /\ ~Checkpointed(k)
    BY <1>4 DEF Checkpointed, Idle, Carries
  <1>7. Saves(s, task[t].local)  BY <1>3 DEF Saves
  <1>8. PICK b \in Sessions : b = task[t].local.branch  BY <1>1, WorkingRef
  <1>9. Frame(t, b, originBranch')  BY <1>1, <1>8, WorkingRef DEF Frame
  <1> QED  BY <1>1, <1>3, <1>4, <1>5, <1>6, <1>7, <1>9, BeforeCheckpoint, WorkMove

\* A container that boots was empty.
LEMMA WorkBootstrap ==
  ASSUME BindInv, Refs, Works, Grows, NEW t \in Tasks, task[t].pc = "boot", Bootstrap(t),
         Moves(t, task[t].sid, task[t].local, debts, Idle),
         UNCHANGED <<mirrorMaster, author, outcome, used>>
  PROVE  Works'
  <1>0. PICK s \in Sessions : s = task[t].sid  BY WorkingKnows DEF Working
  <1>1. Working(task[t])  BY DEF Working
  <1>2. PICK n : n = Place(task[t])  OBVIOUS
  <1>3. /\ Mine(t, s) /\ task[t].local # None /\ recs[s] # None
        /\ recs[s].branch = task[t].local.branch /\ Same(task[t].local, recs[s])
        /\ Container(s, recs[s]) = n /\ conts[n].tree = {}
    BY <1>0, <1>1, <1>2, WorkingKnows, WorkingRef, SameSym
    DEF Knows, Same, Place, Container
  <1>4. PICK b \in Sessions : b = task[t].local.branch  BY <1>1, WorkingRef
  <1>5. \A c \in Sessions \ {b} : originBranch'[c] = originBranch[c]
    BY <1>1, <1>4, BootstrapPushes
  <1>6. Frame(t, b, originBranch')  BY <1>1, <1>4, <1>5, WorkingRef DEF Frame
  <1>7. /\ conts'[n] # None /\ n \in Own(s)
        /\ \A m \in Names \ {n} : conts'[m] = conts[m]
    BY <1>0, <1>1, <1>2, BootstrapShape, PlaceOwn, NoneIsNoWorkspace
  <1>8. Saves(s, task[t].local)  BY <1>3, <1>7 DEF Saves
  <1>9. Idle.pc # "orphan" /\ ~Working(Idle) /\ \A m \in Names \ Own(s) : conts'[m] = conts[m]
    BY <1>7, IdleOK DEF Idle
  <1>10. Moves(t, s, task[t].local, debts, Idle)  BY <1>0
  <1> HIDE DEF Idle
  <1> QED  BY <1>3, <1>6, <1>8, <1>9, <1>10, WorkMove

LEMMA WorkBoot ==
  ASSUME BindInv, Refs, Works, Grows, NEW t \in Tasks, Boot(t)
  PROVE  Works'
  <1>1. /\ Working(task[t]) /\ task[t].pc = "boot"
        /\ UNCHANGED <<mirrorMaster, author, outcome, used>>
    BY DEF Boot, Working, history
  <1> QED  BY <1>1, BootMoves, WorkBootstrap, WorkFail

\* Nobody's records or containers change; one branch nobody works for may be pushed.
LEMMA WorkWorld ==
  ASSUME BindInv, Works, Grows, \A u \in Tasks : Working(task'[u]) => task'[u] = task[u],
         UNCHANGED <<recs, conts, mirrorMaster, author, outcome, used>>,
         disk' = disk \/ disk'.recs = recs,
         NEW b, \A c \in Sessions \ {b} : originBranch'[c] = originBranch[c],
         \/ UNCHANGED originBranch
         \/ \A u \in Tasks : Working(task'[u]) => task[u].local.branch # b
  PROVE  Works'
  <1>1. ASSUME NEW u \in Tasks, Working(task'[u])
        PROVE  Covered(task'[u], originMaster', mirrorMaster', originBranch', conts'[Place(task'[u])])
    <2>1. task'[u] = task[u] /\ Working(task[u])  BY <1>1
    <2>2. Covered(task[u], originMaster, mirrorMaster, originBranch, conts[Place(task[u])])
      BY <2>1 DEF Works
    <2>3. task[u].local.branch \in Sessions
      BY <2>1, WorkingKnows DEF BoundRecord, Record
    <2>4. originBranch'[task[u].local.branch] = originBranch[task[u].local.branch]
      BY <1>1, <2>3
    <2>5. originMaster \subseteq originMaster'  BY DEF Grows
    <2> QED  BY <2>1, <2>2, <2>4, <2>5 DEF Covered
  <1>2. \A u \in Tasks : task'[u].pc = "orphan" => NoWork(task'[u].sid)
    BY DEF Works, Working
  <1>3. ASSUME NEW w \in Made, NEW s \in Sessions, s = author[w]
        PROVE  Listed(s)' /\ Kept(w, s)'
    <2>1. Listed(s) /\ Kept(w, s)  BY <1>3 DEF Works
    <2>2. Listed(s)'  BY <2>1 DEF Listed
    <2>3. OnRemote(w) => OnRemote(w)'  BY RemoteGrows
    <2>4. ASSUME outcome[s] = "none", Held(w, s)  PROVE Held(w, s)'
      <3>1. recs[s].branch \in Sessions
        BY <2>1, <2>4 DEF Listed, BindInv, BranchInv, Inv, ControlInv, ControlOK, Stores,
                      BoundRecord, Record
      <3> QED  BY <2>4, <3>1 DEF Held, Grows
    <2> QED  BY <2>1, <2>2, <2>3, <2>4 DEF Kept, Grows
  <1>4. Made' = Made /\ \A w \in Made : author[w] \in Sessions
    BY DEF Made, BindInv, BranchInv, Inv, WorldOK
  <1> QED  BY <1>1, <1>2, <1>3, <1>4 DEF Works, Working, NoWork

\* A task that ends, waits or only reads, everything else as it was.
LEMMA WorkQuiet ==
  ASSUME BindInv, Works, Grows, NEW t \in Tasks, NEW k, ~Working(k),
         task' = [task EXCEPT ![t] = k],
         UNCHANGED <<recs, disk, originBranch, mirrorMaster, conts, author, outcome, used>>
  PROVE  Works'
  <1>1. \A u \in Tasks : Working(task'[u]) => task'[u] = task[u]
    BY DEF BindInv, BranchInv, Inv, ControlInv, ControlOK
  <1> QED  BY <1>1, WorkWorld

LEMMA WorkCancel ==
  ASSUME BindInv, Refs, Works, Grows, NEW t \in Tasks, Cancel(t)
  PROVE  Works'
  <1>1. UNCHANGED <<memory, disk, mirrorMaster, author, outcome, used>>  BY DEF Cancel, history
  <1>2. CASE task[t].pc = "boot" /\ Release(t) /\ Bootstrap(t)
    <2>1. Working(task[t])  BY <1>2 DEF Working
    <2> QED  BY <1>1, <1>2, <2>1, ReleaseMoves, WorkBootstrap
  <1>3. CASE Release(t) /\ UNCHANGED <<conts, originBranch>>
    BY <1>1, <1>3, IdleOK, WorkQuiet DEF Release, memory
  <1>4. ASSUME NEW p \in {"mirror_worker", "session_worker"}, Goto(t, p),
               UNCHANGED <<conts, originBranch>>
        PROVE  Works'
    <2> DEFINE k == [task[t] EXCEPT !.pc = p]
    <2>1. task' = [task EXCEPT ![t] = k] /\ ~Working(k)
      BY <1>4 DEF Goto, BindInv, BranchInv, Inv, ControlInv, ControlOK, TaskType, Working
    <2> HIDE DEF k
    <2> QED  BY <1>1, <1>4, <2>1, WorkQuiet DEF memory
  <1> QED  BY <1>2, <1>3, <1>4 DEF Cancel

\* After the checkpoint the branch has everything the container has.
LEMMA WorkFlush ==
  ASSUME BindInv, Refs, Works, Grows, NEW t \in Tasks, Flush(t)
  PROVE  Works'
  <1> DEFINE p == IF task[t].kind = "reap" THEN "destroy" ELSE "mirror"
  <1>1. /\ Working(task[t]) /\ task[t].pc = "flush"
        /\ UNCHANGED <<mirrorMaster, conts, author, outcome, used>>
    BY DEF Flush, Working, history
  <1>2. PICK n \in Names : n = Place(task[t])  BY <1>1, PlaceOwn
  <1>3. PICK b \in Sessions : b = task[t].local.branch  BY <1>1, WorkingRef
  <1>4. PICK k : /\ Moves(t, task[t].sid, task[t].local, debts, k)
                 /\ \/ k = Idle
                    \/ Carries(k, t, p) /\ CanPush(n) /\ originBranch' = Pushed(n)
    BY <1>2, FlushMoves
  <1>5. UNCHANGED originBranch \/ (CanPush(n) /\ originBranch' = Pushed(n))
    BY <1>2 DEF Flush, Runtime, Place
  <1>6. CanPush(n) => conts[n].branch = b
    BY <1>1, <1>2, <1>3, PlaceBranch DEF CanPush
  <1>7. /\ \A c \in Sessions \ {b} : originBranch'[c] = originBranch[c]
        /\ originBranch' = Pushed(n) /\ CanPush(n) => originBranch'[b] = conts[n].tree
    BY <1>3, <1>5, <1>6, PushedShape
  <1>8. ASSUME Working(k)
        PROVE  Covered(k, originMaster', mirrorMaster', originBranch', conts'[Place(k)])
    <2>1. Carries(k, t, p) /\ originBranch'[b] = conts[n].tree  BY <1>4, <1>7, <1>8, IdleOK
    <2>2. k.pc = p /\ k.kind = task[t].kind /\ k.local.branch = b /\ Place(k) = n
      BY <1>1, <1>2, <1>3, <2>1, WorkingKnows DEF Carries, Same, Place, Container
    <2> QED  BY <1>1, <2>1, <2>2 DEF Covered
  <1>9. k.pc # "orphan"  BY <1>4 DEF Carries, Idle
  <1> QED  BY <1>1, <1>3, <1>4, <1>7, <1>8, <1>9, WorkCarry

\* What a close is about to publish has the branch, unless it goes in debt.
LEMMA WorkCloseMerge ==
  ASSUME BindInv, Refs, Works, Grows, NEW t \in Tasks, CloseMerge(t)
  PROVE  Works'
  <1>1. /\ Working(task[t]) /\ task[t].pc = "mirror" /\ MergeFree
        /\ UNCHANGED <<originBranch, conts, author, outcome, used>>
    BY DEF CloseMerge, Working, history
  <1>2. PICK b \in Sessions : b = task[t].local.branch  BY <1>1, WorkingRef
  <1>3. PICK k : /\ Moves(t, task[t].sid, task[t].local, debts, k)
                 /\ \/ k = Idle
                    \/ /\ Carries(k, t, "publish")
                       /\ \E o \in CloseOutcomes(originMaster, originBranch[b]) :
                            mirrorMaster' = o.master /\ k.debt = o.debt
    BY <1>2, CloseMergeMoves
  <1>4. ASSUME Working(k)
        PROVE  Covered(k, originMaster', mirrorMaster', originBranch', conts'[Place(k)])
    <2>1. /\ Carries(k, t, "publish")
          /\ ~k.debt => originBranch[b] \subseteq mirrorMaster'
      BY <1>3, <1>4, IdleOK, MergeContains
    <2>2. k.pc = "publish" /\ k.local.branch = b /\ Place(k) = Place(task[t])
      BY <1>1, <1>2, <2>1, WorkingKnows DEF Carries, Same, Place, Container
    <2>3. Covered(task[t], originMaster, mirrorMaster, originBranch, conts[Place(task[t])])
      BY <1>1 DEF Works
    <2> QED  BY <1>1, <1>2, <2>1, <2>2, <2>3 DEF Covered, Checkpointed
  <1>5. k.pc # "orphan"  BY <1>3 DEF Carries, Idle
  <1> QED  BY <1>1, <1>2, <1>3, <1>4, <1>5, WorkCarry

LEMMA WorkRecycleFetch ==
  ASSUME BindInv, Refs, Works, Grows, NEW t \in Tasks, RecycleFetch(t)
  PROVE  Works'
  <1>1. /\ Working(task[t]) /\ task[t].pc = "mirror" /\ MergeFree
        /\ UNCHANGED <<originBranch, conts, author, outcome, used>>
    BY DEF RecycleFetch, Working, history
  <1>2. PICK b \in Sessions : b = task[t].local.branch  BY <1>1, WorkingRef
  <1>3. PICK k : /\ Moves(t, task[t].sid, task[t].local, debts, k)
                 /\ k = Idle \/ Carries(k, t, "image")
    BY RecycleFetchMoves
  <1>4. ASSUME Working(k)
        PROVE  Covered(k, originMaster', mirrorMaster', originBranch', conts'[Place(k)])
    <2>1. Carries(k, t, "image")  BY <1>3, <1>4, IdleOK
    <2>2. k.pc = "image" /\ k.local.branch = b /\ Place(k) = Place(task[t])
      BY <1>1, <1>2, <2>1, WorkingKnows DEF Carries, Same, Place, Container
    <2>3. Covered(task[t], originMaster, mirrorMaster, originBranch, conts[Place(task[t])])
      BY <1>1 DEF Works
    <2> QED  BY <1>1, <1>2, <2>2, <2>3 DEF Covered, Checkpointed
  <1>5. k.pc # "orphan"  BY <1>3 DEF Carries, Idle
  <1> QED  BY <1>1, <1>2, <1>3, <1>4, <1>5, WorkCarry

\* Past publish, what is not in debt is in master.
LEMMA WorkPublish ==
  ASSUME BindInv, Refs, Works, Grows, NEW t \in Tasks, Publish(t)
  PROVE  Works'
  <1>1. /\ Working(task[t]) /\ task[t].pc = "publish"
        /\ UNCHANGED <<originBranch, mirrorMaster, conts, author, outcome, used>>
    BY DEF Publish, Working, history
  <1>2. PICK b \in Sessions : b = task[t].local.branch  BY <1>1, WorkingRef
  <1>3. PICK d, k : /\ Moves(t, task[t].sid, task[t].local, d, k)
                    /\ k = Idle \/ (Carries(k, t, "destroy") /\ k.debt = task[t].debt)
                    /\ \/ task[t].debt
                       \/ ~task[t].debt /\ originMaster' = mirrorMaster
                       \/ k = Idle
    BY PublishMoves
  <1>4. ASSUME Working(k)
        PROVE  Covered(k, originMaster', mirrorMaster', originBranch', conts'[Place(k)])
    <2>1. /\ Carries(k, t, "destroy") /\ k.debt = task[t].debt
          /\ ~task[t].debt => originMaster' = mirrorMaster
      BY <1>3, <1>4, IdleOK
    <2>2. k.pc = "destroy" /\ k.local.branch = b /\ Place(k) = Place(task[t])
      BY <1>1, <1>2, <2>1, WorkingKnows DEF Carries, Same, Place, Container
    <2>3. Covered(task[t], originMaster, mirrorMaster, originBranch, conts[Place(task[t])])
      BY <1>1 DEF Works
    <2> QED  BY <1>1, <1>2, <2>1, <2>2, <2>3 DEF Covered, Checkpointed
  <1>5. k.pc # "orphan"  BY <1>3 DEF Carries, Idle
  <1> QED  BY <1>1, <1>2, <1>3, <1>4, <1>5, WorkCarry

\* A container that goes leaves its work on the branch.
LEMMA GoneSaves ==
  ASSUME BindInv, Refs, Works, NEW t \in Tasks, Working(task[t]), Checkpointed(task[t]),
         UNCHANGED originBranch,
         NEW s \in Sessions, s = task[t].sid, NEW l, l.branch = task[t].local.branch
  PROVE  Saves(s, l)
  <1>1. Container(s, recs[s]) = Place(task[t])
    BY WorkingKnows DEF Same, Place, Container
  <1>2. originBranch[task[t].local.branch] # None  BY WorkingRef DEF RefOK
  <1>3. Covered(task[t], originMaster, mirrorMaster, originBranch, conts[Place(task[t])])
    BY DEF Works
  <1> QED  BY <1>1, <1>2, <1>3 DEF Saves, Covered

LEMMA WorkDestroy ==
  ASSUME BindInv, Refs, Works, Grows, NEW t \in Tasks, Destroy(t)
  PROVE  Works'
  <1>0. PICK s \in Sessions : s = task[t].sid
    BY WorkingKnows DEF Destroy, Working
  <1>1. /\ Working(task[t]) /\ task[t].pc = "destroy" /\ Checkpointed(task[t])
        /\ UNCHANGED <<originBranch, mirrorMaster, author, outcome, used>>
    BY DEF Destroy, Working, git, history, Checkpointed
  <1>2. PICK b \in Sessions : b = task[t].local.branch  BY <1>1, WorkingRef
  <1>3. PICK k : /\ Moves(t, s, task[t].local, debts, k)
                 /\ \/ k = Idle /\ UNCHANGED conts
                    \/ /\ Carries(k, t, "remove") /\ k.debt = task[t].debt
                       /\ conts' = [conts EXCEPT ![Place(task[t])] = None]
    BY <1>0, DestroyMoves
  <1>4. CASE k = Idle /\ UNCHANGED conts
    BY <1>0, <1>1, <1>3, <1>4, WorkFail
  <1>5. CASE /\ Carries(k, t, "remove") /\ k.debt = task[t].debt
             /\ conts' = [conts EXCEPT ![Place(task[t])] = None]
    <2>1. /\ Mine(t, s) /\ task[t].local # None /\ recs[s] # None /\ recs[s].branch = b
      BY <1>0, <1>1, <1>2, WorkingKnows, WorkingRef
    <2>2. /\ \A n \in Names \ Own(s) : conts'[n] = conts[n]
          /\ conts'[Place(task[t])] = None
      BY <1>0, <1>1, <1>5, GoneIsEmpty
    <2>3. Saves(s, task[t].local)  BY <1>0, <1>1, GoneSaves
    <2>4. Frame(t, b, originBranch')  BY <1>1, <1>2, WorkingRef DEF Frame
    <2>5. Covered(k, originMaster', mirrorMaster', originBranch', conts'[Place(k)])
      <3>1. /\ k.pc = "remove" /\ k.kind = task[t].kind /\ k.local.branch = b
            /\ Place(k) = Place(task[t])
        BY <1>0, <1>1, <1>2, <1>5, WorkingKnows DEF Carries, Same, Place, Container
      <3>2. Covered(task[t], originMaster, mirrorMaster, originBranch, conts[Place(task[t])])
        BY <1>1 DEF Works
      <3>3. originMaster \subseteq originMaster'  BY DEF Grows
      <3> QED  BY <1>1, <1>2, <1>5, <2>2, <3>1, <3>2, <3>3 DEF Covered
    <2>6. k.pc # "orphan"  BY <1>5 DEF Carries
    <2> QED  BY <1>1, <1>2, <1>3, <2>1, <2>2, <2>3, <2>4, <2>5, <2>6, WorkMove
  <1> QED  BY <1>3, <1>4, <1>5

LEMMA WorkRebind ==
  ASSUME BindInv, Refs, Works, Grows, NEW t \in Tasks, RecycleRebind(t)
  PROVE  Works'
  <1>0. PICK s \in Sessions : s = task[t].sid
    BY WorkingKnows DEF RecycleRebind, Working
  <1>1. /\ Working(task[t]) /\ task[t].pc = "image" /\ Checkpointed(task[t])
        /\ UNCHANGED <<originBranch, mirrorMaster, author, outcome, used>>
    BY DEF RecycleRebind, Working, git, history, Checkpointed
  <1>2. PICK b \in Sessions : b = task[t].local.branch  BY <1>1, WorkingRef
  <1>3. CASE Moves(t, s, task[t].local, debts, Idle) /\ UNCHANGED conts
    BY <1>0, <1>1, <1>3, WorkFail
  <1>4. CASE /\ conts' = [conts EXCEPT ![Place(task[t])] = None]
             /\ \E k : \E l \in BoundRecord :
                 /\ l.branch = b /\ Moves(t, s, l, debts, k)
                 /\ k = Idle \/ k.pc = "layer"
    <2>1. PICK l, k :
                 /\ l \in BoundRecord
                 /\ l.branch = b /\ Moves(t, s, l, debts, k)
                 /\ k = Idle \/ k.pc = "layer"
      BY <1>4
    <2>2. /\ Mine(t, s) /\ l # None /\ recs[s] # None /\ recs[s].branch = b
      BY <1>0, <1>1, <1>2, <2>1, WorkingKnows, WorkingRef, NoneIsNoRecord DEF BoundRecord
    <2>3. \A n \in Names \ Own(s) : conts'[n] = conts[n]
      BY <1>0, <1>1, <1>4, GoneIsEmpty
    <2>4. Saves(s, l)  BY <1>0, <1>1, <1>2, <2>1, GoneSaves
    <2>5. Frame(t, b, originBranch')  BY <1>1, <1>2, WorkingRef DEF Frame
    <2>6. k.pc # "orphan" /\ ~Checkpointed(k)  BY <2>1 DEF Checkpointed, Idle
    <2> QED  BY <1>1, <2>1, <2>2, <2>3, <2>4, <2>5, <2>6, BeforeCheckpoint, WorkMove
  <1>5. \/ Moves(t, s, task[t].local, debts, Idle) /\ UNCHANGED conts
        \/ /\ conts' = [conts EXCEPT ![Place(task[t])] = None]
           /\ \E k : \E l \in BoundRecord :
                /\ l.branch = b /\ Moves(t, s, l, debts, k)
                /\ k = Idle \/ k.pc = "layer"
    BY <1>0, <1>2, RebindMoves
  <1> QED  BY <1>3, <1>4, <1>5

\* A request claims the record as it is.
LEMMA WorkClaim ==
  ASSUME BindInv, Refs, Works, Grows, NEW t \in Tasks, NEW s \in Sessions, recs[s] # None,
         SessionFree(s), NEW kind \in {"close", "finish", "recycle", "reap"},
         NEW seen \in 0..MaxGen, NEW life \in {"closing", "recycling"},
         Claim(t, s, kind, seen, life)
  PROVE  Works'
  <1>0. ControlInv /\ kind \in TaskKinds /\ Mine(t, s)
    BY DEF BindInv, BranchInv, Inv, TaskKinds, Mine
  <1>1. UNCHANGED <<originBranch, mirrorMaster, conts, author, outcome, used>>
    BY DEF Claim, history, git
  <1>2. PICK k : /\ Moves(t, s, recs[s], debts, k)
                 /\ k = Idle \/ (k.pc = "flush" /\ k.sid = s)
    BY <1>0, ClaimMoves
  <1>3. PICK b \in Sessions : b = recs[s].branch
    BY <1>0 DEF ControlInv, ControlOK, Stores, BoundRecord, Record
  <1>4. ASSUME NEW u \in Tasks \ {t}, Working(task[u])
        PROVE  task[u].local.branch # b
    <2>1. task[u].sid # s
      BY <1>4 DEF SessionFree, HoldsSession, Working
    <2> QED  BY <1>3, <1>4, <2>1, OtherBranch
  <1>5. Frame(t, b, originBranch')  BY <1>1, <1>4 DEF Frame
  <1>6. Saves(s, recs[s])  BY <1>1, SameRefl DEF Saves
  <1>7. k.pc # "orphan" /\ ~Checkpointed(k)  BY <1>2 DEF Checkpointed, Idle
  <1> QED  BY <1>0, <1>1, <1>2, <1>5, <1>6, <1>7, BeforeCheckpoint, WorkMove

LEMMA WorkObserved ==
  ASSUME BindInv, Refs, Works, Grows, NEW t \in Tasks, FinishBegin(t) \/ ReapBegin(t)
  PROVE  Works'
  <1>0. PICK s \in Sessions : s = task[t].sid
    BY DEF FinishBegin, ReapBegin, BindInv, BranchInv, Inv, ControlInv, ControlOK, LocalOK
  <1>1. task[t].seen \in 0..MaxGen
    BY DEF FinishBegin, ReapBegin, BindInv, BranchInv, Inv, ControlInv, ControlOK, TaskType
  <1>2. CASE Release(t) /\ UNCHANGED <<memory, disk, conts, git, history, faults>>
    BY <1>2, IdleOK, WorkQuiet DEF Release, memory, git, history
  <1>3. ASSUME recs[s] # None, SessionFree(s), NEW kind \in {"finish", "reap"},
               Claim(t, s, kind, task[t].seen, "closing")
        PROVE  Works'
    BY <1>1, <1>3, WorkClaim
  <1>4. CASE FinishBegin(t)  BY <1>0, <1>2, <1>3, <1>4 DEF FinishBegin
  <1>5. CASE ReapBegin(t)  BY <1>0, <1>2, <1>3, <1>5 DEF ReapBegin
  <1> QED  BY <1>4, <1>5

\* The companion's checkpoint pushes a branch nobody works for.
LEMMA WorkObserve ==
  ASSUME BindInv, Refs, Works, Grows, NEW t \in Tasks, NEW s \in Sessions,
         FinishObserve(t, s) \/ ReapObserve(t, s)
  PROVE  Works'
  <1>1. PICK kind : Observed(t, s, kind)  BY DEF FinishObserve, ReapObserve
  <1> DEFINE k == [Idle EXCEPT !.pc = "observed", !.kind = kind, !.sid = s,
                               !.seen = recs[s].gen]
  <1>2. task' = [task EXCEPT ![t] = k] /\ ~Working(k)
    BY <1>1 DEF Observed, Working, Idle
  <1> HIDE DEF k
  <1>3. UNCHANGED <<recs, disk, conts, mirrorMaster, author, outcome, used>>
    BY DEF FinishObserve, ReapObserve, memory, git, history
  <1>4. CASE ReapObserve(t, s)
    BY <1>2, <1>3, <1>4, WorkQuiet DEF ReapObserve, git
  <1>5. CASE FinishObserve(t, s)
    <2>1. PICK n : n = Container(s, recs[s])  OBVIOUS
    <2>2. /\ recs[s] # None /\ SessionFree(s) /\ CanPush(n) /\ originBranch' = Pushed(n)
          /\ n \in Names
      BY <1>5, <2>1, ContainerOK
      DEF FinishObserve, BindInv, BranchInv, Inv, ControlInv, ControlOK, Stores
    <2>3. PICK b : b = conts[n].branch  OBVIOUS
    <2>4. \A c \in Sessions \ {b} : originBranch'[c] = originBranch[c]
      BY <2>2, <2>3, PushedShape
    <2>5. \A u \in Tasks : Working(task'[u]) => task'[u] = task[u]
      BY <1>2 DEF BindInv, BranchInv, Inv, ControlInv, ControlOK
    <2>6. ASSUME NEW u \in Tasks, Working(task'[u])  PROVE task[u].local.branch # b
      <3>1. Working(task[u]) /\ task[u].sid # s
        BY <2>2, <2>5, <2>6 DEF SessionFree, HoldsSession, Working
      <3> QED  BY <2>1, <2>2, <2>3, <3>1, PushApart DEF CanPush
    <2> QED  BY <1>3, <2>4, <2>5, <2>6, WorkWorld
  <1> QED  BY <1>4, <1>5

\* Memory written by others; a step that changes nothing.
LEMMA WorkStill ==
  ASSUME BindInv, Works, Grows, OthersPersist \/ UNCHANGED vars
  PROVE  Works'
  <1>1. /\ UNCHANGED <<recs, task, originBranch, mirrorMaster, conts, author, outcome, used>>
        /\ disk' = disk \/ disk'.recs = recs
    BY DEF OthersPersist, Saved, vars, memory, git, history
  <1> QED  BY <1>1, WorkWorld

\* A close takes nothing from the remote that master lacks, a reap nothing at all.
LEMMA WorkRemove ==
  ASSUME BindInv, Refs, Works, NEW t \in Tasks, CloseRemove(t) \/ ReapRemove(t)
  PROVE  Works'
  <1>0. PICK s \in Sessions : s = task[t].sid
    BY WorkingKnows DEF CloseRemove, ReapRemove, Working
  <1>1. /\ Working(task[t]) /\ task[t].pc = "remove"
        /\ UNCHANGED <<originMaster, mirrorMaster, conts, author, used>>
    BY DEF CloseRemove, ReapRemove, Working, git
  <1>2. PICK b \in Sessions : b = task[t].local.branch  BY <1>1, WorkingRef
  <1>3. /\ s \in used /\ Mine(t, s) /\ recs[s] # None /\ recs[s].branch = b
        /\ outcome[s] = "none" /\ conts[Container(s, recs[s])] = None
    BY <1>0, <1>1, <1>2, WorkingRef, WorkingKnows
    DEF Knows, Vacant, Same, Place, Container
  <1>4. PICK d : Moves(t, s, None, d, Idle)  BY <1>0, RemoveMoves
  <1>5. PICK how \in {"merged", "debt", "reaped"} :
          /\ outcome' = [outcome EXCEPT ![s] = how]
          /\ how = "merged" => CloseRemove(t) /\ ~task[t].debt
          /\ how # "merged" => UNCHANGED originBranch
    BY <1>0 DEF CloseRemove, ReapRemove, git
  <1>6. outcome'[s] = how /\ \A o \in Sessions \ {s} : outcome'[o] = outcome[o]
    BY <1>5 DEF BindInv, BranchInv, Inv, WorldOK
  <1>7. \A c \in Sessions \ {b} : originBranch'[c] = originBranch[c]
    <2>1. UNCHANGED originBranch \/ originBranch' = [originBranch EXCEPT ![b] = None]
      BY <1>2 DEF CloseRemove, ReapRemove, git
    <2> QED  BY <2>1 DEF BindInv, BranchInv, Inv, WorldOK
  <1>8. how = "merged" => originBranch[b] \subseteq originMaster
    <2>1. Covered(task[t], originMaster, mirrorMaster, originBranch, conts[Place(task[t])])
      BY <1>1 DEF Works
    <2> QED  BY <1>1, <1>2, <1>5, <2>1 DEF CloseRemove, Covered
  <1>9. \A w : OnRemote(w) => OnRemote(w)'
    BY <1>1, <1>5, <1>7, <1>8 DEF OnRemote
  <1>10. Frame(t, b, originBranch')  BY <1>1, <1>2, <1>7, WorkingRef DEF Frame
  <1>11. \A u \in Tasks : Working(task'[u]) =>
           Covered(task'[u], originMaster', mirrorMaster', originBranch', conts'[Place(task'[u])])
    <2>1. ~Working(Idle)  BY IdleOK
    <2>2. originMaster \subseteq originMaster' /\ UNCHANGED mirrorMaster
          /\ \A n \in Names \ Own(s) : conts'[n] = conts[n]
      BY <1>1
    <2> HIDE DEF Idle
    <2> QED  BY <1>3, <1>4, <1>10, <2>1, <2>2, CoverMove
  <1>12. \A u \in Tasks : task'[u].pc = "orphan" => NoWork(task'[u].sid)
    <2>1. \A u \in Tasks \ {t} : task'[u] = task[u]
      BY <1>4 DEF Moves, BindInv, BranchInv, Inv, ControlInv, ControlOK
    <2>2. task'[t].pc = "idle"
      BY <1>4 DEF Moves, Idle, BindInv, BranchInv, Inv, ControlInv, ControlOK
    <2> QED  BY <2>1, <2>2 DEF Works
  <1>13. ASSUME NEW w \in Made, NEW o \in Sessions, o = author[w]
         PROVE  Listed(o)' /\ Kept(w, o)'
    <2>1. Listed(o) /\ Kept(w, o)  BY <1>13 DEF Works
    <2>2. CASE o # s
      <3>1. /\ recs'[o] = recs[o] /\ disk'.recs[o] \in {recs[o], disk.recs[o]}
            /\ outcome'[o] = outcome[o]
        BY <1>4, <1>6, <2>2 DEF Moves
      <3>2. Listed(o)'  BY <1>1, <2>1, <3>1 DEF Listed
      <3>3. ASSUME outcome[o] = "none", Held(w, o)  PROVE Held(w, o)'
        <4>1. recs[o] # None /\ recs[o].branch \in Sessions
          BY <2>1, <3>3 DEF Listed, BindInv, BranchInv, Inv, ControlInv, ControlOK, Stores,
                        BoundRecord, Record
        <4>2. recs[o].branch # b
          BY <1>3, <2>2, <4>1 DEF BindInv, BranchInv, RecordBranches, Exclusive
        <4> QED  BY <1>1, <1>7, <3>1, <3>3, <4>1, <4>2 DEF Held
      <3> QED  BY <1>1, <1>9, <2>1, <3>1, <3>2, <3>3 DEF Kept
    <2>3. CASE o = s
      <3>1. Held(w, s)  BY <1>3, <2>1, <2>3 DEF Kept
      <3>2. w \in originMaster \/ (originBranch[b] # None /\ w \in originBranch[b])
        BY <1>3, <3>1 DEF Held
      <3>3. OnRemote(w)  BY <3>2 DEF OnRemote
      <3>4. how = "merged" => w \in originMaster'  BY <1>1, <1>8, <3>2
      <3>5. Listed(s)'  BY <1>1, <1>3, <1>6 DEF Listed
      <3> QED  BY <1>6, <1>9, <2>3, <3>3, <3>4, <3>5 DEF Kept
    <2> QED  BY <2>2, <2>3
  <1>14. Made' = Made /\ \A w \in Made : author[w] \in Sessions
    BY <1>1 DEF Made, BindInv, BranchInv, Inv, WorldOK
  <1> QED  BY <1>1, <1>11, <1>12, <1>13, <1>14 DEF Works, Working, NoWork

\* Memory and snapshot name the same container where there is one.
LEMMA ListedAlive ==
  ASSUME BindInv, NEW s \in Sessions, NEW x, NEW y, x # None, x \in BoundRecord,
         Fit(s, x, conts), Fit(s, y, conts), conts[Container(s, x)] # None
  PROVE  /\ y # None /\ y.branch = x.branch /\ Container(s, y) = Container(s, x)
         /\ outcome[s] = "none"
  <1>1. Ended(s)  BY DEF BindInv, Bindings
  <1>2. CASE x.bound
    <2>1. Container(s, x) = <<s, x.gen>> /\ x.gen \in 1..MaxGen
      BY <1>2 DEF Container, BoundRecord
    <2> QED  BY <1>1, <2>1 DEF Fit, Ended, Container
  <1>3. CASE ~x.bound
    <2>1. Container(s, x) = Alias /\ s \in Legacy /\ x.branch = s
      BY <1>3 DEF Container, Fit
    <2> QED  BY <1>1, <2>1 DEF Fit, Ended, Container
  <1> QED  BY <1>2, <1>3

\* A driver that writes where nothing is in transition disturbs no task.
LEMMA WorkDriver ==
  ASSUME BindInv, Works, Grows, ~LateWork, NEW s \in Sessions, NEW w \in Work,
         Edit(s, w) \/ Commit(s, w)
  PROVE  Works'
  <1>1. /\ DriverMayWrite(s, w) /\ Wrote(s, w)
        /\ UNCHANGED <<recs, disk, task, originMaster, mirrorMaster, used, outcome>>
    BY DEF Edit, Commit, memory, git
  <1>2. SessionFree(s) /\ recs[s] # None  BY <1>1 DEF DriverMayWrite
  <1>3. PICK n : n = Container(s, recs[s])  OBVIOUS
  <1>4. /\ recs[s] \in BoundRecord /\ n \in Names
        /\ conts[n] # None /\ conts[n] \in Workspace
        /\ conts'[n] # None /\ conts'[n].tree = conts[n].tree \cup {w}
        /\ \A m \in Names \ {n} : conts'[m] = conts[m]
    BY <1>1, <1>3, DriverShape, NoneIsNoWorkspace
  <1>5. PICK b \in Sessions : b = conts[n].branch  BY <1>4 DEF Workspace
  <1>6. \A c \in Sessions \ {b} : originBranch'[c] = originBranch[c]
    <2>1. UNCHANGED originBranch
          \/ originBranch' = [originBranch EXCEPT ![b] = conts[n].tree \cup {w}]
      BY <1>3, <1>5 DEF Edit, Commit, git
    <2> QED  BY <2>1 DEF BindInv, BranchInv, Inv, WorldOK
  <1>7. \A u \in Tasks : Working(task[u]) => task[u].sid # s
    BY <1>2 DEF SessionFree, HoldsSession, Working
  <1>8. author' = [author EXCEPT ![w] = s] /\ author \in [Work -> Sessions \cup {None}]
        /\ author[w] = None
    BY <1>1 DEF Wrote, DriverMayWrite, BindInv, BranchInv, Inv, WorldOK
  <1>9. ASSUME NEW u \in Tasks, Working(task'[u])
        PROVE  Covered(task'[u], originMaster', mirrorMaster', originBranch', conts'[Place(task'[u])])
    <2>1. task'[u] = task[u] /\ Working(task[u]) /\ task[u].sid # s  BY <1>1, <1>7, <1>9
    <2>2. PICK o \in Sessions : o = task[u].sid  BY <2>1, WorkingKnows
    <2>3. Place(task[u]) \in Own(o) /\ Place(task[u]) \in Names
      BY <2>1, <2>2, PlaceOwn
    <2>4. n \notin Own(o)  BY <1>2, <1>3, <2>1, <2>2, ContainerApart
    <2>5. conts'[Place(task[u])] = conts[Place(task[u])]  BY <1>4, <2>3, <2>4
    <2>6. task[u].local.branch \in Sessions /\ task[u].local.branch # b
      BY <1>2, <1>3, <1>4, <1>5, <2>1, PushApart, WorkingKnows DEF BoundRecord, Record
    <2>7. Covered(task[u], originMaster, mirrorMaster, originBranch, conts[Place(task[u])])
      BY <2>1 DEF Works
    <2> QED  BY <1>1, <1>6, <2>1, <2>5, <2>6, <2>7 DEF Covered
  <1>10. ASSUME NEW u \in Tasks, task'[u].pc = "orphan"
         PROVE  \A v \in Work : author'[v] # task'[u].sid
    <2>1. task'[u] = task[u] /\ Working(task[u])  BY <1>1, <1>10 DEF Working
    <2>2. NoWork(task[u].sid) /\ task[u].sid # s
      BY <1>7, <1>10, <2>1 DEF Works
    <2> QED  BY <1>8, <2>1, <2>2 DEF NoWork
  <1>11. /\ s \in used /\ disk.recs[s] # None /\ disk.recs[s].branch = recs[s].branch
         /\ outcome[s] = "none"
    BY <1>2, <1>3, <1>4, ListedAlive DEF BindInv, Bindings
  <1>12. Listed(s)' /\ Kept(w, s)'
    <2>1. Listed(s)'  BY <1>1, <1>2, <1>11 DEF Listed
    <2>2. Held(w, s)'  BY <1>1, <1>3, <1>4 DEF Held
    <2> QED  BY <1>1, <1>11, <2>1, <2>2 DEF Kept
  <1>13. ASSUME NEW v \in Made, NEW o \in Sessions, o = author[v]
         PROVE  Listed(o)' /\ Kept(v, o)'
    <2>1. Listed(o) /\ Kept(v, o)  BY <1>13 DEF Works
    <2>2. Listed(o)'  BY <1>1, <2>1 DEF Listed
    <2>3. OnRemote(v) => OnRemote(v)'  BY RemoteGrows
    <2>4. ASSUME outcome[o] = "none", Held(v, o)  PROVE Held(v, o)'
      <3>1. recs[o] # None /\ recs[o] \in BoundRecord /\ recs[o].branch \in Sessions
        BY <2>1, <2>4 DEF Listed, BindInv, BranchInv, Inv, ControlInv, ControlOK, Stores,
                      BoundRecord, Record
      <3>2. PICK m \in Names : m = Container(o, recs[o])  BY <3>1, ContainerOK
      <3>3. conts[m] # None => conts'[m] # None /\ conts[m].tree \subseteq conts'[m].tree
        BY <1>4
      <3> QED  BY <1>1, <2>4, <3>1, <3>2, <3>3 DEF Held, Grows
    <2> QED  BY <1>1, <2>1, <2>2, <2>3, <2>4 DEF Kept, Grows
  <1>14. \A v \in Made' : v = w \/ (v \in Made /\ author'[v] = author[v])
    BY <1>8 DEF Made
  <1>15. author'[w] = s /\ \A v \in Made : author[v] \in Sessions
    BY <1>8 DEF Made
  <1>16. \A v \in Made', o \in Sessions : o = author'[v] => Listed(o)' /\ Kept(v, o)'
    BY <1>12, <1>13, <1>14, <1>15
  <1>17. \A v \in Made' : author'[v] \in Sessions  BY <1>14, <1>15
  <1> QED  BY <1>1, <1>9, <1>10, <1>16, <1>17 DEF Works, Working, NoWork

\* A crash leaves containers, refs and a snapshot that names both.
LEMMA WorkCrash ==
  ASSUME BindInv, Works, Grows, Crash
  PROVE  Works'
  <1>1. disk.recs \in Stores /\ recs \in Stores
    BY DEF BindInv, BranchInv, Inv, ControlInv, ControlOK
  <1>2. /\ recs' = Hydrate(disk.recs) /\ \A t \in Tasks : task'[t] = Idle
        /\ UNCHANGED <<disk, conts, originMaster, originBranch, author, outcome, used>>
    BY DEF Crash, history, git
  <1>3. \A t \in Tasks : ~Working(task'[t]) /\ task'[t].pc # "orphan"
    BY <1>2, IdleOK DEF Idle
  <1>4. ASSUME NEW w \in Made, NEW s \in Sessions, s = author[w]
        PROVE  Listed(s)' /\ Kept(w, s)'
    <2>1. Listed(s) /\ Kept(w, s)  BY <1>4 DEF Works
    <2>2. Same(recs'[s], disk.recs[s])  BY <1>1, <1>2, HydrateSame
    <2>3. Listed(s)'  BY <1>2, <2>1, <2>2 DEF Listed, Same
    <2>4. ASSUME outcome[s] = "none", Held(w, s)  PROVE Held(w, s)'
      <3>1. recs[s] # None /\ recs[s] \in BoundRecord /\ disk.recs[s] # None
            /\ recs'[s].branch = recs[s].branch
        BY <1>1, <2>1, <2>2, <2>4 DEF Listed, Same, Stores
      <3>2. conts[Container(s, recs[s])] # None =>
              Container(s, disk.recs[s]) = Container(s, recs[s])
        BY <3>1, ListedAlive DEF BindInv, Bindings
      <3>3. Container(s, recs'[s]) = Container(s, disk.recs[s])
        BY <2>2, <3>1 DEF Same, Container
      <3> QED  BY <1>2, <2>4, <3>1, <3>2, <3>3 DEF Held
    <2>5. OnRemote(w) => OnRemote(w)'  BY RemoteGrows
    <2> QED  BY <1>2, <2>1, <2>3, <2>4, <2>5 DEF Kept
  <1>5. Made' = Made /\ \A w \in Made : author[w] \in Sessions
    BY <1>2 DEF Made, BindInv, BranchInv, Inv, WorldOK
  <1> QED  BY <1>2, <1>3, <1>4, <1>5 DEF Works

LEMMA WorkInit == Init => Works
  <1> SUFFICES ASSUME Init  PROVE Works
    OBVIOUS
  <1>1. Made = {} /\ \A t \in Tasks : ~Working(task[t]) /\ task[t].pc # "orphan"
    BY IdleOK DEF Init, Made, Idle
  <1> QED  BY <1>1 DEF Works

LEMMA WorkNext ==
  ASSUME BindInv, Refs, Contents, Works, [Next]_vars, ~LateWork
  PROVE  Works'
  <1>0. CASE \E t \in Tasks : CloseRemove(t) /\ ~task[t].debt
    BY <1>0, WorkRemove
  <1>1. CASE Grows
    <2>1. ASSUME NEW t \in Tasks, NEW s \in Sessions, Request(t, s)  PROVE Works'
      <3>1. CASE CloseBegin(t, s) \/ RecycleBegin(t, s)
        <4>1. recs[s].gen \in 0..MaxGen
          BY <3>1 DEF CloseBegin, RecycleBegin, BindInv, BranchInv, Inv, ControlInv, ControlOK,
                      Stores, BoundRecord, Record
        <4> QED  BY <1>1, <3>1, <4>1, WorkClaim DEF CloseBegin, RecycleBegin
      <3> QED  BY <1>1, <2>1, <3>1, WorkOpenBegin, WorkObserve DEF Request
    <2>2. ASSUME NEW t \in Tasks, Locking(t)  PROVE Works'
      BY <1>1, <2>2, WorkObserved, WorkCloseMerge, WorkRecycleFetch DEF Locking
    <2>3. ASSUME NEW t \in Tasks, Running(t)  PROVE Works'
      <3>1. CASE WorkerDone(t)
        BY <1>1, <3>1, IdleOK, WorkQuiet DEF WorkerDone, Release, memory, git, history
      <3> QED
        BY <1>1, <2>3, <3>1, WorkOpenMirror, WorkOpen, WorkCreate, WorkBoot, WorkFlush,
           WorkPublish, WorkDestroy, WorkRemove, WorkRebind
        DEF Running
    <2>4. CASE Rest \/ UNCHANGED vars
      BY <1>1, <2>4, WorkStill DEF Rest
    <2> QED
      BY <1>1, <2>1, <2>2, <2>3, <2>4, WorkCancel, WorkDriver, WorkStill, WorkCrash DEF Next
  <1> QED  BY <1>0, <1>1, TreesStep

-----------------------------------------------------------------------------
(* What is kept                                                            *)

WorkInv == BindInv /\ Asked /\ Refs /\ Contents /\ Works

LEMMA WorkInvInit == Init => WorkInv
  BY BindInit, RefInit, TreesInit, WorkInit DEF WorkInv

LEMMA WorkInvNext ==
  ASSUME ~LateWork, WorkInv, [Next]_vars
  PROVE  WorkInv'
  BY BindNext, AskedNext, RefNext, TreesStep, WorkNext DEF WorkInv

\* What a driver wrote is in master, on a branch of the remote or still in a
\* container, whatever step of close, recycle or reap failed, was cancelled or
\* crashed, as long as no driver writes under a transition of its own session.
THEOREM WorkKept ==
  ASSUME ~LateWork
  PROVE  Spec => []WorkPreserved
  <1>1. ASSUME WorkInv  PROVE WorkPreserved
    <2> SUFFICES ASSUME NEW w \in Work, author[w] # None
                 PROVE  \/ OnRemote(w)
                        \/ \E n \in Names : conts[n] # None /\ w \in conts[n].tree
      BY DEF WorkPreserved, OnRemote
    <2>1. PICK s \in Sessions : s = author[w]
      BY <1>1 DEF WorkInv, BindInv, BranchInv, Inv, WorldOK
    <2>2. w \in Made /\ Listed(s) /\ Kept(w, s)  BY <1>1, <2>1 DEF Made, WorkInv, Works
    <2>3. outcome[s] \in {"none", "merged", "debt", "reaped"}
      BY <1>1 DEF WorkInv, BindInv, BranchInv, Inv, WorldOK
    <2>4. CASE outcome[s] = "none"
      <3>1. recs[s] # None /\ recs[s] \in BoundRecord /\ recs[s].branch \in Sessions
        BY <1>1, <2>2, <2>4 DEF Listed, WorkInv, BindInv, BranchInv, Inv, ControlInv, ControlOK,
                                Stores, BoundRecord, Record
      <3>2. Container(s, recs[s]) \in Names  BY <3>1, ContainerOK
      <3> QED  BY <2>2, <2>4, <3>1, <3>2 DEF Kept, Held, OnRemote
    <2> QED  BY <2>2, <2>3, <2>4 DEF Kept, OnRemote
  <1> QED  BY <1>1, WorkInvInit, WorkInvNext, PTL DEF Spec

\* The event log never lies about a session: merged means all its work is in
\* master, in debt or reaped that it is on the remote.
THEOREM OutcomesTrue ==
  ASSUME ~LateWork
  PROVE  Spec => []OutcomeTruthful
  <1>1. ASSUME WorkInv  PROVE OutcomeTruthful
    <2> SUFFICES ASSUME NEW w \in Work, author[w] # None
                 PROVE  /\ outcome[author[w]] = "merged" => w \in originMaster
                        /\ outcome[author[w]] \in {"debt", "reaped"} => OnRemote(w)
      BY DEF OutcomeTruthful, OnRemote
    <2>1. Kept(w, author[w])  BY <1>1 DEF WorkInv, Works, Made
    <2> QED  BY <2>1 DEF Kept
  <1> QED  BY <1>1, WorkInvInit, WorkInvNext, PTL DEF Spec

-----------------------------------------------------------------------------
(* Commits                                                                 *)

\* The branch a close removes has nothing that master lacks.
LEMMA RemoveKeeps ==
  ASSUME WorkInv, NEW t \in Tasks, CloseRemove(t), ~task[t].debt, NEW w, OnRemote(w)
  PROVE  OnRemote(w)'
  <1>1. Working(task[t]) /\ UNCHANGED originMaster  BY DEF CloseRemove, Working
  <1>2. PICK b \in Sessions : b = task[t].local.branch
    BY <1>1, WorkingRef DEF WorkInv
  <1>3. Covered(task[t], originMaster, mirrorMaster, originBranch, conts[Place(task[t])])
    BY <1>1 DEF WorkInv, Works
  <1>4. originBranch[b] \subseteq originMaster
    BY <1>2, <1>3 DEF CloseRemove, Covered
  <1>5. \A c \in Sessions \ {b} : originBranch'[c] = originBranch[c]
    <2>1. UNCHANGED originBranch \/ originBranch' = [originBranch EXCEPT ![b] = None]
      BY <1>2 DEF CloseRemove
    <2> QED  BY <2>1 DEF WorkInv, BindInv, BranchInv, Inv, WorldOK
  <1> QED  BY <1>1, <1>4, <1>5 DEF OnRemote

\* What was acknowledged is on the remote.
Acked == \A w \in acked : OnRemote(w)

LEMMA AckedStep ==
  ASSUME BindInv, Acked, [Next]_vars, \A w : OnRemote(w) => OnRemote(w)'
  PROVE  Acked'
  <1>1. ASSUME NEW s \in Sessions, NEW w \in Work, Commit(s, w)  PROVE Acked'
    <2>1. acked' = acked \cup {w} /\ DriverMayWrite(s, w) /\ Wrote(s, w)
      BY <1>1 DEF Commit
    <2>2. PICK n : n = Container(s, recs[s])  OBVIOUS
    <2>3. conts[n] # None /\ conts[n] \in Workspace
      BY <2>1, <2>2, DriverShape
    <2>4. PICK b \in Sessions : b = conts[n].branch  BY <2>3 DEF Workspace
    <2>5. PICK x : x = conts[n].tree \cup {w}  OBVIOUS
    <2>6. originBranch' = [originBranch EXCEPT ![b] = x]
      BY <1>1, <2>2, <2>4, <2>5 DEF Commit
    <2>7. x # None  BY <2>3, <2>5, NoneIsNoWorkspace DEF Workspace
    <2>8. originBranch'[b] = x
      BY <2>6 DEF BindInv, BranchInv, Inv, WorldOK
    <2>9. OnRemote(w)'  BY <2>5, <2>7, <2>8 DEF OnRemote
    <2> QED  BY <2>1, <2>9 DEF Acked
  <1>2. CASE \A s \in Sessions, w \in Work : ~Commit(s, w)
    <2>1. ASSUME NEW t \in Tasks, NEW s \in Sessions, Request(t, s)  PROVE UNCHANGED acked
      BY <2>1 DEF Request, OpenBegin, CloseBegin, RecycleBegin, FinishObserve, ReapObserve,
                  Claim, history
    <2>2. ASSUME NEW t \in Tasks, Locking(t)  PROVE UNCHANGED acked
      BY <2>2 DEF Locking, FinishBegin, ReapBegin, Claim, CloseMerge, RecycleFetch, history
    <2>3. ASSUME NEW t \in Tasks, Running(t)  PROVE UNCHANGED acked
      BY <2>3 DEF Running, OpenMirror, OpenImage, Layer, Create, Boot, Flush, Publish, Destroy,
                  CloseRemove, ReapRemove, RecycleRebind, WorkerDone, history
    <2>4. ASSUME NEW t \in Tasks, Cancel(t)  PROVE UNCHANGED acked
      BY <2>4 DEF Cancel, history
    <2>5. ASSUME NEW s \in Sessions, NEW w \in Work, Edit(s, w)  PROVE UNCHANGED acked
      BY <2>5 DEF Edit
    <2>6. ASSUME OthersPersist \/ Crash \/ Rest \/ UNCHANGED vars  PROVE UNCHANGED acked
      BY <2>6 DEF OthersPersist, Crash, Rest, vars, history
    <2>7. UNCHANGED acked
      BY <1>2, <2>1, <2>2, <2>3, <2>4, <2>5, <2>6 DEF Next
    <2> QED  BY <2>7 DEF Acked
  <1> QED  BY <1>1, <1>2

\* A commit the workspace acknowledged is on the remote for good: as long as no
\* driver writes under a transition of its own session, or for a server that
\* closes nothing.
THEOREM CommitsKept ==
  ASSUME ~LateWork \/ Kinds \cap {"close", "finish"} = {}
  PROVE  Spec => []CommitPreserved
  <1>1. Acked => CommitPreserved  BY DEF Acked, CommitPreserved, OnRemote
  <1>2. Init => Acked  BY DEF Init, Acked
  <1>3. CASE ~LateWork
    <2>1. ASSUME WorkInv, Acked, [Next]_vars  PROVE Acked'
      <3>1. \A w : OnRemote(w) => OnRemote(w)'
        BY <2>1, TreesStep, RemoteGrows, RemoveKeeps DEF WorkInv
      <3> QED  BY <2>1, <3>1, AckedStep DEF WorkInv
    <2> QED  BY <1>1, <1>2, <1>3, <2>1, WorkInvInit, WorkInvNext, PTL DEF Spec
  <1>4. CASE Kinds \cap {"close", "finish"} = {}
    <2> DEFINE I == BindInv /\ Asked /\ Refs /\ Contents /\ Acked
    <2>1. Init => I  BY <1>2, BindInit, RefInit, TreesInit
    <2>2. ASSUME I, [Next]_vars  PROVE I'
      <3>1. \A t \in Tasks : ~CloseRemove(t)
        BY <1>4, <2>2, WorkingKnows DEF CloseRemove, Working
      <3>2. \A w : OnRemote(w) => OnRemote(w)'
        BY <2>2, <3>1, TreesStep, RemoteGrows
      <3>3. Acked'  BY <2>2, <3>2, AckedStep
      <3> QED  BY <2>2, <3>3, BindNext, AskedNext, RefNext, TreesStep
    <2>3. I => Acked  OBVIOUS
    <2> HIDE DEF I
    <2> QED  BY <1>1, <2>1, <2>2, <2>3, PTL DEF Spec
  <1> QED  BY <1>3, <1>4

-----------------------------------------------------------------------------
(* The project's contract                                                  *)

\* What a step of the lifecycle writes of what the contract speaks of.
Silent == UNCHANGED <<author, originMaster, outcome>>

LEMMA QuietSteps ==
  ASSUME [Next]_vars
  PROVE  \/ Silent
         \/ \E t \in Tasks : Publish(t) \/ CloseRemove(t) \/ ReapRemove(t)
         \/ \E s \in Sessions, w \in Work : Edit(s, w) \/ Commit(s, w)
  <1>1. ASSUME NEW t \in Tasks, NEW s \in Sessions, Request(t, s)  PROVE Silent
    BY <1>1 DEF Silent, Request, OpenBegin, CloseBegin, RecycleBegin, FinishObserve,
                ReapObserve, Claim, git, history
  <1>2. ASSUME NEW t \in Tasks, Locking(t)  PROVE Silent
    BY <1>2 DEF Silent, Locking, FinishBegin, ReapBegin, Claim, CloseMerge, RecycleFetch,
                git, history
  <1>3. ASSUME NEW t \in Tasks, Running(t)
        PROVE  Silent \/ Publish(t) \/ CloseRemove(t) \/ ReapRemove(t)
    <2>1. CASE OpenMirror(t) \/ OpenImage(t) \/ Layer(t) \/ Create(t) \/ Boot(t)
      BY <2>1 DEF Silent, OpenMirror, OpenImage, Layer, Create, Boot, git, history
    <2>2. CASE Flush(t) \/ Destroy(t) \/ RecycleRebind(t) \/ WorkerDone(t)
      BY <2>2 DEF Silent, Flush, Destroy, RecycleRebind, WorkerDone, git, history
    <2> QED  BY <1>3, <2>1, <2>2 DEF Running
  <1>4. ASSUME NEW t \in Tasks, Cancel(t)  PROVE Silent
    BY <1>4 DEF Silent, Cancel, history
  <1>5. ASSUME OthersPersist \/ Crash \/ Rest \/ UNCHANGED vars  PROVE Silent
    BY <1>5 DEF Silent, OthersPersist, Crash, Rest, vars, git, history
  <1> QED
    BY <1>1, <1>2, <1>3, <1>4, <1>5 DEF Next

\* A driver's edit or commit produces, for a session that has not ended.
LEMMA DriverProduces ==
  ASSUME WorkInv, NEW s \in Sessions, NEW w \in Work, Edit(s, w) \/ Commit(s, w)
  PROVE  Contract!Produce(s, w)
  <1>1. /\ DriverMayWrite(s, w) /\ Wrote(s, w) /\ UNCHANGED <<originMaster, outcome>>
    BY DEF Edit, Commit, git
  <1>2. /\ recs[s] \in BoundRecord /\ recs[s] # None
        /\ conts[Container(s, recs[s])] # None /\ Fit(s, recs[s], conts)
    BY <1>1, DriverShape DEF DriverMayWrite, WorkInv, BindInv, Bindings
  <1>3. outcome[s] = "none"  BY <1>2, ListedAlive DEF WorkInv
  <1> QED  BY <1>1, <1>3 DEF DriverMayWrite, Wrote, Contract!Produce

\* A push of master lands work that was produced.
LEMMA PublishLands ==
  ASSUME WorkInv, NEW t \in Tasks, Publish(t)
  PROVE  Contract!Land
  <1>1. UNCHANGED <<author, outcome>> /\ originMaster' \in {originMaster, mirrorMaster}
    BY DEF Publish, history
  <1>2. originMaster \subseteq mirrorMaster
    BY WorkingRef DEF RefOK, Publish, Working, WorkInv
  <1>3. Made = Contract!Produced /\ mirrorMaster \subseteq Made /\ originMaster \subseteq Made
    BY DEF Made, Contract!Produced, WorkInv, Contents
  <1>4. originMaster' \in SUBSET Contract!Produced /\ originMaster' = originMaster \cup originMaster'
    BY <1>1, <1>2, <1>3
  <1> QED  BY <1>1, <1>4 DEF Contract!Land

\* A close or a reap ends a session that had not ended, and says how.
LEMMA RemoveEnds ==
  ASSUME WorkInv, NEW t \in Tasks, CloseRemove(t) \/ ReapRemove(t)
  PROVE  \E s \in Sessions, how \in {"merged", "debt", "reaped"} : Contract!End(s, how)
  <1>0. PICK s \in Sessions : s = task[t].sid
    BY WorkingKnows DEF CloseRemove, ReapRemove, Working, WorkInv
  <1>1. /\ Working(task[t]) /\ task[t].pc = "remove"
        /\ UNCHANGED <<originMaster, author>>
    BY DEF CloseRemove, ReapRemove, Working, git
  <1>2. PICK b \in Sessions : b = task[t].local.branch  BY <1>1, WorkingRef DEF WorkInv
  <1>3. /\ recs[s] # None /\ recs[s].branch = b
        /\ outcome[s] = "none" /\ conts[Container(s, recs[s])] = None
    BY <1>0, <1>1, <1>2, WorkingRef, WorkingKnows
    DEF Knows, Vacant, Same, Place, Container, WorkInv
  <1>4. PICK how \in {"merged", "debt", "reaped"} :
          /\ outcome' = [outcome EXCEPT ![s] = how]
          /\ how = "merged" => CloseRemove(t) /\ ~task[t].debt
    BY <1>0 DEF CloseRemove, ReapRemove
  <1>5. ASSUME how = "merged", NEW w \in Contract!Of(s)  PROVE w \in originMaster
    <2>1. originBranch[b] \subseteq originMaster
      <3>1. Covered(task[t], originMaster, mirrorMaster, originBranch, conts[Place(task[t])])
        BY <1>1 DEF WorkInv, Works
      <3> QED  BY <1>1, <1>2, <1>4, <1>5, <3>1 DEF CloseRemove, Covered
    <2>2. w \in Made /\ author[w] = s
      BY <1>5, ConstantsAssumption DEF Contract!Of, Made
    <2>3. Held(w, s)  BY <1>3, <2>2 DEF WorkInv, Works, Kept
    <2> QED  BY <1>3, <2>1, <2>3 DEF Held
  <1> QED  BY <1>1, <1>3, <1>4, <1>5 DEF Contract!End

\* The lifecycle, whatever fails or crashes, keeps the project's promise: it is an
\* implementation of ProjectContract, master read as the remote's.
THEOREM LifecycleImplementsContract ==
  ASSUME ~LateWork
  PROVE  Spec => ImplementsContract
  <1>1. Init => Contract!Init  BY DEF Init, Contract!Init
  <1>2. ASSUME WorkInv, [Next]_vars  PROVE [Contract!Next]_(Contract!vars)
    <2>1. CASE Silent  BY <2>1 DEF Silent, Contract!vars
    <2>2. ASSUME NEW t \in Tasks, Publish(t) \/ CloseRemove(t) \/ ReapRemove(t)
          PROVE  Contract!Next
      BY <1>2, <2>2, PublishLands, RemoveEnds DEF Contract!Next
    <2>3. ASSUME NEW s \in Sessions, NEW w \in Work, Edit(s, w) \/ Commit(s, w)
          PROVE  Contract!Next
      BY <1>2, <2>3, DriverProduces DEF Contract!Next
    <2> QED  BY <1>2, <2>1, <2>2, <2>3, QuietSteps
  <1> QED
    BY <1>1, <1>2, WorkInvInit, WorkInvNext, PTL DEF Spec, ImplementsContract, Contract!Spec

-----------------------------------------------------------------------------
(* What the contract says of itself                                        *)

LEMMA ContractStep ==
  ASSUME Contract!TypeOK, Contract!MergedIsInMaster, [Contract!Next]_(Contract!vars)
  PROVE  Contract!TypeOK' /\ Contract!MergedIsInMaster'
  <1> USE DEF Contract!TypeOK, Contract!MergedIsInMaster, Contract!Produced, Contract!Of
  <1>1. ASSUME NEW s \in Sessions, NEW w \in Work, Contract!Produce(s, w)
        PROVE  Contract!TypeOK' /\ Contract!MergedIsInMaster'
    BY <1>1, ConstantsAssumption DEF Contract!Produce
  <1>2. CASE Contract!Land
    <2>1. PICK W \in SUBSET Contract!Produced : originMaster' = originMaster \cup W
      BY <1>2 DEF Contract!Land
    <2> QED  BY <1>2, <2>1 DEF Contract!Land
  <1>3. ASSUME NEW s \in Sessions, NEW how \in {"merged", "debt", "reaped"},
               Contract!End(s, how)
        PROVE  Contract!TypeOK' /\ Contract!MergedIsInMaster'
    BY <1>3 DEF Contract!End
  <1>4. CASE UNCHANGED Contract!vars  BY <1>4 DEF Contract!vars
  <1> QED  BY <1>1, <1>2, <1>3, <1>4 DEF Contract!Next

\* Whatever implements the contract (sessions.rs close_expected, reaper.rs): a
\* session reported merged stays entirely in master, and master holds nothing
\* nobody produced.
THEOREM MergedStaysInMaster == Contract!Spec => []Contract!MergedIsInMaster
  <1>1. Contract!Init => Contract!TypeOK /\ Contract!MergedIsInMaster
    BY DEF Contract!Init, Contract!TypeOK, Contract!MergedIsInMaster, Contract!Of,
           Contract!Produced
  <1> QED  BY <1>1, ContractStep, PTL DEF Contract!Spec

\* So does this control plane: what it ever reported as merged is in master now.
COROLLARY LifecycleKeepsMerged ==
  ASSUME ~LateWork
  PROVE  Spec => []Contract!MergedIsInMaster
  BY LifecycleImplementsContract, MergedStaysInMaster, PTL DEF ImplementsContract

=============================================================================
