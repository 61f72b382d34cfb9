-------------------------- MODULE SessionLifecycle --------------------------
(***************************************************************************)
(* The session lifecycle of one project, as the control plane runs it:     *)
(* open, close, recycle, the idle reaper, the IDE's finish, a crash of the *)
(* control plane and the hydration that follows it.                        *)
(*                                                                         *)
(* Code: sigiledd/src/sessions.rs, reaper.rs, merge.rs and the parts of    *)
(* runtime.rs, main.rs and ide.rs they call.                               *)
(*                                                                         *)
(* A git ref is the set of units of work its commits contain; a workspace  *)
(* container is the set of units its checkout contains, committed or not.  *)
(* A branch "session/{id}" is named by the identity that cut it.           *)
(***************************************************************************)
EXTENDS Naturals, FiniteSets

CONSTANTS
  Sessions,   \* session identities (128 random bits: never drawn twice)
  Legacy,     \* identities loaded from an old snapshot, without a binding
  Work,       \* units of work drivers produce
  Handlers,   \* tasks serving HTTP requests
  Reapers,    \* tasks running the reaper
  MaxGen,     \* the largest generation (u64::MAX in the code)
  Kinds,      \* requests the environment issues
  Faults,     \* kinds of failure the environment injects
  MaxFaults,  \* bound on the failures of one behaviour
  LateWork,   \* may a driver write while a transition runs on its session?
  None        \* absence: no record, no container, no ref

ASSUME ConstantsAssumption ==
  /\ None \notin Sessions
  /\ Legacy \subseteq Sessions
  /\ Handlers \cap Reapers = {}
  /\ MaxGen \in Nat \ {0}
  /\ MaxFaults \in Nat
  /\ LateWork \in BOOLEAN

VARIABLES
  recs,         \* SessionState.records
  debts,        \* SessionState.debts: the branches in merge debt
  disk,         \* the snapshot the store last renamed into place
  task,         \* one handler or reaper pass: where it stands, what it holds
  conts,        \* the containers docker runs
  originMaster, \* master on the remote
  originBranch, \* the session branches on the remote
  mirrorMaster, \* master in the control plane's mirror
  heads,        \* local session heads of the mirror
  used,         \* identities drawn so far
  author,       \* history: the session that produced a unit of work
  acked,        \* history: units whose commit the workspace acknowledged
  outcome,      \* the machine event log's last word on a session
  faults        \* failures injected so far

memory   == <<recs, debts>>
git      == <<originMaster, originBranch, mirrorMaster, heads>>
history  == <<used, author, acked, outcome>>
vars == <<recs, debts, disk, task, conts, originMaster, originBranch,
          mirrorMaster, heads, used, author, acked, outcome, faults>>

-----------------------------------------------------------------------------
(* Types *)

Tasks     == Handlers \cup Reapers
Lifecycle == {"creating", "active", "recycling", "closing", "failed"}
Failure   == {"none", "legacy_ownership_ambiguous", "interrupted", "other"}
Record    == [branch: Sessions, gen: 0..MaxGen, life: Lifecycle,
              bound: BOOLEAN, owned: BOOLEAN, err: Failure]

ASSUME NoneIsNoRecord == None \notin Record

\* A container name: vm-s-{id}-g{generation}, or the legacy alias vm-{project}.
Alias     == <<None, 0>>
Names     == (Sessions \X (1..MaxGen)) \cup {Alias}
Workspace == [branch: Sessions, tree: SUBSET Work, booted: BOOLEAN]

ASSUME NoneIsNoWorkspace == None \notin Workspace /\ \A tree \in SUBSET Work : tree # None

Pcs       == {"idle", "observed", "orphan", "flush", "mirror", "image", "layer",
              "create", "boot", "publish", "destroy", "remove",
              "mirror_worker", "session_worker"}
TaskKinds == {"none", "open", "open_human", "close", "finish", "recycle", "reap"}
Idle      == [pc |-> "idle", kind |-> "none", sid |-> None, seen |-> 0,
              local |-> None, debt |-> FALSE]

\* SessionRecord::container
Container(s, r) == IF r.bound THEN <<s, r.gen>> ELSE Alias

-----------------------------------------------------------------------------
(* Locks: SessionState::session_lock(id), then SessionState::merge_lock.   *)
(* Where a task stands says which guards it owns. A worker is a blocking   *)
(* build whose request was cancelled: it keeps the guard moved into it.    *)

HoldsSession(t, s) ==
  /\ task[t].sid = s
  /\ task[t].pc \notin {"idle", "observed", "mirror_worker"}

HoldsMerge(t) ==
  \/ task[t].pc \in {"orphan", "image", "publish", "mirror_worker"}
  \/ task[t].pc \in {"destroy", "remove"} /\ task[t].kind # "reap"

\* Mutant: the reaper takes no session lock.
SessionFreeOfHandlers(s) == \A t \in Handlers : ~HoldsSession(t, s)

SessionFree(s) == \A t \in Tasks : ~HoldsSession(t, s)
MergeFree      == \A t \in Tasks : ~HoldsMerge(t)

Goto(t, pc)  == task' = [task EXCEPT ![t].pc = pc]
Release(t)   == task' = [task EXCEPT ![t] = Idle]

-----------------------------------------------------------------------------
(* Persistence and failure *)

Inject(f) == f \in Faults /\ faults < MaxFaults /\ faults' = faults + 1
NoFault   == UNCHANGED faults

\* AppState::try_persist writes the whole of memory in one rename.
Saved      == disk' = [recs |-> recs', debts |-> debts']
\* AppState::persist: the same, its failure only logged.
MaybeSaved == Saved \/ ("persist" \in Faults /\ UNCHANGED disk)

Mark(r, s, life, err) == [r EXCEPT ![s] = [@ EXCEPT !.life = life, !.err = err]]

\* Mutant: a failure releases the guards and leaves the record as it stands.
FailedQuietly(t, s, code, r, d) ==
  /\ recs' = r
  /\ debts' = d
  /\ Release(t)

\* sessions::failure: mark the record failed, persist as well as may be, answer
\* 409; returning drops every guard.
Failed(t, s, code, r, d) ==
  /\ recs' = Mark(r, s, "failed", code)
  /\ debts' = d
  /\ Release(t)

Fail(t, s, code, r, d) == Failed(t, s, code, r, d) /\ MaybeSaved

\* put / mark, then try_persist: go on as "next", or fail with persist_failed. A
\* persist that failed may have replaced the file: the directory sync comes last.
TryPersist(t, s, r, d, next) ==
  \/ /\ recs' = r
     /\ debts' = d
     /\ Saved
     /\ NoFault
     /\ task' = [task EXCEPT ![t] = next]
  \/ /\ Inject("persist")
     /\ Failed(t, s, "other", r, d)
     /\ MaybeSaved \/ disk' = [recs |-> r, debts |-> d]

\* A step that fails where it stands, for an injected cause or a real one.
FailInjected(t, f, s) == Inject(f) /\ Fail(t, s, "other", recs, debts)
FailHere(t, s)        == NoFault /\ Fail(t, s, "other", recs, debts)

-----------------------------------------------------------------------------
(* Initial state: a control plane booted on a snapshot that holds nothing  *)
(* but legacy records, all claiming the project's one legacy container.    *)

LegacyRecord(s) ==
  [branch |-> s, gen |-> 0, life |-> "active", bound |-> FALSE,
   owned |-> TRUE, err |-> "none"]

\* SessionState::hydrate
Hydrate(r) ==
  LET claims == {s \in Sessions : r[s] # None /\ ~r[s].bound}
  IN [s \in Sessions |->
       IF r[s] = None THEN None
       ELSE IF s \in claims /\ Cardinality(claims) > 1
         THEN [r[s] EXCEPT !.life = "failed", !.err = "legacy_ownership_ambiguous"]
       ELSE IF r[s].life \in {"creating", "closing", "recycling"}
         THEN [r[s] EXCEPT !.life = "failed", !.err = "interrupted"]
       ELSE r[s]]

Init ==
  LET old == [s \in Sessions |-> IF s \in Legacy THEN LegacyRecord(s) ELSE None]
  IN  /\ recs = Hydrate(old)
      /\ debts = {}
      /\ disk = [recs |-> old, debts |-> {}]
      /\ task = [t \in Tasks |-> Idle]
      /\ originMaster = {}
      /\ originBranch = [s \in Sessions |-> IF s \in Legacy THEN {} ELSE None]
      /\ \/ Legacy = {} /\ conts = [n \in Names |-> None]
         \/ \E s \in Legacy :
              conts = [n \in Names |->
                 IF n = Alias
                   THEN [branch |-> s, tree |-> {}, booted |-> TRUE]
                   ELSE None]
      /\ mirrorMaster = {}
      /\ heads = {}
      /\ used = Legacy
      /\ author = [w \in Work |-> None]
      /\ acked = {}
      /\ outcome = [s \in Sessions |-> "none"]
      /\ faults = 0

-----------------------------------------------------------------------------
(* open_inner *)

NewRecord(s) ==
  [branch |-> s, gen |-> 1, life |-> "creating", bound |-> TRUE,
   owned |-> FALSE, err |-> "none"]

\* Lock the fresh identity, then the project; refuse a human allocation under
\* debt; write the creating record before anything is allocated.
OpenBegin(t, s, kind) ==
  /\ t \in Handlers
  /\ task[t] = Idle
  /\ s \notin used
  /\ recs[s] = None
  /\ SessionFree(s)
  /\ MergeFree
  /\ kind = "open_human" => debts = {}
  /\ used' = used \cup {s}
  /\ TryPersist(t, s, [recs EXCEPT ![s] = NewRecord(s)], debts,
       [Idle EXCEPT !.pc = "orphan", !.kind = kind, !.sid = s,
                    !.local = NewRecord(s)])
  /\ UNCHANGED <<conts, git, author, acked, outcome>>

\* Mutant: a branch counts as taken only when an active record names it.
OrphansOfLive ==
  {b \in Sessions : /\ b \in heads \/ originBranch[b] # None
                    /\ b \notin debts
                    /\ \A s \in Sessions :
                         recs[s] # None /\ recs[s].life = "active" => recs[s].branch # b}

\* find_orphan: a session branch of the mirror or the remote that is no debtor
\* and belongs to no record.
Orphans ==
  {b \in Sessions : /\ b \in heads \/ originBranch[b] # None
                    /\ b \notin debts
                    /\ \A s \in Sessions : recs[s] # None => recs[s].branch # b}

\* ensure_mirror, then resume an orphan if there is one and the caller may.
OpenMirror(t) ==
  LET s == task[t].sid
      Take(b) ==
        LET l == [task[t].local EXCEPT !.branch = b]
        IN  /\ mirrorMaster' = originMaster
            /\ TryPersist(t, s, [recs EXCEPT ![s] = l], debts,
                 [task[t] EXCEPT !.pc = "image", !.local = l])
  IN  /\ task[t].pc = "orphan"
      /\ \/ FailInjected(t, "mirror", s) /\ UNCHANGED mirrorMaster
         \/ IF task[t].kind = "open" /\ Orphans # {}
              THEN \E b \in Orphans : Take(b)
              ELSE Take(task[t].local.branch)
      /\ UNCHANGED <<conts, originMaster, originBranch, heads, history>>

\* session_image_locked returned the mirror guard; open drops it here.
OpenImage(t) ==
  /\ task[t].pc = "image"
  /\ task[t].kind \in {"open", "open_human"}
  /\ \/ FailInjected(t, "image", task[t].sid)
     \/ Goto(t, "layer") /\ NoFault /\ UNCHANGED <<memory, disk>>
  /\ UNCHANGED <<conts, git, history>>

-----------------------------------------------------------------------------
(* The tail open and recycle share: IDE layer, container, bootstrap.       *)

\* prepare_layer came back: put the record with its image. Only here does a
\* recycle put the lifecycle "recycling" back over the one it read at first.
Layer(t) ==
  LET s == task[t].sid
      l == IF task[t].kind = "recycle"
             THEN [task[t].local EXCEPT !.owned = FALSE, !.life = "recycling"]
             ELSE task[t].local
  IN  /\ task[t].pc = "layer"
      /\ TryPersist(t, s, [recs EXCEPT ![s] = l], debts,
           [task[t] EXCEPT !.pc = "create", !.local = l])
      /\ UNCHANGED <<conts, git, history>>

\* docker create owns the name atomically: an incumbent is never touched.
Allocate(n, b) ==
  /\ conts[n] = None
  /\ conts' = [conts EXCEPT ![n] = [branch |-> b, tree |-> {}, booted |-> FALSE]]

Create(t) ==
  LET s == task[t].sid
      n == Container(s, task[t].local)
      l == [task[t].local EXCEPT !.owned = TRUE]
  IN  /\ task[t].pc = "create"
      /\ \/ /\ \/ FailInjected(t, "docker", s)
               \/ conts[n] # None /\ FailHere(t, s)
            /\ UNCHANGED conts
         \/ /\ Allocate(n, l.branch)
            /\ TryPersist(t, s, [recs EXCEPT ![s] = l], debts,
                 [task[t] EXCEPT !.pc = "boot", !.local = l])
      /\ UNCHANGED <<git, history>>

\* boot_workspace: clone, then check out the branch when resuming, or cut it
\* from master and push it at once.
Resumes(t) == task[t].kind = "recycle" \/ task[t].local.branch # task[t].sid

Bootstrap(t) ==
  LET b == task[t].local.branch
      n == Container(task[t].sid, task[t].local)
      tree == IF Resumes(t) THEN originBranch[b] ELSE originMaster
  IN  /\ Resumes(t) => originBranch[b] # None
      /\ conts[n] # None
      /\ conts' = [conts EXCEPT ![n].tree = tree, ![n].booted = TRUE]
      /\ originBranch' = [originBranch EXCEPT ![b] = tree]

Boot(t) ==
  LET s == task[t].sid
      l == [task[t].local EXCEPT !.life = "active", !.err = "none"]
      missing == Resumes(t) /\ originBranch[l.branch] = None
  IN  /\ task[t].pc = "boot"
      /\ \/ Bootstrap(t) /\ TryPersist(t, s, [recs EXCEPT ![s] = l], debts, Idle)
         \/ /\ FailInjected(t, "boot", s)
            /\ Bootstrap(t) \/ UNCHANGED <<conts, originBranch>>
         \/ missing /\ FailHere(t, s) /\ UNCHANGED <<conts, originBranch>>
      /\ UNCHANGED <<originMaster, mirrorMaster, heads, history>>

-----------------------------------------------------------------------------
(* What close, recycle and reap check under the session lock before they   *)
(* mark the record and persist their intent.                               *)

\* Mutant: a record that owns its container may act on it.
BindingTrusted(s) == recs[s].owned

\* SessionState::binding_safe
BindingSafe(s) ==
  /\ recs[s].err # "legacy_ownership_ambiguous"
  /\ \A o \in Sessions \ {s} :
       recs[o] # None => Container(o, recs[o]) # Container(s, recs[s])

\* Mutant: the last generation is taken for one that has a successor.
ExhaustedLate(s, kind) == kind = "recycle" /\ recs[s].gen > MaxGen

Exhausted(s, kind) == kind = "recycle" /\ recs[s].gen = MaxGen

Claim(t, s, kind, seen, life) ==
  /\ \/ /\ ~BindingSafe(s)
        /\ NoFault
        /\ Fail(t, s, "legacy_ownership_ambiguous", recs, debts)
     \/ /\ BindingSafe(s)
        /\ ~recs[s].owned \/ Exhausted(s, kind)
        /\ FailHere(t, s)
     \/ /\ BindingSafe(s)
        /\ recs[s].owned
        /\ ~Exhausted(s, kind)
        /\ TryPersist(t, s, Mark(recs, s, life, "none"), debts,
             [Idle EXCEPT !.pc = "flush", !.kind = kind, !.sid = s,
                          !.seen = seen, !.local = recs[s]])
  /\ UNCHANGED <<conts, git, history>>

CloseBegin(t, s) ==
  /\ t \in Handlers
  /\ task[t] = Idle
  /\ recs[s] # None
  /\ SessionFree(s)
  /\ Claim(t, s, "close", recs[s].gen, "closing")

RecycleBegin(t, s) ==
  /\ t \in Handlers
  /\ task[t] = Idle
  /\ recs[s] # None
  /\ SessionFree(s)
  /\ Claim(t, s, "recycle", recs[s].gen, "recycling")

\* The checkpoint: everything in the workspace is committed and pushed, unless
\* the remote branch holds something the workspace lacks.
CanPush(n) ==
  /\ conts[n] # None
  /\ conts[n].booted
  /\ \/ originBranch[conts[n].branch] = None
     \/ originBranch[conts[n].branch] \subseteq conts[n].tree

\* Mutant: the checkpoint commits and does not push.
PushedNothing(n) == originBranch

Pushed(n) == [originBranch EXCEPT ![conts[n].branch] = conts[n].tree]

Observed(t, s, kind) ==
  task' = [task EXCEPT ![t] = [Idle EXCEPT !.pc = "observed", !.kind = kind,
                                           !.sid = s, !.seen = recs[s].gen]]

\* ide::operation_inner, action "finish": the companion checkpoints under the
\* session guard, the guard is dropped, close runs for that generation.
FinishObserve(t, s) ==
  /\ t \in Handlers
  /\ task[t] = Idle
  /\ recs[s] # None
  /\ SessionFree(s)
  /\ recs[s].life = "active" /\ recs[s].owned /\ BindingSafe(s)
  /\ CanPush(Container(s, recs[s]))
  /\ originBranch' = Pushed(Container(s, recs[s]))
  /\ Observed(t, s, "finish")
  /\ UNCHANGED <<memory, disk, conts, originMaster, mirrorMaster, heads, history, faults>>

FinishBegin(t) ==
  LET s == task[t].sid
  IN  /\ task[t].pc = "observed"
      /\ task[t].kind = "finish"
      /\ SessionFree(s)
      /\ IF recs[s] # None /\ recs[s].gen = task[t].seen
           THEN Claim(t, s, "finish", task[t].seen, "closing")
           ELSE Release(t) /\ UNCHANGED <<memory, disk, conts, git, history, faults>>

\* reap_pass: a live record found idle, read without any lock.
ReapObserve(t, s) ==
  /\ t \in Reapers
  /\ task[t] = Idle
  /\ recs[s] # None
  /\ recs[s].life = "active"
  /\ conts[Container(s, recs[s])] # None
  /\ Observed(t, s, "reap")
  /\ UNCHANGED <<memory, disk, conts, git, history, faults>>

\* Mutant: any active generation will do.
ReapBeginUnchecked(t) ==
  LET s == task[t].sid
  IN  /\ task[t].pc = "observed"
      /\ task[t].kind = "reap"
      /\ SessionFree(s)
      /\ recs[s] # None /\ recs[s].life = "active"
      /\ Claim(t, s, "reap", task[t].seen, "closing")

\* reap_generation_min: the record must still be the one observed, and still
\* idle on a second reading under the guard.
ReapBegin(t) ==
  LET s == task[t].sid
      current == /\ recs[s] # None
                 /\ recs[s].gen = task[t].seen
                 /\ recs[s].life = "active"
  IN  /\ task[t].pc = "observed"
      /\ task[t].kind = "reap"
      /\ SessionFree(s)
      /\ \/ current /\ Claim(t, s, "reap", task[t].seen, "closing")
         \/ /\ current => BindingSafe(s) /\ recs[s].owned
            /\ Release(t)
            /\ UNCHANGED <<memory, disk, conts, git, history, faults>>

-----------------------------------------------------------------------------
(* Steps that close, recycle and reap share *)

Runtime(t) == Container(task[t].sid, task[t].local)

Flush(t) ==
  LET s == task[t].sid
      n == Runtime(t)
  IN  /\ task[t].pc = "flush"
      /\ \/ /\ CanPush(n)
            /\ originBranch' = Pushed(n)
            /\ Goto(t, IF task[t].kind = "reap" THEN "destroy" ELSE "mirror")
            /\ NoFault
            /\ UNCHANGED <<memory, disk>>
         \/ /\ FailInjected(t, "flush", s)
            /\ \/ UNCHANGED originBranch
               \/ CanPush(n) /\ originBranch' = Pushed(n)
         \/ ~CanPush(n) /\ FailHere(t, s) /\ UNCHANGED originBranch
      /\ UNCHANGED <<conts, originMaster, mirrorMaster, heads, history>>

\* Take the project lock and refresh the mirror; the branch is fetched if the
\* remote has it, and the caller goes on under the lock.
FetchFails(t) ==
  LET s == task[t].sid
  IN  /\ \/ FailInjected(t, "mirror", s) /\ UNCHANGED mirrorMaster
         \/ /\ originBranch[task[t].local.branch] = None
            /\ FailHere(t, s)
            /\ mirrorMaster' = originMaster
      /\ UNCHANGED heads

Fetched(t) ==
  LET b == task[t].local.branch
  IN  /\ originBranch[b] # None
      /\ heads' = heads \cup {b}
      /\ NoFault
      /\ UNCHANGED <<memory, disk>>

-----------------------------------------------------------------------------
(* close_expected *)

\* Mutant: the ancestry test asks whether master is behind the branch.
CloseOutcomesSwapped(m, b) ==
  IF m \subseteq b THEN {[master |-> m, debt |-> FALSE]}
  ELSE IF b \subseteq m THEN {[master |-> b, debt |-> FALSE]}
  ELSE {[master |-> m \cup b, debt |-> FALSE], [master |-> m, debt |-> TRUE]}

\* close_merge of branch b into master m: nothing new, fast-forward, or, once
\* both have moved, a three-way merge or a conflict.
CloseOutcomes(m, b) ==
  IF b \subseteq m THEN {[master |-> m, debt |-> FALSE]}
  ELSE IF m \subseteq b THEN {[master |-> b, debt |-> FALSE]}
  ELSE {[master |-> m \cup b, debt |-> FALSE], [master |-> m, debt |-> TRUE]}

CloseMerge(t) ==
  /\ task[t].pc = "mirror"
  /\ task[t].kind \in {"close", "finish"}
  /\ MergeFree
  /\ \/ FetchFails(t)
     \/ /\ Fetched(t)
        /\ \E o \in CloseOutcomes(originMaster, originBranch[task[t].local.branch]) :
             /\ mirrorMaster' = o.master
             /\ task' = [task EXCEPT ![t] = [@ EXCEPT !.pc = "publish", !.debt = o.debt]]
  /\ UNCHANGED <<conts, originMaster, originBranch, history>>

\* Mutant: master is merged in the mirror and never pushed.
PublishUnpushed(t) ==
  /\ task[t].pc = "publish"
  /\ TryPersist(t, task[t].sid, recs,
       IF task[t].debt THEN debts \cup {task[t].local.branch} ELSE debts,
       [task[t] EXCEPT !.pc = "destroy"])
  /\ UNCHANGED <<conts, git, history>>

\* Push master or record the debt; then persist, before any cleanup.
Publish(t) ==
  LET s == task[t].sid
      next == [task[t] EXCEPT !.pc = "destroy"]
  IN  /\ task[t].pc = "publish"
      /\ \/ /\ task[t].debt
            /\ TryPersist(t, s, recs, debts \cup {task[t].local.branch}, next)
            /\ UNCHANGED originMaster
         \/ /\ ~task[t].debt
            /\ originMaster \subseteq mirrorMaster
            /\ originMaster' = mirrorMaster
            /\ TryPersist(t, s, recs, debts, next)
         \/ /\ ~task[t].debt
            /\ \/ FailInjected(t, "push", s) /\ originMaster' \in {originMaster, mirrorMaster}
               \/ /\ ~(originMaster \subseteq mirrorMaster)
                  /\ FailHere(t, s)
                  /\ UNCHANGED originMaster
      /\ UNCHANGED <<conts, originBranch, mirrorMaster, heads, history>>

Destroy(t) ==
  LET s == task[t].sid
  IN  /\ task[t].pc = "destroy"
      /\ \/ FailInjected(t, "docker", s) /\ UNCHANGED conts
         \/ /\ conts' = [conts EXCEPT ![Runtime(t)] = None]
            /\ Goto(t, "remove")
            /\ NoFault
            /\ UNCHANGED <<memory, disk>>
      /\ UNCHANGED <<git, history>>

\* Mutant: the branch is deleted whether or not it was merged.
CloseRemoveInDebt(t) ==
  LET s == task[t].sid
      b == task[t].local.branch
  IN  /\ task[t].pc = "remove"
      /\ task[t].kind \in {"close", "finish"}
      /\ debts' = IF task[t].debt THEN debts ELSE debts \ {b}
      /\ heads' = heads \ {b}
      /\ originBranch' = [originBranch EXCEPT ![b] = None]
      /\ recs' = [recs EXCEPT ![s] = None]
      /\ outcome' = [outcome EXCEPT ![s] = IF task[t].debt THEN "debt" ELSE "merged"]
      /\ MaybeSaved
      /\ Release(t)
      /\ UNCHANGED <<conts, originMaster, mirrorMaster, used, author, acked, faults>>

\* Drop the merged branch (a refused remote delete is ignored), clear its debt,
\* drop the record, log the event; this last persist may fail unnoticed.
CloseRemove(t) ==
  LET s == task[t].sid
      b == task[t].local.branch
  IN  /\ task[t].pc = "remove"
      /\ task[t].kind \in {"close", "finish"}
      /\ IF task[t].debt
           THEN /\ debts' = debts
                /\ UNCHANGED <<originBranch, heads, faults>>
           ELSE /\ debts' = debts \ {b}
                /\ heads' = heads \ {b}
                /\ \/ originBranch' = [originBranch EXCEPT ![b] = None] /\ NoFault
                   \/ Inject("push") /\ UNCHANGED originBranch
      /\ recs' = [recs EXCEPT ![s] = None]
      /\ outcome' = [outcome EXCEPT ![s] = IF task[t].debt THEN "debt" ELSE "merged"]
      /\ MaybeSaved
      /\ Release(t)
      /\ UNCHANGED <<conts, originMaster, mirrorMaster, used, author, acked>>

\* Mutant: a reaped session leaves no branch behind.
ReapRemoveBranch(t) ==
  LET s == task[t].sid
  IN  /\ task[t].pc = "remove"
      /\ task[t].kind = "reap"
      /\ recs' = [recs EXCEPT ![s] = None]
      /\ debts' = debts
      /\ originBranch' = [originBranch EXCEPT ![task[t].local.branch] = None]
      /\ outcome' = [outcome EXCEPT ![s] = "reaped"]
      /\ MaybeSaved
      /\ Release(t)
      /\ UNCHANGED <<conts, originMaster, mirrorMaster, heads, used, author, acked, faults>>

\* reap_generation_min after the destroy: the branch stays, an orphan.
ReapRemove(t) ==
  LET s == task[t].sid
  IN  /\ task[t].pc = "remove"
      /\ task[t].kind = "reap"
      /\ recs' = [recs EXCEPT ![s] = None]
      /\ debts' = debts
      /\ outcome' = [outcome EXCEPT ![s] = "reaped"]
      /\ MaybeSaved
      /\ Release(t)
      /\ UNCHANGED <<conts, git, used, author, acked, faults>>

-----------------------------------------------------------------------------
(* recycle *)

RecycleFetch(t) ==
  /\ task[t].pc = "mirror"
  /\ task[t].kind = "recycle"
  /\ MergeFree
  /\ \/ FetchFails(t)
     \/ Fetched(t) /\ mirrorMaster' = originMaster /\ Goto(t, "image")
  /\ UNCHANGED <<conts, originMaster, originBranch, history>>

\* Mutant: the next generation is bound beside the old container.
RecycleRebindBeside(t) ==
  LET s == task[t].sid
      l == [task[t].local EXCEPT !.gen = @ + 1, !.bound = TRUE, !.owned = FALSE]
  IN  /\ task[t].pc = "image"
      /\ task[t].kind = "recycle"
      /\ TryPersist(t, s, [recs EXCEPT ![s] = l], debts,
           [task[t] EXCEPT !.pc = "layer", !.local = l])
      /\ UNCHANGED <<conts, git, history>>

\* The image is ready: destroy the old container, then put and persist the next
\* binding. The record put is the local copy, which still carries the lifecycle
\* read before it was marked "recycling". The project lock ends here.
RecycleRebind(t) ==
  LET s == task[t].sid
      l == [task[t].local EXCEPT !.gen = @ + 1, !.bound = TRUE, !.owned = FALSE]
  IN  /\ task[t].pc = "image"
      /\ task[t].kind = "recycle"
      /\ \/ (FailInjected(t, "image", s) \/ FailInjected(t, "docker", s)) /\ UNCHANGED conts
         \/ /\ conts' = [conts EXCEPT ![Runtime(t)] = None]
            /\ TryPersist(t, s, [recs EXCEPT ![s] = l], debts,
                 [task[t] EXCEPT !.pc = "layer", !.local = l])
      /\ UNCHANGED <<git, history>>

-----------------------------------------------------------------------------
(* The environment: drivers, disconnecting clients, a crash.               *)

\* The driver of a session writes in its workspace.
DriverMayWrite(s, w) ==
  /\ author[w] = None
  /\ recs[s] # None
  /\ conts[Container(s, recs[s])] # None
  /\ conts[Container(s, recs[s])].booted
  /\ LateWork \/ SessionFree(s)

Wrote(s, w) ==
  /\ conts' = [conts EXCEPT ![Container(s, recs[s])].tree = @ \cup {w}]
  /\ author' = [author EXCEPT ![w] = s]

Edit(s, w) ==
  /\ DriverMayWrite(s, w)
  /\ Wrote(s, w)
  /\ UNCHANGED <<memory, disk, task, git, used, acked, outcome, faults>>

\* POST /git/commit: add, commit and push everything, acknowledge the sha.
Commit(s, w) ==
  LET n == Container(s, recs[s])
  IN  /\ DriverMayWrite(s, w)
      /\ CanPush(n)
      /\ Wrote(s, w)
      /\ originBranch' = [originBranch EXCEPT ![conts[n].branch] = conts[n].tree \cup {w}]
      /\ acked' = acked \cup {w}
      /\ UNCHANGED <<memory, disk, task, originMaster, mirrorMaster, heads, used,
                     outcome, faults>>

\* A client that disconnects drops its handler at an await. Guards moved into a
\* blocking build outlive it; browser allocation and finish run detached.
Cancel(t) ==
  /\ task[t].kind \in {"open", "close", "recycle"}
  /\ Inject("cancel")
  /\ \/ /\ task[t].pc \in {"flush", "mirror", "boot"}
        /\ Release(t)
        /\ \/ UNCHANGED <<conts, originBranch>>
           \/ task[t].pc = "boot" /\ Bootstrap(t)
     \/ /\ task[t].pc = "image"
        /\ Goto(t, "mirror_worker")
        /\ UNCHANGED <<conts, originBranch>>
     \/ /\ task[t].pc = "layer"
        /\ Goto(t, "session_worker")
        /\ UNCHANGED <<conts, originBranch>>
  /\ UNCHANGED <<memory, disk, originMaster, mirrorMaster, heads, history>>

\* Mutant: a cancelled image build never gives the project lock back.
WorkerLeaksMirror(t) ==
  /\ task[t].pc = "session_worker"
  /\ Release(t)
  /\ UNCHANGED <<memory, disk, conts, git, history, faults>>

WorkerDone(t) ==
  /\ task[t].pc \in {"mirror_worker", "session_worker"}
  /\ Release(t)
  /\ UNCHANGED <<memory, disk, conts, git, history, faults>>

\* Other parts of the control plane persist the whole of memory too, which makes
\* up for a snapshot that this part failed to write.
OthersPersist == UNCHANGED <<memory, task, conts, git, history, faults>> /\ Saved

\* The process dies; hydrate_from_disk runs at the next boot. Containers, the
\* remote and the mirror outlive it.
Crash ==
  /\ Inject("crash")
  /\ task' = [t \in Tasks |-> Idle]
  /\ recs' = Hydrate(disk.recs)
  /\ debts' = disk.debts
  /\ UNCHANGED <<disk, conts, git, history>>

\* Nothing in flight: the system may rest.
Rest == (\A t \in Tasks : task[t] = Idle) /\ UNCHANGED vars

-----------------------------------------------------------------------------
(* Specification *)

\* What a client, the reaper's timer or a driver may start.
Request(t, s) ==
  \/ \E k \in {"open", "open_human"} \cap Kinds : OpenBegin(t, s, k)
  \/ "close" \in Kinds /\ CloseBegin(t, s)
  \/ "recycle" \in Kinds /\ RecycleBegin(t, s)
  \/ "finish" \in Kinds /\ FinishObserve(t, s)
  \/ "reap" \in Kinds /\ ReapObserve(t, s)

\* Steps of a task that wait for a lock, and those that never wait.
Locking(t) == FinishBegin(t) \/ ReapBegin(t) \/ CloseMerge(t) \/ RecycleFetch(t)

Running(t) ==
  \/ OpenMirror(t) \/ OpenImage(t)
  \/ Layer(t) \/ Create(t) \/ Boot(t)
  \/ Flush(t) \/ Publish(t) \/ Destroy(t)
  \/ CloseRemove(t) \/ ReapRemove(t)
  \/ RecycleRebind(t)
  \/ WorkerDone(t)

Next ==
  \/ \E t \in Tasks, s \in Sessions : Request(t, s)
  \/ \E t \in Tasks : Locking(t) \/ Running(t) \/ Cancel(t)
  \/ \E s \in Sessions, w \in Work : Edit(s, w) \/ Commit(s, w)
  \/ OthersPersist
  \/ Crash
  \/ Rest

Spec == Init /\ [][Next]_vars

\* Handlers run on a work-conserving executor; tokio's mutexes are FIFO, so a
\* waiter that keeps seeing the lock free again gets it.
FairSpec == Spec /\ \A t \in Tasks : WF_vars(Running(t)) /\ SF_vars(Locking(t))

-----------------------------------------------------------------------------
(* Properties *)

\* Type correctness of the stores, the git refs and the tasks.
TypeOK ==
  /\ recs \in [Sessions -> Record \cup {None}]
  /\ debts \subseteq Sessions
  /\ disk \in [recs: [Sessions -> Record \cup {None}], debts: SUBSET Sessions]
  /\ task \in [Tasks -> [pc: Pcs, kind: TaskKinds, sid: Sessions \cup {None},
                         seen: 0..MaxGen, local: Record \cup {None}, debt: BOOLEAN]]
  /\ conts \in [Names -> Workspace \cup {None}]
  /\ originMaster \subseteq Work
  /\ originBranch \in [Sessions -> (SUBSET Work) \cup {None}]
  /\ mirrorMaster \subseteq Work
  /\ heads \subseteq Sessions
  /\ used \subseteq Sessions
  /\ author \in [Work -> Sessions \cup {None}]
  /\ acked \subseteq Work
  /\ outcome \in [Sessions -> {"none", "merged", "debt", "reaped"}]
  /\ faults \in 0..MaxFaults

\* The locks exclude: no two tasks own one session guard, no two own the
\* project's mirror guard, in particular while a cancelled build still runs.
MutualExclusion ==
  \A t, u \in Tasks : t # u =>
    /\ \A s \in Sessions : ~(HoldsSession(t, s) /\ HoldsSession(u, s))
    /\ ~(HoldsMerge(t) /\ HoldsMerge(u))

\* A branch is one session's: orphan resume under the project lock, a reaper
\* that drops records without it, and a crash that brings an older snapshot back
\* never leave two records on one branch.
BranchExclusive ==
  \A s, o \in Sessions :
    recs[s] # None /\ recs[o] # None /\ recs[s].branch = recs[o].branch => s = o

\* A session has one runtime: a recycle destroys the former generation before
\* it allocates the next one.
OneRuntimePerSession ==
  \A s \in Sessions : Cardinality({g \in 1..MaxGen : conts[<<s, g>>] # None}) <= 1

\* Nothing a driver wrote is lost: it is on the remote or still in a workspace,
\* whatever step of close, recycle or reap failed, was cancelled or crashed.
WorkPreserved ==
  \A w \in Work : author[w] # None =>
    \/ w \in originMaster
    \/ \E b \in Sessions : originBranch[b] # None /\ w \in originBranch[b]
    \/ \E n \in Names : conts[n] # None /\ w \in conts[n].tree

\* A commit the workspace acknowledged is on the remote for good.
CommitPreserved ==
  \A w \in acked :
    \/ w \in originMaster
    \/ \E b \in Sessions : originBranch[b] # None /\ w \in originBranch[b]

\* The event log tells the truth: a session closed as merged has all its work
\* in master; one closed in debt or reaped has it on the remote.
OutcomeTruthful ==
  \A w \in Work : author[w] # None =>
    /\ outcome[author[w]] = "merged" => w \in originMaster
    /\ outcome[author[w]] \in {"debt", "reaped"} =>
         \/ w \in originMaster
         \/ \E b \in Sessions : originBranch[b] # None /\ w \in originBranch[b]

\* A debt can be paid: its branch is on the remote, or the record whose close
\* was not seen through still names it.
DebtKept ==
  \A b \in debts :
    \/ originBranch[b] # None
    \/ \E s \in Sessions : recs[s] # None /\ recs[s].branch = b

\* A session listed active and at rest has the runtime its binding names.
ActiveIsRunnable ==
  \A s \in Sessions :
    recs[s] # None /\ recs[s].life = "active" /\ SessionFree(s) =>
      /\ recs[s].owned
      /\ conts[Container(s, recs[s])] # None
      /\ conts[Container(s, recs[s])].booted

\* What the reaper or finish removes is the generation it observed, never one
\* that a recycle put in its place meanwhile.
ObservedGenerationOnly ==
  [][\A t \in Tasks : task[t].pc = "destroy" /\ task'[t].pc = "remove" =>
       recs[task[t].sid] # None /\ recs[task[t].sid].gen = task[t].seen]_vars

\* A container two records claim is never destroyed.
DisputedNeverDestroyed ==
  [][\A n \in Names : conts[n] # None /\ conts'[n] = None =>
       Cardinality({s \in Sessions : recs[s] # None /\ Container(s, recs[s]) = n}) <= 1]_vars

\* "Interrupted creating/recycling/closing records become failed/interrupted at
\* hydration": no record whose transition a crash cut short comes back active.
InterruptedIsFailed ==
  [][Crash => \A t \in Tasks, s \in Sessions :
       HoldsSession(t, s) /\ recs'[s] # None => recs'[s].life = "failed"]_vars

\* Under debt, an open starts from the debtor branch.
OpenInheritsDebt ==
  [][\A t \in Tasks :
       task[t].pc = "orphan" /\ task'[t].pc = "image" /\ debts # {} =>
         task'[t].local.branch \in debts]_vars

\* Every request ends: no wait for a lock is for ever, no failure keeps one.
RequestsEnd == \A t \in Tasks : task[t].pc # "idle" ~> task[t].pc = "idle"

\* The lifecycle keeps the project's promise: work it publishes was produced,
\* sessions end once, truthfully, and do no work after their end.
Contract == INSTANCE ProjectContract WITH master <- originMaster
ImplementsContract == Contract!Spec

=============================================================================
