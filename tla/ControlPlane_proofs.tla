------------------------- MODULE ControlPlane_proofs -------------------------
(***************************************************************************)
(* What is proved of the control plane's smaller components, each from an  *)
(* inductive invariant of its own, and of the run they share.              *)
(***************************************************************************)
EXTENDS MCControlPlane, Companion_proofs, FiniteSetTheorems, TLAPS

-----------------------------------------------------------------------------
(* WorkItems: the audit of an item is a chain, and only grows *)

WorkItemsInv == WorkItemsTypeOK /\ NoLostUpdate

\* An edit based on the last revision may land, whether its author learns of it or not.
LEMMA TransactionKeeps ==
  ASSUME WorkItemsInv, NEW c \in Clients, NEW i \in Items, NEW e \in Edit, NEW p \in Projects,
         e.base = Revision(i), Exists(i) => items[i].project = p,
         Transaction(c, i, [project |-> p, audit |-> Append(items[i].audit, e)])
  PROVE  WorkItemsInv'
  <1> DEFINE old == items[i].audit
             new == Append(old, e)
             rec == [project |-> p, audit |-> new]
  <1>1. old \in Seq(Edit) /\ new \in Seq(Edit) /\ Len(new) = Len(old) + 1
        /\ new[Len(new)] = e /\ \A n \in 1..Len(old) : new[n] = old[n]
    BY DEF WorkItemsInv, WorkItemsTypeOK, Item
  <1>2. items' = [items EXCEPT ![i] = rec] /\ items'[i] = rec
        /\ \A j \in Items \ {i} : items'[j] = items[j]
    BY DEF Transaction, WorkItemsInv, WorkItemsTypeOK
  <1>3. items' \in [Items -> Item]
    BY <1>1, <1>2 DEF WorkItemsInv, WorkItemsTypeOK, Item
  <1>4. seen' \in [Clients -> [Items -> Nat]]
    <2> DEFINE length == Len(new)
    <2>1. seen' = seen \/ seen' = [seen EXCEPT ![c][i] = length]
      BY DEF Transaction
    <2>2. length \in Nat /\ seen \in [Clients -> [Items -> Nat]]
      BY <1>1 DEF WorkItemsInv, WorkItemsTypeOK
    <2> HIDE DEF length
    <2> DEFINE row == [seen[c] EXCEPT ![i] = length]
    <2>3. row \in [Items -> Nat]  BY <2>2
    <2>4. seen' = seen \/ seen' = [seen EXCEPT ![c] = row]  BY <2>1
    <2> HIDE DEF row
    <2> QED  BY <2>2, <2>3, <2>4
  <1> DEFINE word == [item |-> i, project |-> p, revision |-> Len(new), edit |-> e]
  <1>5. told' \in {told, told \cup {word}}
    BY <1>1 DEF Transaction
  <1>6. word \in [item: Items, project: Projects, revision: Nat \ {0}, edit: Edit]
    BY <1>1
  <1>7. WorkItemsTypeOK'
    BY <1>3, <1>4, <1>5, <1>6 DEF WorkItemsInv, WorkItemsTypeOK
  <1>8. EditsBuildOnEachOther'
    <2> SUFFICES ASSUME NEW j \in Items, NEW n \in 1..Len(items'[j].audit)
                 PROVE  items'[j].audit[n].base = n - 1
      BY DEF EditsBuildOnEachOther, Revision
    <2>1. CASE j # i
      BY <1>2, <2>1 DEF WorkItemsInv, NoLostUpdate, EditsBuildOnEachOther, Revision
    <2>2. CASE j = i /\ n = Len(new)
      BY <1>1, <1>2, <2>2 DEF Revision
    <2>3. CASE j = i /\ n # Len(new)
      <3>1. n \in 1..Len(old)  BY <1>1, <1>2, <2>3
      <3> QED  BY <1>1, <1>2, <2>3, <3>1
               DEF WorkItemsInv, NoLostUpdate, EditsBuildOnEachOther, Revision
    <2> QED  BY <2>1, <2>2, <2>3
  <1>9. ToldIsKept'
    <2> SUFFICES ASSUME NEW t \in told'
                 PROVE  /\ items'[t.item].project = t.project
                        /\ t.revision \in 1..Len(items'[t.item].audit)
                        /\ items'[t.item].audit[t.revision] = t.edit
      BY DEF ToldIsKept, Revision
    <2>1. CASE t = word
      BY <1>1, <1>2, <2>1
    <2>2. CASE t \in told
      <3>1. t.item \in Items /\ items[t.item].project = t.project
            /\ t.revision \in 1..Len(items[t.item].audit)
            /\ items[t.item].audit[t.revision] = t.edit
        BY <2>2 DEF WorkItemsInv, WorkItemsTypeOK, NoLostUpdate, ToldIsKept, Revision
      <3>2. CASE t.item # i
        BY <1>2, <3>1, <3>2
      <3>3. CASE t.item = i
        <4>1. Exists(i)  BY <1>1, <3>1, <3>3 DEF Exists
        <4> QED  BY <1>1, <1>2, <3>1, <3>3, <4>1
      <3> QED  BY <3>2, <3>3
    <2> QED  BY <1>5, <2>1, <2>2
  <1> QED  BY <1>7, <1>8, <1>9 DEF WorkItemsInv, NoLostUpdate

LEMMA WorkItemsStep ==
  ASSUME WorkItemsInv, [WorkItemsNext]_workItemVars
  PROVE  WorkItemsInv'
  <1>1. CASE UNCHANGED workItemVars
    BY <1>1 DEF workItemVars, WorkItemsInv, WorkItemsTypeOK, NoLostUpdate, EditsBuildOnEachOther,
                ToldIsKept, Revision
  <1>2. ASSUME NEW c \in Clients, NEW i \in Items, UNCHANGED <<items, told>>,
               seen' = [seen EXCEPT ![c][i] = Revision(i)]
        PROVE  WorkItemsInv'
    <2>1. Revision(i) \in Nat  BY DEF Revision, WorkItemsInv, WorkItemsTypeOK, Item
    <2>2. WorkItemsTypeOK'  BY <1>2, <2>1 DEF WorkItemsInv, WorkItemsTypeOK
    <2> QED  BY <1>2, <2>2 DEF WorkItemsInv, NoLostUpdate, EditsBuildOnEachOther, ToldIsKept,
                               Revision
  <1>3. ASSUME NEW c \in Clients, NEW p \in Projects, NEW i \in Items, NEW f \in Texts
        PROVE  (CreateItem(c, p, i, f) \/ UpdateItem(c, p, i, f)) => WorkItemsInv'
    <2>1. items[i] \in Item /\ Revision(i) \in Nat /\ seen[c][i] \in Nat
      BY DEF Revision, WorkItemsInv, WorkItemsTypeOK, Item
    <2>2. CASE CreateItem(c, p, i, f)
      <3> DEFINE e == [actor |-> c, fields |-> f, base |-> 0]
      <3>1. items[i].audit = <<>> /\ ~Exists(i)  BY <2>2 DEF CreateItem, Exists
      <3>2. e \in Edit /\ e.base = Revision(i) /\ Append(items[i].audit, e) = <<e>>
        BY <3>1 DEF Edit, Revision
      <3>3. Transaction(c, i, [project |-> p, audit |-> Append(items[i].audit, e)])
        BY <2>2, <3>2 DEF CreateItem
      <3> QED  BY <3>1, <3>2, <3>3, TransactionKeeps
    <2>3. CASE UpdateItem(c, p, i, f)
      <3> DEFINE e == [actor |-> c, fields |-> f, base |-> seen[c][i]]
                 n == [items[i] EXCEPT !.audit = Append(@, e)]
      <3>1. e \in Edit /\ e.base = Revision(i) /\ items[i].project = p
        BY <2>1, <2>3 DEF UpdateItem, Find, Edit
      <3>2. n = [project |-> p, audit |-> Append(items[i].audit, e)]
        <4>1. \A r \in Item : \A a : [r EXCEPT !.audit = a] = [project |-> r.project, audit |-> a]
          BY DEF Item
        <4> QED  BY <2>1, <3>1, <4>1
      <3>3. Transaction(c, i, n)
        BY <2>3 DEF UpdateItem
      <3> QED  BY <3>1, <3>2, <3>3, TransactionKeeps
    <2> QED  BY <2>2, <2>3
  <1> QED  BY <1>1, <1>2, <1>3 DEF WorkItemsNext, GetItem, CreateAgain

LEMMA WorkItemsStarts == WorkItemsInit => WorkItemsInv
  BY WorkItemsAssumption DEF WorkItemsInit, WorkItemsInv, WorkItemsTypeOK, NoLostUpdate,
     EditsBuildOnEachOther, ToldIsKept, Revision, NoItem, Item

\* However many clients race on an item's revision, and whichever saves end in doubt, an
\* edit is never overwritten by one whose author had not read it, and never taken back
\* from a client that was told of it.
THEOREM UpdatesKept == WorkItemsSpec => []NoLostUpdate
  <1>1. WorkItemsInv => NoLostUpdate
    BY DEF WorkItemsInv
  <1> QED  BY <1>1, WorkItemsStarts, WorkItemsStep, PTL DEF WorkItemsSpec

-----------------------------------------------------------------------------
(* ProcessGroup: past the first kill nobody forks *)

OnlyLeaderWaits == \A p \in Children : proc[p] # "zombie"

\* The second quiet pass ends the passes.
TwicePasses == stage \in {"reading", "kill", "scan"} => quiet \in {0, 1}

ProcessInv ==
  ProcessTypeOK /\ OnlyLeaderWaits /\ TwicePasses /\ QuietIsKept /\ NothingOutlivesItsCall

LEMMA ProcessStep ==
  ASSUME ProcessInv, [ProcessNext]_processVars
  PROVE  ProcessInv'
  <1> USE DEF ProcessInv, ProcessTypeOK, OnlyLeaderWaits, TwicePasses, QuietIsKept,
              NothingOutlivesItsCall, Alive, Procs, ProcState, Stage
  <1>1. CASE ReadEnds  BY <1>1 DEF ReadEnds
  <1>2. CASE KillGroup  BY <1>2 DEF KillGroup
  <1>3. CASE PassFails  BY <1>3 DEF PassFails
  <1>4. CASE ScanQuiet  BY <1>4 DEF ScanQuiet
  <1>5. CASE Reap
    <2>1. \A p \in Children : proc[p] \in {"none", "gone"}  BY <1>5 DEF Reap
    <2> QED  BY <1>5, <2>1, ProcessAssumption DEF Reap
  <1>6. ASSUME NEW p \in Procs, ScanPasses(p)  PROVE ProcessInv'  BY <1>6 DEF ScanPasses
  <1>7. ASSUME NEW p \in Procs, ScanFinds(p)  PROVE ProcessInv'  BY <1>7 DEF ScanFinds
  <1>8. ASSUME NEW p \in Procs, Exit(p)  PROVE ProcessInv'
    <2>1. proc[p] \in {"live", "dying"} /\ stage # "returned"  BY <1>8 DEF Exit
    <2> QED  BY <1>8, <2>1, ProcessAssumption DEF Exit
  <1>9. ASSUME NEW p \in Procs, NEW q \in Procs, Fork(p, q)  PROVE ProcessInv'
    <2>1. stage \in {"reading", "kill"}  BY <1>9 DEF Fork
    <2> QED  BY <1>9, <2>1 DEF Fork
  <1>10. CASE UNCHANGED processVars  BY <1>10 DEF processVars
  <1> QED  BY <1>1, <1>2, <1>3, <1>4, <1>5, <1>6, <1>7, <1>8, <1>9, <1>10 DEF ProcessNext

LEMMA ProcessStarts == ProcessInit => ProcessInv
  BY ProcessAssumption DEF ProcessInit, ProcessInv, ProcessTypeOK, OnlyLeaderWaits, TwicePasses,
     QuietIsKept, NothingOutlivesItsCall, Procs, ProcState, Stage

\* For a process group of any size: when the call returns, and the repository's lock
\* with it, nothing of the group is left to write, though children were forked while
\* the group was being killed and scanned.
THEOREM GroupEnds == ProcessSpec => []NothingOutlivesItsCall
  <1>1. ProcessInv => NothingOutlivesItsCall  BY DEF ProcessInv
  <1> QED  BY <1>1, ProcessStarts, ProcessStep, PTL DEF ProcessSpec

-----------------------------------------------------------------------------
(* Apps: the latch *)

AppsTyped == /\ master \in Shas /\ upgrade \in [Upgrades -> Upgrade]
             /\ app \in AppRecord /\ appDisk \in AppRecord

LEMMA AppsTypedStep ==
  ASSUME AppsTyped, [AppsNext]_appVars
  PROVE  AppsTyped'
  <1> USE DEF AppsTyped, Upgrade, UpgradePcs, AppRecord, Goes, AppPersisted
  <1>1. ASSUME NEW u \in Upgrades, UpgradeBegin(u) \/ UpgradeUnresolved(u) \/ UpgradeLocks(u)
        PROVE  AppsTyped'
    BY <1>1 DEF UpgradeBegin, UpgradeUnresolved, UpgradeLocks
  <1>2. ASSUME NEW u \in Upgrades, UpgradeRecreates(u)  PROVE AppsTyped'
    <2>1. app' \in AppRecord /\ appDisk' \in {app', appDisk}
      BY <1>2 DEF UpgradeRecreates
    <2>2. upgrade' \in [Upgrades -> Upgrade] /\ UNCHANGED master
      BY <1>2 DEF UpgradeRecreates
    <2> QED  BY <2>1, <2>2
  <1>3. ASSUME NEW u \in Upgrades, UpgradeBuilds(u)  PROVE AppsTyped'
    <2>1. app' \in AppRecord /\ appDisk' \in {app', appDisk}
      BY <1>3 DEF UpgradeBuilds
    <2>2. upgrade' \in [Upgrades -> Upgrade] /\ UNCHANGED master
      BY <1>3 DEF UpgradeBuilds
    <2> QED  BY <2>1, <2>2
  <1>4. ASSUME NEW u \in Upgrades, BuildEnds(u)  PROVE AppsTyped'
    <2>1. upgrade' \in [Upgrades -> Upgrade]
      <3>1. PICK ok \in BOOLEAN :
              upgrade' = [upgrade EXCEPT ![u].pc = "built", ![u].ok = ok]
        BY <1>4 DEF BuildEnds
      <3>2. \A x \in Upgrade : [x EXCEPT !.pc = "built", !.ok = ok] \in Upgrade
        OBVIOUS
      <3> QED  BY <3>1, <3>2
    <2>2. UNCHANGED <<master, app, appDisk>>  BY <1>4 DEF BuildEnds
    <2> QED  BY <2>1, <2>2
  <1>5. ASSUME NEW u \in Upgrades, BuildSettles(u)  PROVE AppsTyped'
    <2>1. app' \in AppRecord /\ appDisk' \in {app', appDisk}
      BY <1>5 DEF BuildSettles
    <2>2. upgrade' \in [Upgrades -> Upgrade] /\ UNCHANGED master
      BY <1>5 DEF BuildSettles
    <2> QED  BY <2>1, <2>2
  <1>6. CASE MasterMoves  BY <1>6, AppsAssumption DEF MasterMoves, Shas
  <1>7. CASE AppsRestart
    <2>1. app' \in AppRecord /\ appDisk' = appDisk /\ UNCHANGED master
      BY <1>7 DEF AppsRestart, AppHydrated
    <2>2. upgrade' \in [Upgrades -> Upgrade]  BY <1>7 DEF AppsRestart
    <2> QED  BY <2>1, <2>2
  <1>8. CASE Verb \/ AppByOthers \/ UNCHANGED appVars
    BY <1>8 DEF Verb, AppByOthers, appVars
  <1> QED  BY <1>1, <1>2, <1>3, <1>4, <1>5, <1>6, <1>7, <1>8 DEF AppsNext, UpgradeRuns

Serves(u) == upgrade[u].pc \in {"building", "built"}

LEMMA LatchStep ==
  ASSUME AppsTyped, LatchIsServed, [AppsNext]_appVars
  PROVE  LatchIsServed'
  <1> USE DEF AppsTyped, Upgrade, AppRecord, Goes
  <1>1. ASSUME app'.building => app.building,
               \A v \in Upgrades : Serves(v) => Serves(v)'
        PROVE  LatchIsServed'
    BY <1>1 DEF LatchIsServed, Serves
  <1>2. ASSUME NEW u \in Upgrades, UpgradeBegin(u) \/ UpgradeUnresolved(u) \/ UpgradeLocks(u)
        PROVE  LatchIsServed'
    BY <1>1, <1>2 DEF UpgradeBegin, UpgradeUnresolved, UpgradeLocks, Serves
  <1>3. ASSUME NEW u \in Upgrades, UpgradeRecreates(u)  PROVE LatchIsServed'
    <2>1. app'.building => app.building  BY <1>3 DEF UpgradeRecreates
    <2>2. \A v \in Upgrades : Serves(v) => Serves(v)'  BY <1>3 DEF UpgradeRecreates, Serves
    <2> QED  BY <1>1, <2>1, <2>2
  <1>4. ASSUME NEW u \in Upgrades, UpgradeBuilds(u)  PROVE LatchIsServed'
    <2>1. Serves(u)'  BY <1>4 DEF UpgradeBuilds, Serves
    <2> QED  BY <2>1 DEF LatchIsServed, Serves
  <1>5. ASSUME NEW u \in Upgrades, BuildEnds(u)  PROVE LatchIsServed'
    <2>1. \A v \in Upgrades : Serves(v) => Serves(v)'  BY <1>5 DEF BuildEnds, Serves
    <2> QED  BY <1>1, <1>5, <2>1 DEF BuildEnds
  <1>6. ASSUME NEW u \in Upgrades, BuildSettles(u)  PROVE LatchIsServed'
    BY <1>6 DEF BuildSettles, LatchIsServed
  <1>7. CASE AppsRestart
    BY <1>7 DEF AppsRestart, AppHydrated, LatchIsServed
  <1>8. CASE Verb \/ MasterMoves \/ AppByOthers \/ UNCHANGED appVars
    BY <1>8 DEF Verb, MasterMoves, AppByOthers, appVars, LatchIsServed
  <1> QED  BY <1>2, <1>3, <1>4, <1>5, <1>6, <1>7, <1>8 DEF AppsNext, UpgradeRuns

\* However many upgrades pass the latch together and however their builds end, "building"
\* is shown only while a task of this process is there to clear it.
THEOREM LatchServed == AppsSpec => []LatchIsServed
  <1>1. AppsInit => AppsTyped /\ LatchIsServed
    BY AppsAssumption DEF AppsInit, AppsTyped, LatchIsServed, Upgrade, UpgradePcs, AppRecord,
       Shas, NoSha
  <1> QED  BY <1>1, AppsTypedStep, LatchStep, PTL DEF AppsSpec

-----------------------------------------------------------------------------
(* Approvals: every grant goes back to an answer its driver's elevation got *)

\* A flow begun belongs to a driver.
FlowsOK == \A f \in Flows : flow[f].pc # "idle" => flow[f].driver \in Drivers

\* What a store holds as granted, an elevation got.
Backed(store) == \A d \in Drivers : GrantedBy(store, d)

ApprovalsInv == ApprovalsTypeOK /\ FlowsOK /\ Backed(approvals) /\ Backed(approvalDisk)

\* What is left of a flow that is over.
Rests(f) ==
  flow[f].pc = "over" => /\ flow'[f].pc = "over"
                         /\ flow'[f].driver = flow[f].driver
                         /\ flow'[f].answer = flow[f].answer
                         /\ flow'[f].until = flow[f].until

LEMMA BackedKept ==
  ASSUME NEW store, Backed(store), \A f \in Flows : Rests(f),
         NEW next, \A d \in Drivers : next[d].state = "granted" => next[d] = store[d]
  PROVE  \A d \in Drivers : next[d].state = "granted" =>
           \E f \in Flows : /\ flow'[f].driver = d /\ flow'[f].pc = "over"
                            /\ flow'[f].answer = "granted"
                            /\ next[d].expires = flow'[f].until
  BY DEF Backed, GrantedBy, Rests

LEMMA ApprovalsStep ==
  ASSUME ApprovalsInv, [ApprovalsNext]_approvalVars
  PROVE  ApprovalsInv'
  <1> USE ApprovalsAssumption
  <1>0. epoch \in Nat /\ approvals \in [Drivers -> Approval]
        /\ approvalDisk \in [Drivers -> Approval] /\ flow \in [Flows -> Flow]
    BY DEF ApprovalsInv, ApprovalsTypeOK
  \* What most steps have in common: stores change by marks, flows that are over rest.
  <1>1. ASSUME epoch' \in 0..MaxEpoch, approvals' \in [Drivers -> Approval],
               approvalDisk' \in {approvals', approvalDisk, approvals},
               flow' \in [Flows -> Flow],
               decision' \in [Flows -> {"open", "approved", "denied"}],
               FlowsOK', \A f \in Flows : Rests(f),
               \/ \A d \in Drivers : approvals'[d].state = "granted" => approvals'[d] = approvals[d]
               \/ approvals' = approvalDisk
        PROVE  ApprovalsInv'
    <2>1. Backed(approvals)'
      BY <1>1, BackedKept DEF ApprovalsInv, Backed, GrantedBy
    <2>2. Backed(approvalDisk)'
      <3>1. CASE approvalDisk' = approvals'
        BY <2>1, <3>1 DEF Backed, GrantedBy
      <3>2. CASE approvalDisk' \in {approvalDisk, approvals}
        <4> SUFFICES ASSUME NEW d \in Drivers, approvalDisk'[d].state = "granted"
                     PROVE  \E f \in Flows : /\ flow'[f].driver = d /\ flow'[f].pc = "over"
                                             /\ flow'[f].answer = "granted"
                                             /\ approvalDisk'[d].expires = flow'[f].until
          BY DEF Backed, GrantedBy
        <4>1. PICK f \in Flows : /\ flow[f].driver = d /\ flow[f].pc = "over"
                                 /\ flow[f].answer = "granted"
                                 /\ approvalDisk'[d].expires = flow[f].until
          BY <3>2 DEF ApprovalsInv, Backed, GrantedBy
        <4> QED  BY <1>1, <4>1 DEF Rests
      <3> QED  BY <1>1, <3>1, <3>2
    <2> QED  BY <1>1, <2>1, <2>2 DEF ApprovalsInv, ApprovalsTypeOK
  <1>2. ASSUME NEW f \in Flows, NEW d \in Drivers, Elevate(f, d)  PROVE ApprovalsInv'
    <2> DEFINE asked == [NoFlow EXCEPT !.pc = "sleeping", !.driver = d,
                                       !.expires = epoch + Window]
               entry == [state |-> "pending", expires |-> epoch + Window]
    <2>1. asked \in Flow /\ entry \in Approval /\ asked.driver = d
      <3>1. NoFlow \in Flow  BY DEF NoFlow, Flow
      <3>2. epoch + Window \in Nat  BY <1>0
      <3>3. asked \in Flow /\ asked.driver = d  BY <3>1, <3>2 DEF Flow
      <3>4. entry \in Approval  BY <3>2 DEF Approval, ApprovalState
      <3> QED  BY <3>3, <3>4
    <2>2. flow' = [flow EXCEPT ![f] = asked] /\ approvals' = [approvals EXCEPT ![d] = entry]
          /\ approvalDisk' \in {approvals', approvalDisk} /\ UNCHANGED <<epoch, decision>>
          /\ flow[f].pc = "idle"
      BY <1>2 DEF Elevate, ApprovalsPersisted
    <2>3. flow' \in [Flows -> Flow] /\ approvals' \in [Drivers -> Approval]
      BY <1>0, <2>1, <2>2
    <2>4. FlowsOK'
      <3> HIDE DEF asked
      <3> QED  BY <1>0, <2>1, <2>2 DEF FlowsOK, ApprovalsInv
    <2>5. \A e \in Drivers : approvals'[e].state = "granted" => approvals'[e] = approvals[e]
      BY <1>0, <2>2
    <2>6. \A g \in Flows : Rests(g)
      <3> HIDE DEF asked
      <3> QED  BY <1>0, <2>2 DEF Rests
    <2> QED  BY <1>0, <1>1, <2>2, <2>3, <2>4, <2>5, <2>6 DEF ApprovalsInv, ApprovalsTypeOK
  \* The poller is through.
  <1>3. ASSUME NEW f \in Flows, NEW answer \in {"none", "error", "granted"}, NEW until \in Nat,
               Ends(f, answer, until), flow[f].pc # "idle", flow[f].pc # "over"
        PROVE  /\ flow' \in [Flows -> Flow] /\ FlowsOK' /\ \A g \in Flows : Rests(g)
               /\ flow'[f].driver = flow[f].driver /\ flow'[f].pc = "over"
               /\ flow'[f].answer = answer /\ flow'[f].until = until
    <2>1. flow' \in [Flows -> Flow]
      <3> DEFINE over == [flow[f] EXCEPT !.pc = "over", !.answer = answer, !.until = until]
      <3>1. flow' = [flow EXCEPT ![f] = over]  BY <1>0, <1>3 DEF Ends
      <3>2. over \in Flow  BY <1>0 DEF Flow
      <3> QED  BY <1>0, <3>1, <3>2
    <2>2. /\ flow'[f].driver = flow[f].driver /\ flow'[f].pc = "over"
          /\ flow'[f].answer = answer /\ flow'[f].until = until
          /\ \A g \in Flows \ {f} : flow'[g] = flow[g]
      BY <1>0, <1>3 DEF Ends, Flow
    <2> QED  BY <1>3, <2>1, <2>2 DEF FlowsOK, ApprovalsInv, Rests
  <1>4. ASSUME NEW f \in Flows, PollExpired(f) \/ PollDenied(f)  PROVE ApprovalsInv'
    <2>1. PICK state \in {"expired", "denied"}, answer \in {"none", "error"} :
            approvals' = Marked(flow[f].driver, state) /\ Ends(f, answer, 0)
      BY <1>4 DEF PollExpired, PollDenied
    <2>2. flow[f].pc # "idle" /\ flow[f].pc # "over" /\ ApprovalsPersisted
          /\ UNCHANGED <<epoch, decision>>
      BY <1>4 DEF PollExpired, PollDenied
    <2>3. flow[f].driver \in Drivers  BY <2>2 DEF ApprovalsInv, FlowsOK
    <2>4. approvals' \in [Drivers -> Approval]
          /\ \A d \in Drivers : approvals'[d].state = "granted" => approvals'[d] = approvals[d]
      BY <1>0, <2>1, <2>3 DEF Marked, Approval, ApprovalState
    <2>5. flow' \in [Flows -> Flow] /\ FlowsOK' /\ \A g \in Flows : Rests(g)
      BY <1>3, <2>1, <2>2
    <2> QED  BY <1>0, <1>1, <2>2, <2>4, <2>5
             DEF ApprovalsInv, ApprovalsTypeOK, ApprovalsPersisted
  <1>5. ASSUME NEW f \in Flows, PollAsks(f) \/ PollAgain(f)  PROVE ApprovalsInv'
    <2>1. PICK pc \in {"sleeping", "asked"} : flow' = [flow EXCEPT ![f].pc = pc]
      BY <1>5 DEF PollAsks, PollAgain
    <2>2. flow[f].pc # "idle" /\ flow[f].pc # "over"
          /\ UNCHANGED <<epoch, approvals, decision, approvalDisk>>
      BY <1>5 DEF PollAsks, PollAgain
    <2>3. flow' \in [Flows -> Flow] /\ \A g \in Flows : Rests(g)
      BY <1>0, <2>1, <2>2 DEF Flow, Rests
    <2>4. FlowsOK'  BY <1>0, <2>1, <2>2 DEF FlowsOK, ApprovalsInv
    <2> QED  BY <1>0, <1>1, <2>2, <2>3, <2>4 DEF ApprovalsInv, ApprovalsTypeOK
  <1>6. ASSUME NEW f \in Flows, PollGranted(f)  PROVE ApprovalsInv'
    <2> DEFINE d == flow[f].driver
    <2>1. PICK ttl \in Lifetimes :
            /\ approvals' = [approvals EXCEPT ![d] =
                 [state |-> "granted", expires |-> epoch + ttl]]
            /\ Ends(f, "granted", epoch + ttl)
      BY <1>6 DEF PollGranted
    <2> DEFINE entry == [state |-> "granted", expires |-> epoch + ttl]
    <2>2. d \in Drivers /\ entry \in Approval /\ epoch + ttl \in Nat
      BY <1>0, <1>6 DEF PollGranted, ApprovalsInv, FlowsOK, Approval, ApprovalState
    <2>3. flow[f].pc = "asked" /\ approvalDisk' \in {approvals', approvalDisk}
          /\ UNCHANGED <<epoch, decision>>
      BY <1>6 DEF PollGranted, ApprovalsPersisted
    <2>4. /\ flow' \in [Flows -> Flow] /\ FlowsOK' /\ \A g \in Flows : Rests(g)
          /\ flow'[f].driver = d /\ flow'[f].pc = "over"
          /\ flow'[f].answer = "granted" /\ flow'[f].until = epoch + ttl
      BY <1>3, <2>1, <2>2, <2>3
    <2>5. Backed(approvals)'
      <3> SUFFICES ASSUME NEW e \in Drivers, approvals'[e].state = "granted"
                   PROVE  \E g \in Flows : /\ flow'[g].driver = e /\ flow'[g].pc = "over"
                                           /\ flow'[g].answer = "granted"
                                           /\ approvals'[e].expires = flow'[g].until
        BY DEF Backed, GrantedBy
      <3>1. CASE e = d  BY <1>0, <2>1, <2>2, <2>4, <3>1
      <3>2. CASE e # d
        <4>1. approvals'[e] = approvals[e]  BY <1>0, <2>1, <3>2
        <4> QED  BY <2>4, <4>1 DEF ApprovalsInv, Backed, GrantedBy, Rests
      <3> QED  BY <3>1, <3>2
    <2>6. Backed(approvalDisk)'
      <3>1. CASE approvalDisk' = approvals'
        BY <2>5, <3>1 DEF Backed, GrantedBy
      <3>2. CASE approvalDisk' = approvalDisk
        <4> SUFFICES ASSUME NEW e \in Drivers, approvalDisk'[e].state = "granted"
                     PROVE  \E g \in Flows : /\ flow'[g].driver = e /\ flow'[g].pc = "over"
                                             /\ flow'[g].answer = "granted"
                                             /\ approvalDisk'[e].expires = flow'[g].until
          BY DEF Backed, GrantedBy
        <4>1. PICK g \in Flows : /\ flow[g].driver = e /\ flow[g].pc = "over"
                                 /\ flow[g].answer = "granted"
                                 /\ approvalDisk'[e].expires = flow[g].until
          BY <3>2 DEF ApprovalsInv, Backed, GrantedBy
        <4> QED  BY <2>4, <4>1 DEF Rests
      <3> QED  BY <2>3, <3>1, <3>2
    <2>7. approvals' \in [Drivers -> Approval]  BY <1>0, <2>1, <2>2
    <2> QED  BY <2>3, <2>4, <2>5, <2>6, <2>7, <1>0 DEF ApprovalsInv, ApprovalsTypeOK
  <1>7. ASSUME NEW f \in Flows, Decide(f)  PROVE ApprovalsInv'
    <2>1. decision' \in [Flows -> {"open", "approved", "denied"}]
          /\ UNCHANGED <<epoch, approvals, flow, approvalDisk>>
      BY <1>7 DEF Decide, ApprovalsInv, ApprovalsTypeOK
    <2> QED  BY <1>0, <1>1, <2>1 DEF ApprovalsInv, ApprovalsTypeOK, FlowsOK, Rests
  <1>8. CASE ApprovalClock
    BY <1>0, <1>1, <1>8 DEF ApprovalClock, ApprovalsInv, ApprovalsTypeOK, FlowsOK, Rests
  <1>9. CASE ApprovalsByOthers \/ UNCHANGED approvalVars
    BY <1>0, <1>1, <1>9
       DEF ApprovalsByOthers, approvalVars, ApprovalsInv, ApprovalsTypeOK, FlowsOK, Rests
  <1>10. CASE ApprovalsRestart
    <2>1. flow' \in [Flows -> Flow] /\ \A g \in Flows :
            /\ flow'[g].driver = flow[g].driver /\ flow'[g].answer = flow[g].answer
            /\ flow'[g].until = flow[g].until /\ (flow'[g].pc = "idle" <=> flow[g].pc = "idle")
            /\ flow[g].pc = "over" => flow'[g].pc = "over"
      BY <1>0, <1>10 DEF ApprovalsRestart, Flow
    <2>2. FlowsOK' /\ \A g \in Flows : Rests(g)
      BY <2>1 DEF FlowsOK, ApprovalsInv, Rests
    <2> QED  BY <1>0, <1>1, <1>10, <2>1, <2>2
             DEF ApprovalsRestart, ApprovalsInv, ApprovalsTypeOK
  <1> QED  BY <1>2, <1>4, <1>5, <1>6, <1>7, <1>8, <1>9, <1>10 DEF ApprovalsNext, PollerStep

LEMMA ApprovalsStarts == ApprovalsInit => ApprovalsInv
  BY ApprovalsAssumption DEF ApprovalsInit, ApprovalsInv, ApprovalsTypeOK, FlowsOK, Backed,
     GrantedBy, NoApproval, Approval, ApprovalState, Flow, NoFlow

\* For any number of drivers, overlapping flows and restarts, and any lifetimes an answer
\* may state: a driver passes a guarded verb only on an answer that an elevation of that
\* very driver got, and until that answer's end.
THEOREM GrantsAreAnswered == ApprovalsSpec => []AnswerBehindEveryGrant
  <1>1. ApprovalsInv => AnswerBehindEveryGrant
    <2> SUFFICES ASSUME ApprovalsInv, NEW d \in Drivers
                 PROVE  /\ GrantedBy(approvals, d) /\ GrantedBy(approvalDisk, d)
                        /\ Authorized(d, FALSE, TRUE) =>
                             \E f \in Flows : /\ flow[f].driver = d
                                              /\ flow[f].answer = "granted"
                                              /\ epoch < flow[f].until
      BY DEF AnswerBehindEveryGrant
    <2>1. GrantedBy(approvals, d) /\ GrantedBy(approvalDisk, d)
      BY DEF ApprovalsInv, Backed
    <2>2. Authorized(d, FALSE, TRUE) =>
            approvals[d].state = "granted" /\ approvals[d].expires > epoch
      BY DEF Authorized, Live
    <2> QED  BY <2>1, <2>2 DEF GrantedBy
  <1> QED  BY <1>1, ApprovalsStarts, ApprovalsStep, PTL DEF ApprovalsSpec

-----------------------------------------------------------------------------
(* Refresh: a reader keeps its mirror, and a quarantine is seen *)

\* A call owns the lock of its project from when it takes it until its worker ends, and
\* has a worker only while it waits for it, or after it left it.
CallsOwn ==
  \A c \in Refreshes :
    /\ call[c].pc = "permit" => guard[call[c].project] = c
    /\ call[c].worker = "reading" => guard[call[c].project] = c
    /\ call[c].pc \in {"idle", "guard", "permit", "busy"} => call[c].worker = "none"

RefreshTyped ==
  /\ descriptor \in [Watched -> Descriptor] /\ descDisk \in [Watched -> Descriptor]
  /\ guard \in [Watched -> Refreshes \cup {NoRefresh}]
  /\ call \in [Refreshes -> Call]

RefreshInv == RefreshTyped /\ CallsOwn /\ QuarantineShown

\* FailureStays, of one step.
FailureKept ==
  \A c \in Reading :
    LET p == call[c].project
    IN  call'[c].worker = "reading" /\ descriptor[p].error # "none" =>
          descriptor'[p].error # "none"

\* A failure is never shown as an observation.
LEMMA FailedShows ==
  ASSUME RefreshTyped, NEW p \in Watched, NEW error \in Errors \ {"none"}
  PROVE  /\ Failed(p, error) \in [Watched -> Descriptor]
         /\ Failed(p, error)[p].error # "none"
         /\ \A q \in Watched : descriptor[q].error # "none" => Failed(p, error)[q].error # "none"
  BY DEF Failed, RefreshTyped, Descriptor, Errors

\* One call moves: the others keep their locks, and see no failure of theirs taken back.
LEMMA RefreshMove ==
  ASSUME RefreshInv, NEW c \in Refreshes, NEW k \in Call, call' = [call EXCEPT ![c] = k],
         guard' \in [Watched -> Refreshes \cup {NoRefresh}],
         \A p \in Watched : guard[p] \in Refreshes \ {c} => guard'[p] = guard[p],
         descriptor' \in [Watched -> Descriptor], descDisk' \in [Watched -> Descriptor],
         \A p \in Watched : \/ guard[p] = c
                            \/ descriptor[p].error # "none" => descriptor'[p].error # "none",
         k.pc = "permit" \/ k.worker = "reading" => guard'[k.project] = c,
         k.pc \in {"idle", "guard", "permit", "busy"} => k.worker = "none",
         k.worker = "reading" /\ k.pc = "answered" => descriptor'[k.project].error # "none",
         k.worker = "reading" =>
           \A p \in Watched : descriptor[p].error # "none" => descriptor'[p].error # "none"
  PROVE  RefreshInv' /\ FailureKept
  <1>1. /\ call' \in [Refreshes -> Call]
        /\ call'[c] = k
        /\ \A d \in Refreshes \ {c} : call'[d] = call[d]
        /\ \A d \in Refreshes : call[d].project \in Watched
    BY DEF RefreshInv, RefreshTyped, Call
  <1>2. CallsOwn'
    <2> SUFFICES ASSUME NEW d \in Refreshes
                 PROVE  /\ call'[d].pc = "permit" => guard'[call'[d].project] = d
                        /\ call'[d].worker = "reading" => guard'[call'[d].project] = d
                        /\ call'[d].pc \in {"idle", "guard", "permit", "busy"} =>
                             call'[d].worker = "none"
      BY DEF CallsOwn
    <2>1. CASE d = c  BY <1>1, <2>1
    <2>2. CASE d # c  BY <1>1, <2>2 DEF RefreshInv, CallsOwn
    <2> QED  BY <2>1, <2>2
  <1>3. QuarantineShown'
    <2> SUFFICES ASSUME NEW d \in Refreshes, call'[d].worker = "reading",
                        call'[d].pc = "answered"
                 PROVE  descriptor'[call'[d].project].error # "none"
      BY DEF QuarantineShown, Reading
    <2>1. CASE d = c  BY <1>1, <2>1
    <2>2. CASE d # c
      BY <1>1, <2>2, RefreshAssumption DEF RefreshInv, CallsOwn, QuarantineShown, Reading
    <2> QED  BY <2>1, <2>2
  <1>4. FailureKept
    <2> SUFFICES ASSUME NEW d \in Refreshes, call[d].worker = "reading",
                        call'[d].worker = "reading",
                        descriptor[call[d].project].error # "none"
                 PROVE  descriptor'[call[d].project].error # "none"
      BY DEF FailureKept, Reading
    <2>1. CASE d = c  BY <1>1, <2>1
    <2>2. CASE d # c  BY <1>1, <2>2, RefreshAssumption DEF RefreshInv, CallsOwn
    <2> QED  BY <2>1, <2>2
  <1> QED  BY <1>1, <1>2, <1>3, <1>4 DEF RefreshInv, RefreshTyped

\* Of a call that leaves its reader stays, if it has one.
LEMMA LeavesShape ==
  ASSUME RefreshTyped, NEW c \in Refreshes, NEW pc \in {"answered", "dropped"}, Leaves(c, pc)
  PROVE  \E k \in Call : /\ call' = [call EXCEPT ![c] = k]
                         /\ k.pc = pc
                         /\ k.worker = "reading" =>
                              call[c].worker = "reading" /\ k.project = call[c].project
  <1>1. call[c] \in Call /\ NoCall \in Call
    BY DEF RefreshTyped, Call, NoCall, CallPcs, Worker
  <1>2. CASE call[c].worker = "reading"
    <2> DEFINE k == [call[c] EXCEPT !.pc = pc]
    <2>1. k \in Call /\ k.pc = pc /\ k.project = call[c].project
      BY <1>1 DEF Call, CallPcs
    <2>2. call' = [call EXCEPT ![c] = k]  BY <1>2 DEF Leaves
    <2> QED  BY <1>2, <2>1, <2>2
  <1>3. CASE call[c].worker # "reading"
    <2> DEFINE k == [NoCall EXCEPT !.pc = pc]
    <2>1. k \in Call /\ k.pc = pc /\ k.worker = "none"
      BY <1>1 DEF NoCall, Call, CallPcs
    <2>2. call' = [call EXCEPT ![c] = k]  BY <1>3 DEF Leaves
    <2> QED  BY <2>1, <2>2
  <1> QED  BY <1>2, <1>3

LEMMA RefreshStep ==
  ASSUME RefreshInv, [RefreshNext]_refreshVars
  PROVE  RefreshInv' /\ FailureKept
  <1> USE RefreshAssumption
  <1>0. RefreshTyped /\ NoCall \in Call
        /\ \A c \in Refreshes : call[c] \in Call /\ call[c].project \in Watched
    BY DEF RefreshInv, RefreshTyped, Call, NoCall, CallPcs, Worker
  <1>1. ASSUME NEW c \in Refreshes, NEW p \in Watched, RefreshBegin(c, p)
        PROVE  RefreshInv' /\ FailureKept
    <2> DEFINE k == [[call[c] EXCEPT !.pc = "guard"] EXCEPT !.project = p]
    <2>1. k \in Call /\ k.pc = "guard" /\ k.worker = call[c].worker
      BY <1>0 DEF Call, CallPcs
    <2>2. call' = [call EXCEPT ![c] = k] /\ UNCHANGED <<descriptor, descDisk, guard>>
      BY <1>1 DEF RefreshBegin
    <2>3. call[c].worker = "none"  BY <1>1 DEF RefreshBegin, RefreshInv, CallsOwn
    <2> QED  BY <1>0, <2>1, <2>2, <2>3, RefreshMove DEF RefreshTyped
  <1>2. ASSUME NEW c \in Refreshes, NEW p \in Watched, RepairBegin(c, p)
        PROVE  RefreshInv' /\ FailureKept
    <2> DEFINE k == [[[call[c] EXCEPT !.pc = "permit"] EXCEPT !.project = p] EXCEPT !.repair = TRUE]
    <2>1. k \in Call /\ k.pc = "permit" /\ k.worker = call[c].worker /\ k.project = p
      BY <1>0 DEF Call, CallPcs
    <2>2. call' = [call EXCEPT ![c] = k] /\ UNCHANGED <<descriptor, descDisk>>
          /\ guard[p] = NoRefresh /\ guard' = [guard EXCEPT ![p] = c]
      BY <1>2 DEF RepairBegin
    <2>3. call[c].worker = "none"  BY <1>2 DEF RepairBegin, RefreshInv, CallsOwn
    <2> QED  BY <1>0, <2>1, <2>2, <2>3, RefreshMove DEF RefreshTyped
  <1>3. ASSUME NEW c \in Refreshes, TakeGuard(c)  PROVE RefreshInv' /\ FailureKept
    <2> DEFINE k == [call[c] EXCEPT !.pc = "permit"]
               p == call[c].project
    <2>1. k \in Call /\ k.pc = "permit" /\ k.worker = call[c].worker /\ k.project = p
      BY <1>0 DEF Call, CallPcs
    <2>2. call' = [call EXCEPT ![c] = k] /\ UNCHANGED <<descriptor, descDisk>>
          /\ guard[p] = NoRefresh /\ guard' = [guard EXCEPT ![p] = c]
      BY <1>3 DEF TakeGuard
    <2>3. call[c].worker = "none"  BY <1>3 DEF TakeGuard, RefreshInv, CallsOwn
    <2> QED  BY <1>0, <2>1, <2>2, <2>3, RefreshMove DEF RefreshTyped
  <1>4. ASSUME NEW c \in Refreshes, TakePermit(c)  PROVE RefreshInv' /\ FailureKept
    <2> DEFINE k == [[call[c] EXCEPT !.pc = "waiting"] EXCEPT !.worker = "reading"]
    <2>1. k \in Call /\ k.pc = "waiting" /\ k.project = call[c].project
      BY <1>0 DEF Call, CallPcs, Worker
    <2>2. call' = [call EXCEPT ![c] = k] /\ UNCHANGED <<descriptor, descDisk, guard>>
      BY <1>4 DEF TakePermit
    <2>3. guard[call[c].project] = c  BY <1>4 DEF TakePermit, RefreshInv, CallsOwn
    <2> QED  BY <1>0, <2>1, <2>2, <2>3, RefreshMove DEF RefreshTyped
  <1>5. ASSUME NEW c \in Refreshes, TooBusy(c)  PROVE RefreshInv' /\ FailureKept
    <2> DEFINE k == [call[c] EXCEPT !.pc = "busy"]
    <2>1. k \in Call /\ k.pc = "busy" /\ k.worker = call[c].worker
      BY <1>0 DEF Call, CallPcs
    <2>2. call' = [call EXCEPT ![c] = k] /\ UNCHANGED <<descDisk, guard>>
          /\ descriptor' = Failed(call[c].project, "busy")
      BY <1>5 DEF TooBusy
    <2>3. call[c].worker = "none"  BY <1>5 DEF TooBusy, RefreshInv, CallsOwn
    <2>4. "busy" \in Errors \ {"none"}  BY DEF Errors
    <2>5. descriptor' \in [Watched -> Descriptor]
          /\ \A q \in Watched : descriptor[q].error # "none" => descriptor'[q].error # "none"
      BY <1>0, <2>2, <2>4, FailedShows
    <2> QED  BY <1>0, <2>1, <2>2, <2>3, <2>5, RefreshMove DEF RefreshTyped
  <1>6. ASSUME NEW c \in Refreshes, BusySettles(c)  PROVE RefreshInv' /\ FailureKept
    <2>1. call[c].worker = "none"  BY <1>6 DEF BusySettles, RefreshInv, CallsOwn
    <2>2. Leaves(c, "answered")  BY <1>6 DEF BusySettles, Answers
    <2>3. PICK k \in Call : /\ call' = [call EXCEPT ![c] = k] /\ k.pc = "answered"
                            /\ k.worker # "reading"
      BY <1>0, <2>1, <2>2, LeavesShape
    <2>4. "persist" \in Errors \ {"none"}  BY DEF Errors
    <2>5. descriptor' \in [Watched -> Descriptor] /\ descDisk' \in [Watched -> Descriptor]
          /\ \A q \in Watched : descriptor[q].error # "none" => descriptor'[q].error # "none"
      BY <1>0, <1>6, <2>4, FailedShows DEF BusySettles, RefreshTyped
    <2>6. guard' \in [Watched -> Refreshes \cup {NoRefresh}]
          /\ \A p \in Watched : guard[p] \in Refreshes \ {c} => guard'[p] = guard[p]
      BY <1>0, <1>6 DEF BusySettles, ReleasedBy, RefreshTyped
    <2> QED  BY <2>3, <2>5, <2>6, RefreshMove
  <1>7. ASSUME NEW c \in Refreshes, Deadline(c)  PROVE RefreshInv' /\ FailureKept
    <2> DEFINE k == [call[c] EXCEPT !.late = TRUE]
    <2>1. k \in Call /\ k.pc = call[c].pc /\ k.worker = call[c].worker
          /\ k.project = call[c].project
      BY <1>0 DEF Call
    <2>2. call' = [call EXCEPT ![c] = k] /\ UNCHANGED <<descriptor, descDisk, guard>>
      BY <1>7 DEF Deadline
    <2>3. call[c].worker = "reading" /\ guard[call[c].project] = c
          /\ call[c].pc \notin {"idle", "guard", "permit", "busy"}
          /\ (call[c].pc = "answered" => descriptor[call[c].project].error # "none")
      BY <1>7 DEF Deadline, RefreshInv, CallsOwn, QuarantineShown, Reading
    <2> QED  BY <1>0, <2>1, <2>2, <2>3, RefreshMove DEF RefreshTyped
  <1>8. ASSUME NEW c \in Refreshes, WorkerDone(c)  PROVE RefreshInv' /\ FailureKept
    <2> DEFINE p == call[c].project
               k == IF Left(c) THEN [NoCall EXCEPT !.pc = call[c].pc]
                               ELSE [call[c] EXCEPT !.worker = "done"]
    <2>1. call[c].worker = "reading" /\ guard[p] = c
          /\ call[c].pc \notin {"idle", "guard", "permit", "busy"}
      BY <1>8 DEF WorkerDone, RefreshInv, CallsOwn
    <2>2. k \in Call /\ k.worker # "reading" /\ k.pc = call[c].pc
      BY <1>0 DEF Call, Worker, CallPcs, NoCall
    <2>3. call' = [call EXCEPT ![c] = k]  BY <1>8 DEF WorkerDone
    <2>4. PICK result \in {Failed(p, "failed"), Observed(p)} :
            \/ descriptor' = result /\ descDisk' = result
            \/ descriptor' = [result EXCEPT ![p].error = "persist"] /\ UNCHANGED descDisk
      BY <1>8 DEF WorkerDone
    <2>5. result \in [Watched -> Descriptor]
          /\ \A q \in Watched \ {p} : result[q] = descriptor[q]
      <3>1. CASE result = Failed(p, "failed")
        BY <1>0, <3>1 DEF Failed, RefreshTyped, Descriptor, Errors
      <3>2. CASE result = Observed(p)
        BY <1>0, <3>2 DEF Observed, RefreshTyped, Descriptor, Errors
      <3> QED  BY <2>4, <3>1, <3>2
    <2>6. descriptor' \in [Watched -> Descriptor] /\ descDisk' \in [Watched -> Descriptor]
          /\ \A q \in Watched \ {p} : descriptor'[q] = descriptor[q]
      <3>1. [result EXCEPT ![p].error = "persist"] \in [Watched -> Descriptor]
        BY <1>0, <2>5 DEF Descriptor, Errors
      <3>2. \A q \in Watched \ {p} :
              [result EXCEPT ![p].error = "persist"][q] = descriptor[q]
        BY <2>5
      <3> QED  BY <1>0, <2>4, <2>5, <3>1, <3>2 DEF RefreshTyped
    <2>7. guard' \in [Watched -> Refreshes \cup {NoRefresh}]
          /\ \A q \in Watched : guard[q] \in Refreshes \ {c} => guard'[q] = guard[q]
      BY <1>0, <1>8 DEF WorkerDone, ReleasedBy, RefreshTyped
    <2> HIDE DEF k
    <2> QED  BY <2>1, <2>2, <2>3, <2>6, <2>7, RefreshMove
  <1>9. ASSUME NEW c \in Refreshes, GivesUp(c)  PROVE RefreshInv' /\ FailureKept
    <2>1. Leaves(c, "answered") /\ call[c].worker = "reading" /\ guard[call[c].project] = c
          /\ UNCHANGED guard
      BY <1>9 DEF GivesUp, Answers, RefreshInv, CallsOwn
    <2>2. PICK k \in Call : /\ call' = [call EXCEPT ![c] = k] /\ k.pc = "answered"
                            /\ k.worker = "reading" => k.project = call[c].project
      BY <1>0, <2>1, LeavesShape
    <2>3. "unconfirmed" \in Errors \ {"none"}  BY DEF Errors
    <2>4. /\ descriptor' \in [Watched -> Descriptor] /\ descDisk' \in [Watched -> Descriptor]
          /\ \A q \in Watched : descriptor[q].error # "none" => descriptor'[q].error # "none"
          /\ descriptor'[call[c].project].error # "none"
      BY <1>0, <1>9, <2>3, FailedShows DEF GivesUp, RefreshTyped
    <2> QED  BY <1>0, <2>1, <2>2, <2>4, RefreshMove DEF RefreshTyped
  <1>10. ASSUME NEW c \in Refreshes, CallReturns(c)  PROVE RefreshInv' /\ FailureKept
    <2>1. Leaves(c, "answered") /\ call[c].worker = "done" /\ UNCHANGED <<descriptor, descDisk, guard>>
      BY <1>10 DEF CallReturns, Answers
    <2>2. PICK k \in Call : /\ call' = [call EXCEPT ![c] = k] /\ k.pc = "answered"
                            /\ k.worker # "reading"
      BY <1>0, <2>1, LeavesShape
    <2> QED  BY <1>0, <2>1, <2>2, RefreshMove DEF RefreshTyped
  <1>11. ASSUME NEW p \in Watched, FallsDue(p)  PROVE RefreshInv' /\ FailureKept
    <2>1. descriptor' \in [Watched -> Descriptor]
          /\ \A q \in Watched : descriptor'[q].error = descriptor[q].error
      BY <1>0, <1>11 DEF FallsDue, RefreshTyped, Descriptor
    <2> QED  BY <1>0, <1>11, <2>1 DEF FallsDue, RefreshInv, RefreshTyped, CallsOwn,
                                      QuarantineShown, Reading, FailureKept
  <1>12. CASE RefreshRestart
    <2>1. \A c \in Refreshes : /\ call'[c] \in Call /\ call'[c].worker = "none"
                               /\ call'[c].pc \in {"idle", "answered", "dropped"}
      BY <1>0, <1>12 DEF RefreshRestart, Left, NoCall, Call, CallPcs
    <2>2. RefreshTyped'  BY <1>0, <1>12, <2>1 DEF RefreshRestart, RefreshTyped
    <2> QED  BY <2>1, <2>2 DEF RefreshInv, CallsOwn, QuarantineShown, Reading, FailureKept
  <1>13. ASSUME NEW c \in Refreshes, CallerDropped(c)  PROVE RefreshInv' /\ FailureKept
    <2>1. Leaves(c, "dropped") /\ UNCHANGED <<descriptor, descDisk>>
          /\ (call[c].worker = "reading" => guard[call[c].project] = c)
          /\ guard' = IF call[c].worker = "reading" THEN guard ELSE ReleasedBy(c)
      BY <1>13 DEF CallerDropped, RefreshInv, CallsOwn
    <2>2. PICK k \in Call : /\ call' = [call EXCEPT ![c] = k] /\ k.pc = "dropped"
                            /\ k.worker = "reading" =>
                                 call[c].worker = "reading" /\ k.project = call[c].project
      BY <1>0, <2>1, LeavesShape
    <2>3. guard' \in [Watched -> Refreshes \cup {NoRefresh}]
          /\ (\A p \in Watched : guard[p] \in Refreshes \ {c} => guard'[p] = guard[p])
          /\ (k.worker = "reading" => guard'[k.project] = c)
      BY <1>0, <2>1, <2>2 DEF ReleasedBy, RefreshTyped
    <2> QED  BY <1>0, <2>1, <2>2, <2>3, RefreshMove DEF RefreshTyped
  <1>14. CASE UNCHANGED refreshVars
    BY <1>14 DEF refreshVars, RefreshInv, RefreshTyped, CallsOwn, QuarantineShown, Reading,
                 FailureKept
  <1> QED  BY <1>1, <1>2, <1>3, <1>4, <1>5, <1>6, <1>7, <1>8, <1>9, <1>10, <1>11, <1>12, <1>13,
              <1>14 DEF RefreshNext, CallRuns

LEMMA RefreshStarts == RefreshInit => RefreshInv
  BY RefreshAssumption DEF RefreshInit, RefreshInv, RefreshTyped, CallsOwn, QuarantineShown,
     Reading, Descriptor, Errors, NoCall, Call, CallPcs, Worker

\* For any number of projects, calls and permits, and callers that are answered, give up
\* or are dropped: a reader that may still run Git owns its mirror, and its project shows
\* a failure once its caller gave it up.
THEOREM Quarantined == RefreshSpec => []ReaderQuarantined
  <1>1. RefreshInv => ReaderQuarantined
    BY DEF RefreshInv, ReaderQuarantined, ReaderOwnsMirror, CallsOwn, Reading
  <1> QED  BY <1>1, RefreshStarts, RefreshStep, PTL DEF RefreshSpec

\* Likewise: no call, repair or refused snapshot takes back the failure shown of a project
\* while a reader is at large in it.
THEOREM FailuresStay == RefreshSpec => FailureStays
  <1>1. RefreshInv /\ [RefreshNext]_refreshVars => [FailureKept]_refreshVars
    BY RefreshStep
  <1>2. FailureStays <=> [][FailureKept]_refreshVars
    BY PTL DEF FailureStays, FailureKept
  <1> QED  BY <1>1, <1>2, RefreshStarts, RefreshStep, PTL DEF RefreshSpec

-----------------------------------------------------------------------------
(* Enrollment: late receipts, and what is durable before Memory is called *)

\* What there is to send of a revision is of that revision.
IntentOf(e) == e.snapshot \in {NoSnapshot, [revision |-> e.revision, commit |-> e.desired]}

\* e goes on from d: to a later revision, or with its commit, namespace and snapshot.
Follows(d, e) ==
  /\ e.revision >= d.revision
  /\ e.revision = d.revision =>
       /\ e.desired = d.desired /\ e.namespace = d.namespace
       /\ d.snapshot \in {NoSnapshot, e.snapshot}

\* Memory goes on from the disk.
DiskHolds == IntentOf(enrolled) /\ IntentOf(enrollDisk) /\ Follows(enrollDisk, enrolled)

\* DurableBeforeMemory, of one snapshot.
OnDisk(s) ==
  s = NoSnapshot \/ s = enrollDisk.snapshot \/ s.revision < enrollDisk.revision

IsCurrent(e) ==
  e.phase = "indexed" => /\ e.confirmed = [revision |-> e.revision, commit |-> e.desired]
                         /\ index[e.namespace].revision >= e.revision

\* What a call is about: the revision now enrolled, as it is enrolled, or an older one.
SentOf(k) ==
  k.pc \in {"named", "posted", "answered"} =>
    /\ k.snapshot.revision <= enrolled.revision
    /\ k.snapshot.revision = enrolled.revision =>
         /\ k.snapshot.commit = enrolled.desired
         /\ k.pc # "named" => k.namespace = enrolled.namespace

\* What Memory accepted it still holds, or something newer.
AcceptedOf(k) ==
  k.pc = "answered" /\ k.answer \in {"indexed", "pending"} =>
    index[k.namespace].revision >= k.snapshot.revision

\* What is sent, or with Memory whoever waits for it, was durable before; Memory has
\* nothing of what was not sent.
SavedOf(k) ==
  /\ k.pc \in {"idle", "collect", "refused", "named"} => k.memory = "none"
  /\ k.pc = "named" \/ k.memory # "none" => OnDisk(k.snapshot)

Claims(k) == SentOf(k) /\ AcceptedOf(k) /\ SavedOf(k)

EnrollmentTyped ==
  /\ head \in Commits0
  /\ enrolled \in Enrolled /\ enrollDisk \in Enrolled
  /\ reconciler \in [Reconcilers -> Reconciler]
  /\ index \in [Namespaces -> Snapshot]

EnrollmentInv ==
  /\ EnrollmentTyped /\ DiskHolds
  /\ IsCurrent(enrolled) /\ IsCurrent(enrollDisk)
  /\ \A r \in Reconcilers : Claims(reconciler[r])
  /\ \A n \in Namespaces : OnDisk(index[n])

\* A step of the enrollment, in memory and on disk.
CarriesOn ==
  /\ enrolled' \in Enrolled /\ enrollDisk' \in Enrolled /\ DiskHolds'
  /\ IsCurrent(enrolled)' /\ IsCurrent(enrollDisk)'
  /\ Follows(enrolled, enrolled') /\ Follows(enrollDisk, enrollDisk')

LEMMA FollowsOn ==
  ASSUME NEW a \in Enrolled, NEW b \in Enrolled, NEW c \in Enrolled
  PROVE  /\ Follows(a, a)
         /\ Follows(a, b) /\ Follows(b, c) => Follows(a, c)
  BY DEF Follows, Enrolled

\* What the disk holds or is past, it holds or is past after any step of the enrollment.
LEMMA OnDiskStays ==
  ASSUME EnrollmentInv, enrollDisk' \in Enrolled, Follows(enrollDisk, enrollDisk'),
         NEW s \in Snapshot, OnDisk(s)
  PROVE  OnDisk(s)'
  <1>1. enrollDisk.revision \in Nat /\ enrollDisk'.revision \in Nat /\ s.revision \in Nat
    BY DEF EnrollmentInv, EnrollmentTyped, Enrolled, Snapshot
  <1>2. CASE s = enrollDisk.snapshot /\ s # NoSnapshot
    <2>1. s.revision = enrollDisk.revision
      BY <1>2 DEF EnrollmentInv, DiskHolds, IntentOf
    <2> QED  BY <1>1, <1>2, <2>1 DEF OnDisk, Follows
  <1>3. CASE s.revision < enrollDisk.revision
    BY <1>1, <1>3 DEF OnDisk, Follows
  <1> QED  BY <1>2, <1>3 DEF OnDisk

\* Memory as it is, one call moves, the enrollment goes on to a later one.
LEMMA EnrollmentMove ==
  ASSUME EnrollmentInv, UNCHANGED <<head, index>>, CarriesOn,
         reconciler' \in [Reconcilers -> Reconciler],
         \A r \in Reconcilers : reconciler'[r] = reconciler[r] \/ Claims(reconciler[r])'
  PROVE  EnrollmentInv'
  <1>1. ASSUME NEW r \in Reconcilers, reconciler'[r] = reconciler[r]
        PROVE  Claims(reconciler[r])'
    <2>1. reconciler[r].snapshot.revision \in Nat /\ enrolled.revision \in Nat
          /\ enrolled'.revision \in Nat /\ reconciler[r].snapshot \in Snapshot
      BY DEF EnrollmentInv, EnrollmentTyped, Reconciler, Snapshot, Enrolled, CarriesOn
    <2>2. SentOf(reconciler[r]) /\ AcceptedOf(reconciler[r]) /\ SavedOf(reconciler[r])
      BY DEF EnrollmentInv, Claims
    <2>3. SentOf(reconciler[r])'
      BY <1>1, <2>1, <2>2 DEF SentOf, CarriesOn, Follows
    <2>4. SavedOf(reconciler[r])'
      BY <1>1, <2>1, <2>2, OnDiskStays DEF SavedOf, CarriesOn
    <2> QED  BY <1>1, <2>2, <2>3, <2>4 DEF AcceptedOf, Claims
  <1>2. \A n \in Namespaces : OnDisk(index[n])'
    <2> TAKE n \in Namespaces
    <2>1. index[n] \in Snapshot /\ OnDisk(index[n]) /\ index' = index
      BY DEF EnrollmentInv, EnrollmentTyped
    <2>2. OnDisk(index[n])' <=> OnDisk(index[n]) \/ OnDisk(index[n])'
      BY <2>1, OnDiskStays DEF CarriesOn, OnDisk
    <2> QED  BY <2>1, <2>2
  <1> QED  BY <1>1, <1>2 DEF EnrollmentInv, EnrollmentTyped, CarriesOn

\* update of a good enrollment leaves a good one, in memory and on disk.
LEMMA UpdatedKeeps ==
  ASSUME EnrollmentInv, NEW e \in Enrolled, IsCurrent(e), IntentOf(e), Follows(enrolled, e),
         UNCHANGED index, Updated(e)
  PROVE  /\ CarriesOn
         /\ enrolled'.revision = e.revision /\ enrolled'.desired = e.desired
         /\ enrolled'.namespace = e.namespace
         /\ enrolled'.phase # "uncertain" => enrollDisk' = e
  <1> DEFINE doubt0 == [e EXCEPT !.phase = "uncertain"]
  <1>0. enrolled \in Enrolled /\ enrollDisk \in Enrolled /\ Follows(enrollDisk, enrolled)
        /\ IntentOf(enrollDisk)
    BY DEF EnrollmentInv, EnrollmentTyped, DiskHolds
  <1>1. doubt0 \in Enrolled /\ doubt0.phase = "uncertain" /\ doubt0.revision = e.revision
        /\ doubt0.desired = e.desired /\ doubt0.namespace = e.namespace
        /\ doubt0.snapshot = e.snapshot
    BY DEF Enrolled, Phases
  <1>2. Follows(enrollDisk, e) /\ Follows(e, e) /\ Follows(enrollDisk, enrollDisk)
    BY <1>0, FollowsOn
  <1>3. CASE enrolled' = e /\ enrollDisk' = e
    BY <1>0, <1>2, <1>3 DEF CarriesOn, DiskHolds, IsCurrent
  <1>4. CASE enrolled' = doubt0 /\ enrollDisk' \in {enrollDisk, e}
    <2> HIDE DEF doubt0
    <2>1. Follows(enrolled, doubt0) /\ Follows(enrollDisk, doubt0) /\ Follows(e, doubt0)
          /\ IntentOf(doubt0)
      BY <1>1, <1>2 DEF Follows, IntentOf
    <2>2. IsCurrent(enrolled)' /\ IsCurrent(enrollDisk)'
      BY <1>1, <1>4 DEF IsCurrent, EnrollmentInv
    <2> QED  BY <1>0, <1>1, <1>2, <1>4, <2>1, <2>2 DEF CarriesOn, DiskHolds
  <1> QED  BY <1>0, <1>1, <1>3, <1>4 DEF Updated

\* A change of the phase alone, to one that promises nothing.
LEMMA PhaseKeeps ==
  ASSUME EnrollmentInv, NEW phase \in Phases \ {"indexed"}, NEW e,
         e = [enrolled EXCEPT !.phase = phase] \/ e = enrolled
  PROVE  e \in Enrolled /\ IsCurrent(e) /\ IntentOf(e) /\ Follows(enrolled, e)
  <1>1. enrolled.revision \in Nat /\ enrolled \in Enrolled /\ IsCurrent(enrolled)
        /\ IntentOf(enrolled)
    BY DEF EnrollmentInv, EnrollmentTyped, Enrolled, DiskHolds
  <1>2. CASE e = [enrolled EXCEPT !.phase = phase]
    <2>1. /\ e \in Enrolled /\ e.phase # "indexed" /\ e.revision = enrolled.revision
          /\ e.desired = enrolled.desired /\ e.namespace = enrolled.namespace
          /\ e.snapshot = enrolled.snapshot
      BY <1>1, <1>2 DEF Enrolled
    <2> QED  BY <1>1, <2>1 DEF IsCurrent, IntentOf, Follows
  <1>3. CASE e = enrolled  BY <1>1, <1>3, FollowsOn
  <1> QED  BY <1>2, <1>3

\* An observation of the head, whether its snapshot is written or not.
LEMMA ObservesKeeps ==
  ASSUME EnrollmentInv, UNCHANGED index, Observes
  PROVE  CarriesOn
  <1> DEFINE moved == [enrolled EXCEPT !.revision = @ + 1, !.desired = head,
                                       !.snapshot = NoSnapshot, !.phase = "awaiting"]
             looked == IF enrolled.desired = head THEN enrolled ELSE moved
             off  == [looked EXCEPT !.phase = "disabled"]
  <1>1. enrolled \in Enrolled /\ enrollDisk \in Enrolled /\ head \in Commits0
        /\ enrolled.revision \in Nat /\ NoSnapshot \in Snapshot
        /\ IntentOf(enrolled) /\ IntentOf(enrollDisk) /\ Follows(enrollDisk, enrolled)
    BY EnrollmentAssumption
       DEF EnrollmentInv, EnrollmentTyped, DiskHolds, Enrolled, NoSnapshot, Snapshot, Commits0
  <1>2. /\ moved \in Enrolled /\ moved.revision = enrolled.revision + 1
        /\ moved.snapshot = NoSnapshot /\ moved.phase = "awaiting"
    <2> DEFINE m1 == [enrolled EXCEPT !.revision = enrolled.revision + 1]
               m2 == [m1 EXCEPT !.desired = head]
               m3 == [m2 EXCEPT !.snapshot = NoSnapshot]
               m4 == [m3 EXCEPT !.phase = "awaiting"]
    <2>1. moved = m4  OBVIOUS
    <2>2. m1 \in Enrolled /\ m1.revision = enrolled.revision + 1
      BY <1>1 DEF Enrolled
    <2> HIDE DEF m1
    <2>3. m2 \in Enrolled /\ m2.revision = m1.revision
      BY <1>1, <2>2 DEF Enrolled
    <2> HIDE DEF m2
    <2>4. m3 \in Enrolled /\ m3.revision = m2.revision /\ m3.snapshot = NoSnapshot
      BY <1>1, <2>3 DEF Enrolled
    <2> HIDE DEF m3
    <2>5. m4 \in Enrolled /\ m4.revision = m3.revision /\ m4.snapshot = m3.snapshot
          /\ m4.phase = "awaiting"
      BY <2>4 DEF Enrolled, Phases
    <2> HIDE DEF m4, moved
    <2> QED  BY <2>1, <2>2, <2>3, <2>4, <2>5
  <1>3. /\ looked \in Enrolled /\ Follows(enrolled, looked) /\ IsCurrent(looked)
        /\ IntentOf(looked)
    <2> HIDE DEF moved
    <2>1. CASE enrolled.desired = head
      BY <1>1, <2>1, FollowsOn DEF EnrollmentInv
    <2>2. CASE enrolled.desired # head
      BY <1>1, <1>2, <2>2 DEF Follows, IsCurrent, IntentOf
    <2> QED  BY <2>1, <2>2
  <1>4. /\ off \in Enrolled /\ Follows(enrolled, off) /\ off.phase = "disabled"
        /\ IntentOf(off)
    <2> HIDE DEF looked
    <2>1. /\ off \in Enrolled /\ off.phase = "disabled" /\ off.snapshot = looked.snapshot
          /\ off.revision = looked.revision /\ off.desired = looked.desired
          /\ off.namespace = looked.namespace
      BY <1>3 DEF Enrolled, Phases
    <2> QED  BY <1>3, <2>1 DEF Follows, IntentOf
  <1>5. \/ enrolled.phase = "uncertain" /\ enrolled' = enrolled
        \/ enrolled.phase # "uncertain" /\ enrolled' \in {looked, off}
    BY DEF Observes, Observe
  <1> HIDE DEF looked, off
  <1>6. enrolled' \in Enrolled /\ Follows(enrolled, enrolled') /\ IsCurrent(enrolled)'
        /\ IntentOf(enrolled')
    BY <1>1, <1>3, <1>4, <1>5, FollowsOn DEF IsCurrent, EnrollmentInv
  <1>7. enrollDisk' \in {enrolled', enrollDisk}  BY DEF Observes
  <1>8. Follows(enrollDisk, enrolled') /\ Follows(enrolled', enrolled')
        /\ Follows(enrollDisk, enrollDisk)
    BY <1>1, <1>6, FollowsOn
  <1>9. IsCurrent(enrollDisk)'
    BY <1>6, <1>7 DEF IsCurrent, EnrollmentInv
  <1> QED  BY <1>1, <1>6, <1>7, <1>8, <1>9 DEF CarriesOn, DiskHolds

\* One call moves on to k.
LEMMA CallMoves ==
  ASSUME EnrollmentInv, NEW r \in Reconcilers, NEW k \in Reconciler,
         reconciler' = [reconciler EXCEPT ![r] = k], UNCHANGED <<head, index>>, CarriesOn,
         Claims(k)'
  PROVE  EnrollmentInv'
  <1>1. reconciler' \in [Reconcilers -> Reconciler] /\ reconciler'[r] = k
        /\ \A q \in Reconcilers \ {r} : reconciler'[q] = reconciler[q]
    BY DEF EnrollmentInv, EnrollmentTyped
  <1>2. Claims(reconciler[r])'
    BY <1>1 DEF Claims, SentOf, AcceptedOf, SavedOf, OnDisk
  <1>3. ASSUME NEW q \in Reconcilers
        PROVE  reconciler'[q] = reconciler[q] \/ Claims(reconciler[q])'
    BY <1>1, <1>2
  <1> QED  BY <1>1, <1>3, EnrollmentMove

\* Nothing of the enrollment changes.
LEMMA Untouched ==
  ASSUME EnrollmentInv, UNCHANGED <<enrolled, enrollDisk, index>>
  PROVE  CarriesOn
  <1>1. enrolled \in Enrolled /\ enrollDisk \in Enrolled
    BY DEF EnrollmentInv, EnrollmentTyped
  <1>2. Follows(enrolled, enrolled) /\ Follows(enrollDisk, enrollDisk)
    BY <1>1, FollowsOn
  <1> QED  BY <1>1, <1>2 DEF EnrollmentInv, DiskHolds, IsCurrent, CarriesOn

\* What is left of a call that is over is what Memory may still do.
LEMMA OverShape ==
  ASSUME NEW c \in Reconciler
  PROVE  /\ Over(c) \in Reconciler /\ Over(c).pc = "over" /\ Over(c).memory = c.memory
         /\ c.memory # "none" => Over(c).snapshot = c.snapshot
  <1>1. NoReconciler \in Reconciler /\ NoReconciler.memory = "none"
    BY EnrollmentAssumption DEF NoReconciler, Reconciler, ReconcilerPcs, Answers0, NoSnapshot,
                                Snapshot, Commits0, Namespaces
  <1>2. CASE c.memory = "none"
    BY <1>1, <1>2 DEF Over, Reconciler, ReconcilerPcs
  <1>3. CASE c.memory # "none"
    <2> DEFINE c1 == [c EXCEPT !.pc = "over"]
    <2>1. c1 \in Reconciler /\ c1.pc = "over" /\ c1.memory = c.memory
          /\ c1.snapshot = c.snapshot
      BY DEF Reconciler, ReconcilerPcs
    <2>2. Over(c) = [c1 EXCEPT !.answer = "none"]  BY <1>3 DEF Over
    <2> HIDE DEF c1
    <2> QED  BY <2>1, <2>2 DEF Reconciler, Answers0
  <1> QED  BY <1>2, <1>3

LEMMA EnrollmentStep ==
  ASSUME EnrollmentInv, [EnrollmentNext]_enrollmentVars
  PROVE  EnrollmentInv'
  <1>0. /\ \A r \in Reconcilers : /\ reconciler[r] \in Reconciler
                                  /\ SentOf(reconciler[r]) /\ AcceptedOf(reconciler[r])
                                  /\ SavedOf(reconciler[r])
                                  /\ reconciler[r].snapshot \in Snapshot
                                  /\ reconciler[r].snapshot.revision \in Nat
        /\ enrolled \in Enrolled /\ enrollDisk \in Enrolled /\ enrolled.revision \in Nat
        /\ enrolled.namespace \in Namespaces
        /\ IntentOf(enrolled) /\ IntentOf(enrollDisk) /\ Follows(enrollDisk, enrolled)
    BY DEF EnrollmentInv, EnrollmentTyped, Enrolled, Reconciler, Snapshot, Claims, DiskHolds
  <1>19. ASSUME NEW r \in Reconcilers, NEW c \in Reconciler, CarriesOn,
                c.snapshot = reconciler[r].snapshot, reconciler[r].memory # "none"
         PROVE  OnDisk(c.snapshot)'
    <2>1. PICK s \in Snapshot : s = c.snapshot  BY <1>0, <1>19
    <2>2. OnDisk(s)  BY <1>0, <1>19, <2>1 DEF SavedOf
    <2>3. OnDisk(s)'  BY <1>0, <1>19, <2>2, OnDiskStays DEF CarriesOn
    <2> QED  BY <2>1, <2>3
  \* A call that ends says nothing; what it sent was durable.
  <1>1. ASSUME NEW r \in Reconcilers, Ended(r), UNCHANGED <<head, index>>, CarriesOn
        PROVE  EnrollmentInv'
    <2> DEFINE k == Over(reconciler[r])
    <2>1. k \in Reconciler /\ k.pc = "over" /\ k.memory = reconciler[r].memory
          /\ (k.memory # "none" => k.snapshot = reconciler[r].snapshot)
      BY <1>0, OverShape
    <2>2. reconciler' = [reconciler EXCEPT ![r] = k]
      BY <1>1 DEF Ended, EnrollmentInv, EnrollmentTyped
    <2> HIDE DEF k
    <2>3. PICK c \in Reconciler : c = k  BY <2>1
    <2>4. SavedOf(c)'  BY <1>1, <1>19, <2>1, <2>3 DEF SavedOf
    <2>5. Claims(c)'  BY <2>1, <2>3, <2>4 DEF SentOf, AcceptedOf, Claims
    <2> QED  BY <1>1, <2>2, <2>3, <2>5, CallMoves
  <1>2. CASE RefreshObserves
    BY <1>0, <1>2, ObservesKeeps, EnrollmentMove DEF RefreshObserves, EnrollmentInv, EnrollmentTyped
  <1>3. ASSUME NEW r \in Reconcilers, ReconcileBegin(r)  PROVE EnrollmentInv'
    <2> DEFINE k == [reconciler[r] EXCEPT !.pc = "collect"]
    <2>1. k \in Reconciler /\ k.pc = "collect" /\ k.memory = reconciler[r].memory
          /\ k.snapshot = reconciler[r].snapshot
      BY <1>0 DEF Reconciler, ReconcilerPcs
    <2>2. reconciler' = [reconciler EXCEPT ![r] = k] /\ UNCHANGED <<head, index>> /\ CarriesOn
      BY <1>3, ObservesKeeps DEF ReconcileBegin, To
    <2> HIDE DEF k
    <2>3. PICK c \in Reconciler : c = k  BY <2>1
    <2>4. k.memory = "none"  BY <1>0, <1>3, <2>1 DEF ReconcileBegin, SavedOf
    <2>5. Claims(c)'  BY <2>1, <2>3, <2>4 DEF SentOf, AcceptedOf, SavedOf, Claims
    <2> QED  BY <2>2, <2>3, <2>5, CallMoves
  <1>4. ASSUME NEW r \in Reconcilers, ReconcileNotNow(r)  PROVE EnrollmentInv'
    <2>1. Ended(r) /\ UNCHANGED <<head, index>>  BY <1>4 DEF ReconcileNotNow
    <2>2. CASE UNCHANGED <<enrolled, enrollDisk>>  BY <1>1, <2>1, <2>2, Untouched
    <2>3. CASE Updated([enrolled EXCEPT !.phase = "awaiting"])
      <3>1. "awaiting" \in Phases \ {"indexed"}  BY DEF Phases
      <3> QED  BY <1>1, <2>1, <2>3, <3>1, PhaseKeeps, UpdatedKeeps
    <2> QED  BY <1>4, <2>2, <2>3 DEF ReconcileNotNow
  <1>5. ASSUME NEW r \in Reconcilers, Collect(r)  PROVE EnrollmentInv'
    <2> DEFINE s  == [revision |-> enrolled.revision, commit |-> enrolled.desired]
               e1 == [enrolled EXCEPT !.snapshot = s]
               e  == [e1 EXCEPT !.phase = "pending"]
               pc == IF enrolled'.phase = "pending" THEN "named" ELSE "refused"
               k1 == [reconciler[r] EXCEPT !.pc = pc]
               k  == [k1 EXCEPT !.snapshot = s]
    <2>1. s \in Snapshot /\ s.revision = enrolled.revision /\ s.commit = enrolled.desired
          /\ enrolled.snapshot \in {NoSnapshot, s}
      BY <1>0 DEF Snapshot, Enrolled, IntentOf
    <2>2. e1 \in Enrolled /\ e1.revision = enrolled.revision /\ e1.desired = enrolled.desired
          /\ e1.namespace = enrolled.namespace /\ e1.snapshot = s
      BY <1>0, <2>1 DEF Enrolled
    <2>3. Updated(e) /\ reconciler' = [reconciler EXCEPT ![r] = k] /\ UNCHANGED <<head, index>>
      BY <1>5 DEF Collect
    <2> HIDE DEF e1
    <2>4. e \in Enrolled /\ e.phase = "pending" /\ e.revision = enrolled.revision
          /\ e.desired = enrolled.desired /\ e.namespace = enrolled.namespace
          /\ e.snapshot = s
      BY <2>2 DEF Enrolled, Phases
    <2> HIDE DEF e
    <2>5. IsCurrent(e) /\ IntentOf(e)  BY <2>4 DEF IsCurrent, IntentOf
    <2> HIDE DEF s
    <2>6. Follows(enrolled, e)  BY <1>0, <2>1, <2>4 DEF Follows
    <2>7. /\ CarriesOn
          /\ enrolled'.revision = e.revision /\ enrolled'.desired = e.desired
          /\ enrolled'.phase # "uncertain" => enrollDisk' = e
      BY <2>3, <2>4, <2>5, <2>6, UpdatedKeeps
    <2>8. k1 \in Reconciler /\ k1.pc = pc /\ k1.memory = reconciler[r].memory
          /\ k1.snapshot = reconciler[r].snapshot
      BY <1>0 DEF Reconciler, ReconcilerPcs
    <2> HIDE DEF k1
    <2>9. k \in Reconciler /\ k.pc = pc /\ k.snapshot = s /\ k.memory = reconciler[r].memory
      BY <2>1, <2>8 DEF Reconciler
    <2> HIDE DEF k
    <2>10. PICK c \in Reconciler : c = k  BY <2>9
    <2>11. SentOf(c)' /\ AcceptedOf(c)'
      BY <1>0, <2>1, <2>4, <2>7, <2>9, <2>10 DEF SentOf, AcceptedOf
    <2>12. SavedOf(c)'
      <3>1. reconciler[r].memory = "none"  BY <1>0, <1>5 DEF Collect, SavedOf
      <3>2. CASE pc = "named"
        <4>1. enrollDisk'.snapshot = s  BY <2>4, <2>7, <3>2
        <4> QED  BY <2>9, <2>10, <3>1, <4>1 DEF SavedOf, OnDisk
      <3>3. CASE pc # "named"
        BY <2>9, <2>10, <3>1, <3>3 DEF SavedOf
      <3> QED  BY <3>2, <3>3
    <2> QED  BY <2>3, <2>7, <2>10, <2>11, <2>12, CallMoves DEF Claims
  <1>6. ASSUME NEW revision, NEW phase \in Phases \ {"indexed"}, Fail(revision, phase),
               UNCHANGED index
        PROVE  CarriesOn
    <2>1. PICK e \in {[enrolled EXCEPT !.phase = phase], enrolled} : Updated(e)
      BY <1>6 DEF Fail
    <2>2. e \in Enrolled /\ IsCurrent(e) /\ IntentOf(e) /\ Follows(enrolled, e)
      BY <2>1, PhaseKeeps
    <2> QED  BY <1>6, <2>1, <2>2, UpdatedKeeps
  <1>18. ASSUME NEW r \in Reconcilers, CollectRefuses(r)  PROVE EnrollmentInv'
    <2> DEFINE s  == [revision |-> enrolled.revision, commit |-> enrolled.desired]
               k1 == [reconciler[r] EXCEPT !.pc = "refused"]
               k  == [k1 EXCEPT !.snapshot = s]
    <2>1. s \in Snapshot  BY <1>0 DEF Snapshot, Enrolled
    <2>2. reconciler' = [reconciler EXCEPT ![r] = k]
          /\ UNCHANGED <<head, enrolled, enrollDisk, index>>
      BY <1>18 DEF CollectRefuses
    <2> HIDE DEF s
    <2>3. k1 \in Reconciler /\ k1.pc = "refused" /\ k1.memory = "none"
      BY <1>0, <1>18 DEF CollectRefuses, Reconciler, ReconcilerPcs, SavedOf
    <2> HIDE DEF k1
    <2>4. k \in Reconciler /\ k.pc = "refused" /\ k.memory = "none"
      BY <2>1, <2>3 DEF Reconciler
    <2> HIDE DEF k
    <2>5. PICK c \in Reconciler : c = k  BY <2>4
    <2>6. Claims(c)'  BY <2>4, <2>5 DEF SentOf, AcceptedOf, SavedOf, Claims
    <2> QED  BY <2>2, <2>5, <2>6, Untouched, CallMoves
  <1>7. ASSUME NEW r \in Reconcilers, CollectFails(r)  PROVE EnrollmentInv'
    <2>1. "failed" \in Phases \ {"indexed"}  BY DEF Phases
    <2> QED  BY <1>1, <1>6, <1>7, <2>1 DEF CollectFails
  <1>8. ASSUME NEW r \in Reconcilers, Named(r)  PROVE EnrollmentInv'
    <2> DEFINE k1 == [reconciler[r] EXCEPT !.pc = "posted"]
               k2 == [k1 EXCEPT !.memory = "asked"]
               k  == [k2 EXCEPT !.namespace = enrolled.namespace]
    <2>1. k1 \in Reconciler /\ k1.pc = "posted" /\ k1.snapshot = reconciler[r].snapshot
      BY <1>0 DEF Reconciler, ReconcilerPcs
    <2>2. reconciler[r].pc = "named" /\ reconciler' = [reconciler EXCEPT ![r] = k]
          /\ UNCHANGED <<head, enrolled, enrollDisk, index>>
      BY <1>8 DEF Named
    <2> HIDE DEF k1
    <2>3. k2 \in Reconciler /\ k2.pc = "posted" /\ k2.snapshot = reconciler[r].snapshot
      BY <2>1 DEF Reconciler
    <2> HIDE DEF k2
    <2>4. k \in Reconciler /\ k.pc = "posted" /\ k.snapshot = reconciler[r].snapshot
          /\ k.namespace = enrolled.namespace
      BY <1>0, <2>3 DEF Reconciler
    <2> HIDE DEF k
    <2>5. PICK c \in Reconciler : c = k  BY <2>4
    <2>6. SentOf(c)' /\ AcceptedOf(c)'
      BY <1>0, <2>2, <2>4, <2>5 DEF SentOf, AcceptedOf
    <2>7. SavedOf(c)'
      BY <1>0, <2>2, <2>4, <2>5 DEF SavedOf, OnDisk
    <2> QED  BY <2>2, <2>5, <2>6, <2>7, Untouched, CallMoves DEF Claims
  <1>20. ASSUME NEW r \in Reconcilers, MemoryValidates(r)  PROVE EnrollmentInv'
    <2> DEFINE k == [reconciler[r] EXCEPT !.memory = "validated"]
    <2>1. k \in Reconciler /\ k.pc = reconciler[r].pc /\ k.snapshot = reconciler[r].snapshot
          /\ k.namespace = reconciler[r].namespace /\ k.answer = reconciler[r].answer
      BY <1>0 DEF Reconciler
    <2>2. reconciler' = [reconciler EXCEPT ![r] = k] /\ reconciler[r].memory = "asked"
          /\ UNCHANGED <<head, enrolled, enrollDisk, index>>
      BY <1>20 DEF MemoryValidates
    <2> HIDE DEF k
    <2>3. PICK c \in Reconciler : c = k  BY <2>1
    <2>4. Claims(c)'
      BY <1>0, <2>1, <2>2, <2>3 DEF SentOf, AcceptedOf, SavedOf, OnDisk, Claims
    <2> QED  BY <2>2, <2>3, <2>4, Untouched, CallMoves
  <1>9. ASSUME NEW r \in Reconcilers, MemoryAccepts(r)  PROVE EnrollmentInv'
    <2> DEFINE n == reconciler[r].namespace
               s == reconciler[r].snapshot
               c == [reconciler[r] EXCEPT !.memory = "none"]
    <2>1. n \in Namespaces /\ s \in Snapshot  BY <1>0 DEF Reconciler
    <2>2. index' = [index EXCEPT ![n] = s] /\ s.revision >= index[n].revision
          /\ reconciler[r].memory = "validated" /\ UNCHANGED <<head, enrolled, enrollDisk>>
      BY <1>9 DEF MemoryAccepts
    <2>3. index' \in [Namespaces -> Snapshot] /\ index'[n] = s
          /\ \A m \in Namespaces : index'[m].revision >= index[m].revision
             /\ index'[m].revision \in Nat /\ index[m].revision \in Nat
      BY <2>1, <2>2 DEF EnrollmentInv, EnrollmentTyped, Snapshot
    <2>4. IsCurrent(enrolled)' /\ IsCurrent(enrollDisk)'
      BY <1>0, <2>2, <2>3 DEF IsCurrent, EnrollmentInv, Enrolled
    <2>5. \A m \in Namespaces : OnDisk(index[m])'
      <3>1. OnDisk(s)  BY <1>0, <2>2 DEF SavedOf
      <3> QED  BY <2>1, <2>2, <3>1 DEF OnDisk, EnrollmentInv, EnrollmentTyped
    \* What becomes of the call.
    <2>6. c \in Reconciler /\ c.pc = reconciler[r].pc /\ c.memory = "none" /\ c.snapshot = s
          /\ c.namespace = n /\ c.answer = reconciler[r].answer
      BY <1>0 DEF Reconciler
    <2>7. PICK k \in Reconciler :
            /\ reconciler' = [reconciler EXCEPT ![r] = k]
            /\ k.memory = "none"
            /\ \/ k.pc = "over"
               \/ k.pc = "answered" /\ c.pc = "posted" /\ k.snapshot = s /\ k.namespace = n
               \/ k = c /\ c.pc # "over" /\ c.pc # "posted"
      <3>1. CASE c.pc = "posted"
        <4>1. PICK answer \in {"indexed", "pending", "error"} : reconciler' =
                [reconciler EXCEPT ![r] = [c EXCEPT !.pc = "answered", !.answer = answer]]
          BY <1>9, <3>1 DEF MemoryAccepts
        <4> DEFINE k1 == [c EXCEPT !.pc = "answered"]
                   k2 == [k1 EXCEPT !.answer = answer]
        <4> HIDE DEF c
        <4>2. k1 \in Reconciler /\ k1.pc = "answered" /\ k1.snapshot = s
              /\ k1.namespace = n /\ k1.memory = "none"
          BY <2>6 DEF Reconciler, ReconcilerPcs
        <4>3. reconciler' = [reconciler EXCEPT ![r] = k2]  BY <4>1
        <4> HIDE DEF k1
        <4>4. k2 \in Reconciler /\ k2.pc = "answered" /\ k2.snapshot = s
              /\ k2.namespace = n /\ k2.memory = "none"
          BY <4>2 DEF Reconciler, Answers0
        <4> HIDE DEF k2
        <4> QED  BY <3>1, <4>3, <4>4
      <3>2. CASE c.pc # "posted"
        <4>1. reconciler' = [reconciler EXCEPT ![r] = IF c.pc = "over" THEN Over(c) ELSE c]
          BY <1>9, <3>2 DEF MemoryAccepts
        <4> HIDE DEF c
        <4>2. Over(c) \in Reconciler /\ Over(c).pc = "over" /\ Over(c).memory = "none"
          BY <2>6, OverShape
        <4> QED  BY <2>6, <3>2, <4>1, <4>2
      <3> QED  BY <3>1, <3>2
    <2> HIDE DEF c
    <2>8. reconciler' \in [Reconcilers -> Reconciler] /\ reconciler'[r] = k
          /\ \A q \in Reconcilers \ {r} : reconciler'[q] = reconciler[q]
      BY <2>7 DEF EnrollmentInv, EnrollmentTyped
    <2>9. ASSUME NEW q \in Reconcilers
          PROVE  Claims(reconciler[q])'
      <3>1. CASE q # r
        <4>1. reconciler'[q] = reconciler[q] /\ reconciler[q].namespace \in Namespaces
              /\ reconciler[q].snapshot.revision \in Nat
          BY <1>0, <2>8, <3>1 DEF Reconciler
        <4> QED  BY <1>0, <2>2, <2>3, <4>1 DEF SentOf, AcceptedOf, SavedOf, OnDisk, Claims
      <3>2. CASE q = r
        <4>1. SavedOf(reconciler[q])'
          <5>1. k.pc # "named"
            BY <1>0, <2>2, <2>6, <2>7 DEF SavedOf
          <5> QED  BY <2>7, <2>8, <3>2, <5>1 DEF SavedOf
        <4>2. SentOf(reconciler[q])' /\ AcceptedOf(reconciler[q])'
          <5>1. CASE k.pc = "over"
            BY <2>8, <3>2, <5>1 DEF SentOf, AcceptedOf
          <5>2. CASE k.pc = "answered" /\ c.pc = "posted" /\ k.snapshot = s /\ k.namespace = n
            <6>1. /\ s.revision <= enrolled.revision
                  /\ s.revision = enrolled.revision =>
                       s.commit = enrolled.desired /\ n = enrolled.namespace
              BY <1>0, <2>6, <5>2 DEF SentOf
            <6>2. SentOf(k)'  BY <2>2, <5>2, <6>1 DEF SentOf
            <6>3. AcceptedOf(k)'  BY <1>0, <2>3, <5>2 DEF AcceptedOf
            <6> QED  BY <2>8, <3>2, <6>2, <6>3 DEF SentOf, AcceptedOf
          <5>3. CASE k = c /\ c.pc # "over" /\ c.pc # "posted"
            BY <1>0, <2>1, <2>2, <2>3, <2>6, <2>8, <3>2, <5>3 DEF SentOf, AcceptedOf
          <5> QED  BY <2>7, <5>1, <5>2, <5>3
        <4> QED  BY <4>1, <4>2 DEF Claims
      <3> QED  BY <3>1, <3>2
    <2> QED  BY <2>2, <2>3, <2>4, <2>5, <2>8, <2>9
             DEF EnrollmentInv, EnrollmentTyped, DiskHolds
  <1>10. ASSUME NEW r \in Reconcilers, MemoryRefuses(r)  PROVE EnrollmentInv'
    <2>1. reconciler[r].pc = "posted" /\ UNCHANGED <<head, enrolled, enrollDisk, index>>
      BY <1>10 DEF MemoryRefuses
    <2>2. PICK answer \in {"unauthorized", "update", "conflict", "error"},
               memory \in {"none", reconciler[r].memory} :
            reconciler' = [reconciler EXCEPT ![r].pc = "answered", ![r].answer = answer,
                                             ![r].memory = memory]
      BY <1>10 DEF MemoryRefuses
    <2> DEFINE k1 == [reconciler[r] EXCEPT !.pc = "answered"]
               k2 == [k1 EXCEPT !.answer = answer]
               k  == [k2 EXCEPT !.memory = memory]
    <2>3. k1 \in Reconciler /\ k1.pc = "answered" /\ k1.snapshot = reconciler[r].snapshot
          /\ k1.namespace = reconciler[r].namespace
      BY <1>0 DEF Reconciler, ReconcilerPcs
    <2>4. reconciler' = [reconciler EXCEPT ![r] = k]  BY <2>2
    <2> HIDE DEF k1
    <2>5. k2 \in Reconciler /\ k2.pc = "answered" /\ k2.snapshot = reconciler[r].snapshot
          /\ k2.namespace = reconciler[r].namespace /\ k2.answer = answer
      BY <2>3 DEF Reconciler, Answers0
    <2> HIDE DEF k2
    <2>6. k \in Reconciler /\ k.pc = "answered" /\ k.snapshot = reconciler[r].snapshot
          /\ k.namespace = reconciler[r].namespace /\ k.answer = answer /\ k.memory = memory
      BY <1>0, <2>5 DEF Reconciler
    <2> HIDE DEF k
    <2>7. PICK c \in Reconciler : c = k  BY <2>6
    <2>8. SentOf(c)' /\ AcceptedOf(c)'
      BY <1>0, <2>1, <2>6, <2>7 DEF SentOf, AcceptedOf
    <2>9. SavedOf(c)'
      BY <1>0, <2>1, <2>2, <2>6, <2>7 DEF SavedOf, OnDisk
    <2> QED  BY <2>1, <2>4, <2>7, <2>8, <2>9, Untouched, CallMoves DEF Claims
  <1>11. ASSUME NEW r \in Reconcilers, Receipt(r)  PROVE EnrollmentInv'
    <2> DEFINE s == reconciler[r].snapshot
               phase == IF reconciler[r].answer = "indexed" THEN "indexed"
                                                            ELSE "projection_pending"
               e1 == [enrolled EXCEPT !.confirmed = s]
               e  == [e1 EXCEPT !.phase = phase]
    <2>1. /\ reconciler[r].pc = "answered" /\ reconciler[r].answer \in {"indexed", "pending"}
          /\ Updated(IF enrolled.revision # s.revision THEN enrolled ELSE e)
          /\ Ended(r) /\ UNCHANGED <<head, index>>
      BY <1>11 DEF Receipt
    <2>2. CASE enrolled.revision # s.revision
      <3>1. Follows(enrolled, enrolled)  BY <1>0, FollowsOn
      <3> QED  BY <1>0, <1>1, <2>1, <2>2, <3>1, UpdatedKeeps DEF EnrollmentInv
    <2>3. CASE enrolled.revision = s.revision
      <3>1. s \in Snapshot  BY <1>0 DEF Reconciler
      <3>2. s = [revision |-> enrolled.revision, commit |-> enrolled.desired]
            /\ reconciler[r].namespace = enrolled.namespace
            /\ index[enrolled.namespace].revision >= enrolled.revision
        BY <1>0, <2>1, <2>3, <3>1 DEF SentOf, AcceptedOf, Snapshot
      <3>3. e1 \in Enrolled /\ e1.revision = enrolled.revision
            /\ e1.desired = enrolled.desired /\ e1.namespace = enrolled.namespace
            /\ e1.confirmed = s /\ e1.snapshot = enrolled.snapshot
        BY <1>0, <3>1 DEF Enrolled
      <3>4. phase \in Phases  BY DEF Phases
      <3> HIDE DEF e1, phase
      <3>5. e \in Enrolled /\ e.revision = enrolled.revision
            /\ e.desired = enrolled.desired /\ e.namespace = enrolled.namespace
            /\ e.confirmed = s /\ e.snapshot = enrolled.snapshot
        BY <3>3, <3>4 DEF Enrolled
      <3>7. Updated(e)  BY <2>1, <2>3
      <3> HIDE DEF e, s
      <3>6. IsCurrent(e) /\ IntentOf(e) /\ Follows(enrolled, e)
        BY <1>0, <3>2, <3>5 DEF IsCurrent, IntentOf, Follows
      <3> QED  BY <1>1, <2>1, <3>5, <3>6, <3>7, UpdatedKeeps
    <2> QED  BY <2>2, <2>3
  <1>12. ASSUME NEW r \in Reconcilers, Refusal(r)  PROVE EnrollmentInv'
    <2>1. PICK phase \in {"awaiting", "conflict", "update_required", "unavailable"} :
            Fail(reconciler[r].snapshot.revision, phase)
      BY <1>12 DEF Refusal
    <2>2. phase \in Phases \ {"indexed"} /\ Ended(r) /\ UNCHANGED <<head, index>>
      BY <1>12, <2>1 DEF Refusal, Phases
    <2> QED  BY <1>1, <1>6, <2>1, <2>2
  <1>21. ASSUME NEW r \in Reconcilers, ReconcilerDropped(r)  PROVE EnrollmentInv'
    BY <1>1, <1>21, Untouched DEF ReconcilerDropped
  <1>13. CASE SeparateNamespace
    <2> DEFINE m1 == [enrolled EXCEPT !.namespace = "separate"]
               m2 == [m1 EXCEPT !.revision = @ + 1]
               m3 == [m2 EXCEPT !.snapshot = NoSnapshot]
               e  == [m3 EXCEPT !.phase = "awaiting"]
    <2>1. Updated(e) /\ UNCHANGED <<head, reconciler, index>>
      BY <1>13 DEF SeparateNamespace
    <2>2. m1 \in Enrolled /\ m1.revision = enrolled.revision
      BY <1>0 DEF Enrolled, Namespaces
    <2> HIDE DEF m1
    <2>3. m2 \in Enrolled /\ m2.revision = enrolled.revision + 1
      BY <1>0, <2>2 DEF Enrolled
    <2> HIDE DEF m2
    <2>4. NoSnapshot \in Snapshot
      BY EnrollmentAssumption DEF NoSnapshot, Snapshot, Commits0
    <2>5. m3 \in Enrolled /\ m3.revision = enrolled.revision + 1 /\ m3.snapshot = NoSnapshot
      BY <2>3, <2>4 DEF Enrolled
    <2> HIDE DEF m3
    <2>6. e \in Enrolled /\ e.revision = enrolled.revision + 1 /\ e.phase = "awaiting"
          /\ e.snapshot = NoSnapshot
      BY <2>5 DEF Enrolled, Phases
    <2> HIDE DEF e
    <2>7. IsCurrent(e) /\ IntentOf(e) /\ Follows(enrolled, e)
      BY <1>0, <2>6 DEF IsCurrent, IntentOf, Follows
    <2> QED  BY <2>1, <2>6, <2>7, UpdatedKeeps, EnrollmentMove DEF EnrollmentInv, EnrollmentTyped
  <1>14. CASE HeadMoves
    <2>1. head' \in Commits0 /\ UNCHANGED <<enrolled, enrollDisk, reconciler, index>>
      BY <1>14, EnrollmentAssumption DEF HeadMoves, EnrollmentInv, EnrollmentTyped, Commits0
    <2> QED  BY <2>1 DEF EnrollmentInv, EnrollmentTyped, DiskHolds, IsCurrent, OnDisk, Claims,
                         SentOf, AcceptedOf, SavedOf
  <1>15. CASE EnrollmentByOthers
    <2>1. enrollDisk' = enrolled /\ UNCHANGED <<head, enrolled, reconciler, index>>
      BY <1>15 DEF EnrollmentByOthers
    <2>2. Follows(enrolled, enrolled)  BY <1>0, FollowsOn
    <2>3. CarriesOn
      BY <1>0, <2>1, <2>2 DEF CarriesOn, EnrollmentInv, DiskHolds, IsCurrent
    <2> QED  BY <2>1, <2>3, EnrollmentMove DEF EnrollmentInv, EnrollmentTyped
  <1>16. CASE EnrollmentRestart
    <2> DEFINE waits == [enrollDisk EXCEPT !.phase = "awaiting"]
    <2>1. waits \in Enrolled /\ waits.snapshot = enrollDisk.snapshot
          /\ waits.phase = "awaiting" /\ waits.revision = enrollDisk.revision
          /\ waits.desired = enrollDisk.desired /\ waits.namespace = enrollDisk.namespace
      BY <1>0 DEF Enrolled, Phases
    <2> HIDE DEF waits
    <2>2. enrolled' \in {waits, enrollDisk} /\ UNCHANGED <<head, enrollDisk, index>>
      BY <1>16 DEF EnrollmentRestart, waits
    <2>3. enrollDisk.revision \in Nat /\ Follows(enrollDisk, enrollDisk)
      BY <1>0, FollowsOn DEF Enrolled
    <2>4. DiskHolds' /\ enrolled' \in Enrolled /\ IsCurrent(enrolled)' /\ IsCurrent(enrollDisk)'
      BY <1>0, <2>1, <2>2, <2>3 DEF DiskHolds, IntentOf, Follows, IsCurrent, EnrollmentInv
    <2>5. NoReconciler \in Reconciler /\ NoReconciler.pc = "idle" /\ NoReconciler.memory = "none"
      BY EnrollmentAssumption DEF NoReconciler, Reconciler, ReconcilerPcs, Answers0, NoSnapshot,
                                  Snapshot, Commits0, Namespaces
    <2>6. ASSUME NEW r \in Reconcilers
          PROVE  reconciler'[r] \in Reconciler /\ Claims(reconciler[r])'
      <3> DEFINE k == IF reconciler[r].pc = "idle" THEN NoReconciler ELSE Over(reconciler[r])
      <3>1. reconciler'[r] = k  BY <1>16 DEF EnrollmentRestart
      <3>2. k \in Reconciler /\ k.pc \in {"idle", "over"} /\ k.memory \in {"none", reconciler[r].memory}
            /\ (k.pc = "idle" => k.memory = "none")
            /\ (k.memory # "none" => k.snapshot = reconciler[r].snapshot)
        BY <1>0, <2>5, OverShape
      <3> HIDE DEF k
      <3> QED  BY <1>0, <2>2, <3>1, <3>2 DEF Claims, SentOf, AcceptedOf, SavedOf, OnDisk
    <2>7. reconciler' \in [Reconcilers -> Reconciler]
      BY <1>16, <2>6 DEF EnrollmentRestart
    <2>8. \A n \in Namespaces : OnDisk(index[n])'
      BY <2>2 DEF EnrollmentInv, OnDisk
    <2> QED  BY <1>0, <2>2, <2>4, <2>6, <2>7, <2>8 DEF EnrollmentInv, EnrollmentTyped
  <1>17. CASE UNCHANGED enrollmentVars
    BY <1>17 DEF enrollmentVars, EnrollmentInv, EnrollmentTyped, DiskHolds, IsCurrent, OnDisk,
                 Claims, SentOf, AcceptedOf, SavedOf
  <1> QED
    BY <1>2, <1>3, <1>4, <1>5, <1>7, <1>8, <1>9, <1>10, <1>11, <1>12, <1>13, <1>14, <1>15,
       <1>16, <1>17, <1>18, <1>20, <1>21 DEF EnrollmentNext, ReconcilerRuns

LEMMA EnrollmentStarts == EnrollmentInit => EnrollmentInv
  <1> SUFFICES ASSUME EnrollmentInit PROVE EnrollmentInv
    OBVIOUS
  <1>1. head \in Commits0 /\ NoSnapshot \in Snapshot /\ 0 \in Commits0
    BY EnrollmentAssumption DEF EnrollmentInit, Commits0, NoSnapshot, Snapshot
  <1>2. enrolled \in Enrolled /\ enrollDisk = enrolled /\ enrolled.phase = "awaiting"
        /\ enrolled.snapshot = NoSnapshot
    BY <1>1 DEF EnrollmentInit, Enrolled, Phases, Namespaces
  <1>3. \A r \in Reconcilers : /\ reconciler[r] \in Reconciler /\ reconciler[r].pc = "idle"
                               /\ reconciler[r].memory = "none"
    BY <1>1 DEF EnrollmentInit, NoReconciler, Reconciler, ReconcilerPcs, Namespaces, Answers0
  <1>4. reconciler \in [Reconcilers -> Reconciler] /\ index \in [Namespaces -> Snapshot]
        /\ \A n \in Namespaces : index[n] = NoSnapshot
    BY <1>1, <1>3 DEF EnrollmentInit
  <1>5. DiskHolds  BY <1>2, FollowsOn DEF DiskHolds, IntentOf
  <1> QED  BY <1>1, <1>2, <1>3, <1>4, <1>5
           DEF EnrollmentInv, EnrollmentTyped, IsCurrent, OnDisk, Claims, SentOf, AcceptedOf,
               SavedOf

\* Whatever receipts and failures of older revisions come in late, snapshots are refused,
\* and restarts go back to: a project shown as indexed is, at its present revision.
THEOREM IndexedTruly == EnrollmentSpec => []IndexedIsCurrent
  <1>1. EnrollmentInv => IndexedIsCurrent
    BY DEF EnrollmentInv, IndexedIsCurrent, IsCurrent
  <1> QED  BY <1>1, EnrollmentStarts, EnrollmentStep, PTL DEF EnrollmentSpec

\* However long after validate's answer Memory accepts, whatever the enrollment, the call
\* and the process went through since: it holds nothing that is not on disk to retry
\* with, or behind the disk's revision.
THEOREM MemoryBehindDisk == EnrollmentSpec => []DurableBeforeMemory
  <1>1. EnrollmentInv => DurableBeforeMemory
    BY DEF EnrollmentInv, DurableBeforeMemory, OnDisk
  <1> QED  BY <1>1, EnrollmentStarts, EnrollmentStep, PTL DEF EnrollmentSpec

-----------------------------------------------------------------------------
(* ProjectCreation: what a creation leaves can be relied upon *)

\* An attempt at work, and one that creates from a template.
AtWork   == AttemptPcs \ {"idle", "told", "over"}
Creating == AtWork \ {"legacy", "legacykey"}

\* The same operation publishes the same commit.
Same(i, j) == i.op = j.op /\ i.commit = j.commit

\* What an attempt at work may rely on: the lock is its own, the intent it carries is
\* the one on disk, and the repository bound, published to and keyed is the same one.
OnDuty(r) ==
  LET i  == attempt[r].intent
      pc == attempt[r].pc
  IN  /\ pc \in AtWork => working = r
      /\ pc \in Creating => /\ i.op # 0 /\ ~i.complete /\ i.destination <= repo.id
                            /\ registry.intent.op # 0 => Same(registry.intent, i)
      /\ pc \in Creating \ {"prepare"} => i.prepared /\ Same(saved.intent, i)
      /\ pc = "verify" =>
           \E p \in published : p.op = i.op /\ p.commit = i.commit /\ i.destination <= p.id
      /\ pc \in {"key", "checkout", "register"} =>
           PublishedFor(i, i.destination) /\ \A p \in published : p.id <= i.destination
      /\ pc = "checkout" => \E y \in keyed : i.destination <= y /\ y <= repo.id
      /\ pc = "register" => i.destination \in keyed

\* A creation reported complete.
Whole(state) ==
  state.intent.complete =>
    /\ state.registered /\ state.created = 1
    /\ PublishedFor(state.intent, state.intent.destination)
    /\ state.intent.destination \in keyed

\* The registry, its snapshot and the provider tell of one operation and one commit.
Books ==
  /\ \A p \in published : p.id <= repo.id /\ p.over = "none" /\ p.op # 0 /\ Same(saved.intent, p)
  /\ repo.marker # 0 => saved.intent.op = repo.marker
  /\ \A s \in {registry, saved} : /\ s.intent.op # 0 => s.intent.prepared
                                  /\ s.intent.destination <= repo.id
                                  /\ Whole(s)
  /\ saved.intent.op # 0 => Same(registry.intent, saved.intent)

CreationInv == CreationTypeOK /\ (\A r \in Attempts : OnDuty(r)) /\ Books

LEMMA CreationInvSound == CreationInv => CreationSound
  <1> SUFFICES ASSUME CreationInv  PROVE CreationSound
    OBVIOUS
  <1>1. NothingOverwritten  BY DEF CreationInv, Books, NothingOverwritten
  <1>2. OwnRepoResumable  BY DEF CreationInv, Books, OwnRepoResumable
  <1>3. OneCommitPerOperation  BY DEF CreationInv, Books, Same, OneCommitPerOperation
  <1>4. CompleteIsWhole  BY DEF CreationInv, Books, Whole, CompleteIsWhole
  <1> QED  BY <1>1, <1>2, <1>3, <1>4 DEF CreationSound

\* The attempts that do not hold the lock wait their turn.
LEMMA OthersOffDuty ==
  ASSUME CreationInv, NEW r \in Attempts, working \in {r, Nobody},
         \A q \in Attempts \ {r} : attempt'[q] = attempt[q],
         OnDuty(r)'
  PROVE  \A q \in Attempts : OnDuty(q)'
  <1> TAKE q \in Attempts
  <1>1. CASE q = r  BY <1>1
  <1>2. CASE q # r
    <2>1. OnDuty(q) /\ q # Nobody  BY CreationAssumption DEF CreationInv
    <2>2. attempt[q].pc \notin AtWork  BY <1>2, <2>1 DEF OnDuty
    <2>3. attempt'[q].pc \notin AtWork  BY <1>2, <2>2
    <2> QED  BY <2>3 DEF OnDuty, AtWork, Creating, AttemptPcs
  <1> QED  BY <1>1, <1>2

LEMMA AttemptMoves ==
  ASSUME CreationTypeOK, NEW r \in Attempts, NEW pc \in AttemptPcs, NEW i \in Intent,
         \/ Steps(r, pc) /\ i = attempt[r].intent
         \/ StepsWith(r, pc, i)
  PROVE  /\ attempt' \in [Attempts -> Attempt]
         /\ attempt'[r].pc = pc /\ attempt'[r].intent = i
         /\ \A q \in Attempts \ {r} : attempt'[q] = attempt[q]
  BY DEF CreationTypeOK, Steps, StepsWith, Attempt

\* PublishedFor and keyed only grow.
LEMMA WholeStays ==
  ASSUME published \subseteq published', keyed \subseteq keyed'
  PROVE  /\ \A i, id : PublishedFor(i, id) => \E p \in published' :
              p.id = id /\ p.op = i.op /\ p.commit = i.commit
         /\ \A s : Whole(s) => (s.intent.complete =>
              /\ s.registered /\ s.created = 1
              /\ s.intent.destination \in keyed'
              /\ \E p \in published' :
                   p.id = s.intent.destination /\ p.op = s.intent.op /\ p.commit = s.intent.commit)
  BY DEF PublishedFor, Whole

\* A step that leaves the registry and its snapshot alone.
LEMMA BooksKept ==
  ASSUME CreationInv, UNCHANGED <<registry, saved>>,
         repo' \in Repo, repo.id <= repo'.id,
         repo'.marker # 0 => saved.intent.op = repo'.marker,
         keyed \subseteq keyed', published \subseteq published',
         \A p \in published' \ published :
           p.id <= repo'.id /\ p.over = "none" /\ p.op # 0 /\ Same(saved.intent, p)
  PROVE  Books'
  <1>0. CreationTypeOK /\ Books  BY DEF CreationInv
  <1>1. \A p \in published : p.id \in Nat  BY <1>0 DEF CreationTypeOK
  <1>2. repo.id \in Nat /\ repo'.id \in Nat  BY <1>0 DEF CreationTypeOK, Repo
  <1>3. \A p \in published' : p.id <= repo'.id /\ p.over = "none" /\ p.op # 0
                              /\ Same(saved.intent, p)
    BY <1>0, <1>1, <1>2 DEF Books
  <1>4. \A s \in {registry, saved} : s.intent.destination \in Nat
    BY <1>0 DEF CreationTypeOK, Registry, Intent
  <1>5. \A s \in {registry, saved} : s.intent.destination <= repo'.id
    BY <1>0, <1>2, <1>4 DEF Books
  <1>6. Whole(registry)' /\ Whole(saved)'
    BY <1>0, WholeStays DEF Books, Whole, PublishedFor
  <1> QED  BY <1>0, <1>3, <1>5, <1>6 DEF Books, Same

\* A step of the registry alone, saved or not.
LEMMA BooksMove ==
  ASSUME CreationInv, UNCHANGED <<repo, keyed, published>>,
         saved' \in {registry', saved},
         registry'.intent.op # 0 => registry'.intent.prepared,
         registry'.intent.destination <= repo.id,
         Whole(registry'),
         saved.intent.op # 0 => Same(registry'.intent, saved.intent)
  PROVE  Books'
  <1>0. Books  BY DEF CreationInv
  <1>1. Whole(registry)' /\ (saved' = saved => Whole(saved)')
    BY <1>0 DEF Books, Whole, PublishedFor
  <1>2. saved' = registry' => Whole(saved)'
    BY <1>1 DEF Whole, PublishedFor
  <1>3. \A p \in published' : p.id <= repo'.id /\ p.over = "none" /\ p.op # 0
                              /\ Same(saved'.intent, p)
    BY <1>0 DEF Books, Same
  <1>4. repo'.marker # 0 => saved'.intent.op = repo'.marker
    BY <1>0 DEF Books, Same
  <1>5. saved'.intent.op # 0 => Same(registry'.intent, saved'.intent)
    BY DEF Same
  <1> QED  BY <1>0, <1>1, <1>2, <1>3, <1>4, <1>5 DEF Books, Same

\* A step of the world around, or of the snapshot: those at work may go on.
LEMMA DutyStays ==
  ASSUME CreationInv, UNCHANGED <<attempt, working, registry, keyed, published>>,
         saved' \in {saved, registry},
         repo' \in Repo, repo.id <= repo'.id
  PROVE  \A r \in Attempts : OnDuty(r)'
  <1> TAKE r \in Attempts
  <1>0. CreationTypeOK /\ OnDuty(r) /\ Books  BY DEF CreationInv
  <1>1. repo.id \in Nat /\ repo'.id \in Nat  BY <1>0 DEF CreationTypeOK, Repo
  <1>2. attempt[r].intent.destination \in Nat
    BY <1>0 DEF CreationTypeOK, Attempt, Intent
  <1>3. keyed \subseteq Nat  BY <1>0 DEF CreationTypeOK
  <1>4. \A i : PublishedFor(i, i.destination)' <=> PublishedFor(i, i.destination)
    BY DEF PublishedFor
  <1>5. ASSUME attempt[r].intent.op # 0, Same(saved.intent, attempt[r].intent)
        PROVE  Same(saved'.intent, attempt[r].intent)
    BY <1>0, <1>5 DEF Books, Same
  <1>6. attempt[r].pc \in Creating \ {"prepare"} => Same(saved'.intent, attempt[r].intent)
    BY <1>0, <1>5 DEF OnDuty
  <1>7. attempt[r].pc = "checkout" =>
          \E y \in keyed : attempt[r].intent.destination <= y /\ y <= repo'.id
    BY <1>0, <1>1, <1>2, <1>3 DEF OnDuty
  <1>8. attempt[r].pc \in Creating => attempt[r].intent.destination <= repo'.id
    BY <1>0, <1>1, <1>2 DEF OnDuty
  <1>9. attempt[r].pc \in {"key", "checkout", "register"} =>
          /\ \E p \in published' : /\ p.id = attempt[r].intent.destination
                                  /\ p.op = attempt[r].intent.op
                                  /\ p.commit = attempt[r].intent.commit
          /\ \A p \in published' : p.id <= attempt[r].intent.destination
    BY <1>0 DEF OnDuty, PublishedFor
  <1> QED  BY <1>0, <1>6, <1>7, <1>8, <1>9 DEF OnDuty, PublishedFor, Same

\* What the types say of one attempt.
LEMMA AttemptTyped ==
  ASSUME CreationInv, NEW r \in Attempts
  PROVE  /\ CreationTypeOK /\ OnDuty(r) /\ Books
         /\ attempt[r].pc \in AttemptPcs /\ attempt[r].intent \in Intent
         /\ attempt[r].intent.op \in Nat /\ attempt[r].intent.destination \in Nat
         /\ repo \in Repo /\ repo.id \in Nat /\ keyed \subseteq Nat
         /\ registry.intent \in Intent /\ registry \in Registry /\ saved \in Registry
         /\ \A p \in published : p.id \in Nat
  BY DEF CreationInv, CreationTypeOK, Attempt, Intent, Repo, Registry

LEMMA NoIntentTyped == /\ NoIntent \in Intent
                       /\ ~NoIntent.complete /\ NoIntent.destination = 0 /\ NoIntent.op = 0
  <1>1. (CHOOSE a \in Actors : TRUE) \in Actors /\ (CHOOSE s \in Selections : TRUE) \in Selections
    BY CreationAssumption
  <1> QED  BY <1>1 DEF NoIntent, Intent

\* What a new creation asks for.
Fresh(n, o, a, s, c) == [n EXCEPT !.op = o, !.actor = a, !.sel = s, !.commit = c]

LEMMA FreshIntent ==
  ASSUME NEW n \in Intent, NEW o \in Nat, NEW a \in Actors, NEW s \in Selections,
         NEW c \in Nat
  PROVE  /\ Fresh(n, o, a, s, c) \in Intent /\ Fresh(n, o, a, s, c).op = o
         /\ Fresh(n, o, a, s, c).complete = n.complete
         /\ Fresh(n, o, a, s, c).destination = n.destination
  BY DEF Intent, Fresh

LEMMA CreateBeginOK ==
  ASSUME CreationInv, NEW r \in Attempts, NEW a \in Actors, NEW s \in Selections,
         CreateBegin(r, a, s)
  PROVE  CreationInv'
  <1>0. /\ attempt[r].pc = "idle" /\ working = Nobody
        /\ UNCHANGED <<template, repo, keyed, key, registry, saved, published>>
    BY DEF CreateBegin
  <1>1. /\ CreationTypeOK /\ Books /\ repo \in Repo /\ repo.id \in Nat
        /\ attempt[r].intent \in Intent /\ registry.intent \in Intent
    BY AttemptTyped
  <1>2. Books'
    BY <1>0, <1>1, BooksKept DEF Books
  <1>3. ASSUME NEW pc \in AttemptPcs, NEW i \in Intent,
               \/ Steps(r, pc) /\ i = attempt[r].intent
               \/ StepsWith(r, pc, i),
               ops' \in Nat, working' \in Attempts \cup {Nobody},
               \/ pc = "told"
               \/ /\ pc = "prepare" /\ working' = r
                  /\ i.op # 0 /\ ~i.complete /\ i.destination <= repo.id
                  /\ registry.intent.op # 0 => Same(registry.intent, i)
        PROVE  CreationInv'
    <2>1. /\ attempt' \in [Attempts -> Attempt]
          /\ attempt'[r].pc = pc /\ attempt'[r].intent = i
          /\ \A q \in Attempts \ {r} : attempt'[q] = attempt[q]
      BY <1>1, <1>3, AttemptMoves
    <2>2. OnDuty(r)'
      BY <1>0, <1>3, <2>1 DEF OnDuty, AtWork, Creating, AttemptPcs, Same
    <2>3. \A q \in Attempts : OnDuty(q)'
      BY <1>0, <2>1, <2>2, OthersOffDuty
    <2>4. CreationTypeOK'
      BY <1>0, <1>1, <1>3, <2>1 DEF CreationTypeOK
    <2> QED  BY <1>2, <2>3, <2>4 DEF CreationInv
  <1>4. CASE registry.intent.complete
    <2>1. Steps(r, "told") /\ UNCHANGED <<working, ops>>
      BY <1>4 DEF CreateBegin
    <2> QED  BY <1>1, <1>3, <2>1 DEF AttemptPcs, CreationTypeOK
  <1>5. CASE ~registry.intent.complete /\ registry.intent.op # 0
    <2>1. StepsWith(r, "prepare", registry.intent) /\ working' = r /\ UNCHANGED ops
      BY <1>5 DEF CreateBegin
    <2> QED  BY <1>1, <1>3, <1>5, <2>1 DEF AttemptPcs, CreationTypeOK, Books, Same
  <1>6. CASE ~registry.intent.complete /\ registry.intent.op = 0
    <2> DEFINE c == template[s].commit
               i == Fresh(NoIntent, ops + 1, a, s, c)
    <2>1. StepsWith(r, "prepare", i) /\ working' = r /\ ops' = ops + 1
      BY <1>6 DEF CreateBegin, Fresh
    <2>2. ops \in Nat /\ ops + 1 \in Nat /\ c \in Nat
      BY <1>1, CreationAssumption DEF CreationTypeOK, Commits
    <2>3. NoIntent \in Intent /\ ~NoIntent.complete /\ NoIntent.destination = 0
      BY NoIntentTyped
    <2> HIDE DEF c
    <2>4. i \in Intent /\ i.op = ops + 1 /\ i.complete = NoIntent.complete
          /\ i.destination = NoIntent.destination
      BY <2>2, <2>3, FreshIntent
    <2> HIDE DEF i
    <2>5. i.op # 0 /\ ~i.complete /\ i.destination <= repo.id
      BY <1>1, <2>2, <2>3, <2>4
    <2> QED  BY <1>1, <1>3, <1>6, <2>1, <2>2, <2>4, <2>5 DEF AttemptPcs
  <1> QED  BY <1>4, <1>5, <1>6

\* A request that ends does no more.
LEMMA OffDuty ==
  ASSUME CreationInv, NEW r \in Attempts, working \in {r, Nobody},
         NEW pc \in {"idle", "told", "over"}, Steps(r, pc)
  PROVE  /\ \A q \in Attempts : OnDuty(q)'
         /\ attempt' \in [Attempts -> Attempt]
  <1>0. CreationTypeOK /\ attempt[r].intent \in Intent  BY AttemptTyped
  <1>1. /\ attempt' \in [Attempts -> Attempt]
        /\ attempt'[r].pc = pc
        /\ \A q \in Attempts \ {r} : attempt'[q] = attempt[q]
    BY <1>0, AttemptMoves DEF AttemptPcs
  <1>2. OnDuty(r)'  BY <1>1 DEF OnDuty, AtWork, Creating, AttemptPcs
  <1> QED  BY <1>1, <1>2, OthersOffDuty

\* Saving an intent under way: the step goes on, or the request ends.
LEMMA SavesKeeps ==
  ASSUME CreationInv, NEW r \in Attempts, NEW pc \in {"probe", "publish"}, NEW i \in Intent,
         attempt[r].pc \in Creating,
         Saves(r, i, pc),
         UNCHANGED <<template, repo, keyed, key, published, ops>>,
         i.op = attempt[r].intent.op, i.commit = attempt[r].intent.commit,
         i.destination = attempt[r].intent.destination, ~i.complete, i.prepared
  PROVE  CreationInv'
  <1>0. /\ CreationTypeOK /\ OnDuty(r) /\ Books /\ registry \in Registry /\ saved \in Registry
        /\ attempt[r].pc \in AttemptPcs /\ attempt[r].intent \in Intent
    BY AttemptTyped
  <1>1. /\ working = r /\ i.op # 0 /\ i.destination <= repo.id
        /\ registry.intent.op # 0 => Same(registry.intent, i)
    BY <1>0 DEF OnDuty, Creating, Same
  <1>2. /\ registry' = [registry EXCEPT !.intent = i]
        /\ \/ saved' = registry' /\ StepsWith(r, pc, i) /\ UNCHANGED working
           \/ UNCHANGED saved /\ Fails(r)
    BY DEF Saves
  <1>3. registry' \in Registry /\ registry'.intent = i /\ saved' \in Registry
    BY <1>0, <1>2 DEF Registry
  <1>4. Books'
    <2>1. Whole(registry')  BY <1>3 DEF Whole
    <2>2. saved.intent.op # 0 => Same(registry'.intent, saved.intent)
      BY <1>0, <1>1, <1>3 DEF Books, Same
    <2> QED  BY <1>1, <1>2, <1>3, <2>1, <2>2, BooksMove
  <1>5. CASE saved' = registry' /\ StepsWith(r, pc, i) /\ UNCHANGED working
    <2>1. /\ attempt' \in [Attempts -> Attempt]
          /\ attempt'[r].pc = pc /\ attempt'[r].intent = i
          /\ \A q \in Attempts \ {r} : attempt'[q] = attempt[q]
      BY <1>0, <1>5, AttemptMoves DEF AttemptPcs
    <2>2. OnDuty(r)'
      BY <1>1, <1>3, <1>5, <2>1 DEF OnDuty, AtWork, Creating, AttemptPcs, Same
    <2>3. \A q \in Attempts : OnDuty(q)'  BY <1>1, <2>1, <2>2, OthersOffDuty
    <2>4. CreationTypeOK'  BY <1>0, <1>1, <1>3, <1>5, <2>1 DEF CreationTypeOK
    <2> QED  BY <1>4, <2>3, <2>4 DEF CreationInv
  <1>6. CASE UNCHANGED saved /\ Fails(r)
    <2>1. /\ \A q \in Attempts : OnDuty(q)'
          /\ attempt' \in [Attempts -> Attempt] /\ working' = Nobody
      BY <1>1, <1>6, OffDuty DEF Fails
    <2>2. CreationTypeOK'  BY <1>0, <1>3, <1>6, <2>1 DEF CreationTypeOK
    <2> QED  BY <1>4, <2>1, <2>2 DEF CreationInv
  <1> QED  BY <1>2, <1>5, <1>6

LEMMA PrepareOK ==
  ASSUME CreationInv, NEW r \in Attempts, Prepare(r)
  PROVE  CreationInv'
  <1> DEFINE old == attempt[r].intent
             i   == [old EXCEPT !.prepared = TRUE]
  <1>0. /\ attempt[r].pc = "prepare" /\ Saves(r, i, "probe") /\ old \in Intent
        /\ UNCHANGED <<template, repo, keyed, key, published, ops>> /\ OnDuty(r)
    BY AttemptTyped DEF Prepare
  <1>1. i \in Intent /\ i.op = old.op /\ i.commit = old.commit /\ i.destination = old.destination
        /\ i.prepared /\ i.complete = old.complete
    BY <1>0 DEF Intent
  <1>2. ~old.complete /\ attempt[r].pc \in Creating
    BY <1>0 DEF OnDuty, Creating, AtWork, AttemptPcs
  <1> HIDE DEF i
  <1> QED  BY <1>0, <1>1, <1>2, SavesKeeps

LEMMA BindOK ==
  ASSUME CreationInv, NEW r \in Attempts, Bind(r)
  PROVE  CreationInv'
  <1>0. /\ attempt[r].pc = "bind" /\ Saves(r, attempt[r].intent, "publish")
        /\ UNCHANGED <<template, repo, keyed, key, published, ops>>
        /\ attempt[r].intent \in Intent /\ OnDuty(r)
    BY AttemptTyped DEF Bind
  <1>2. /\ ~attempt[r].intent.complete /\ attempt[r].intent.prepared
        /\ attempt[r].pc \in Creating
    BY <1>0 DEF OnDuty, Creating, AtWork, AttemptPcs
  <1> QED  BY <1>0, <1>2, SavesKeeps

\* A step of one creation at work that leaves the registry alone and goes on.
LEMMA DutyMoves ==
  ASSUME CreationInv, NEW r \in Attempts, attempt[r].pc \in AtWork,
         UNCHANGED <<registry, saved, template>>, key' \in BOOLEAN, ops' \in Nat,
         repo' \in Repo, repo.id <= repo'.id,
         repo'.marker # 0 => saved.intent.op = repo'.marker,
         keyed \subseteq keyed', keyed' \subseteq Nat,
         published \subseteq published',
         \A p \in published' \ published :
           /\ p \in [id: Nat, op: Nat, commit: Nat, over: {"none", "snapshot", "theirs"}]
           /\ p.id <= repo'.id /\ p.over = "none" /\ p.op # 0 /\ Same(saved.intent, p),
         attempt' \in [Attempts -> Attempt],
         \A q \in Attempts \ {r} : attempt'[q] = attempt[q],
         working' \in Attempts \cup {Nobody},
         OnDuty(r)'
  PROVE  CreationInv'
  <1>0. CreationTypeOK /\ OnDuty(r)  BY AttemptTyped
  <1>1. working = r  BY <1>0 DEF OnDuty
  <1>2. \A q \in Attempts : OnDuty(q)'  BY <1>1, OthersOffDuty
  <1>3. Books'  BY BooksKept
  <1>4. CreationTypeOK'  BY <1>0 DEF CreationTypeOK
  <1> QED  BY <1>2, <1>3, <1>4 DEF CreationInv

LEMMA ProbeOK ==
  ASSUME CreationInv, NEW r \in Attempts, Probe(r)
  PROVE  CreationInv'
  <1> DEFINE i == attempt[r].intent
             j == [i EXCEPT !.destination = repo.id]
  <1>0. /\ attempt[r].pc = "probe" /\ CreationTypeOK /\ OnDuty(r) /\ Books /\ i \in Intent
        /\ repo \in Repo /\ repo.id \in Nat /\ working = r
        /\ attempt[r].pc \in Creating \ {"prepare"} /\ attempt[r].pc \in AtWork
        /\ UNCHANGED <<template, repo, keyed, key, registry, saved, working, published, ops>>
    BY AttemptTyped DEF Probe, OnDuty, AtWork, Creating, AttemptPcs
  <1>1. /\ j \in Intent /\ j.op = i.op /\ j.commit = i.commit /\ j.prepared = i.prepared
        /\ j.complete = i.complete /\ j.destination = repo.id
    BY <1>0 DEF Intent
  <1>2. \/ Steps(r, "post")
        \/ StepsWith(r, "bind", j)
    BY DEF Probe
  <1> HIDE DEF j
  <1>3. PICK pc \in {"post", "bind"}, k \in {i, j} :
           (Steps(r, pc) /\ k = i) \/ StepsWith(r, pc, k)
    BY <1>2
  <1>4. /\ attempt' \in [Attempts -> Attempt]
        /\ attempt'[r].pc = pc /\ attempt'[r].intent = k
        /\ \A q \in Attempts \ {r} : attempt'[q] = attempt[q]
    BY <1>0, <1>1, <1>3, AttemptMoves DEF AttemptPcs
  <1>5. /\ k.op = i.op /\ k.commit = i.commit /\ k.prepared = i.prepared
        /\ k.complete = i.complete /\ k.destination <= repo.id
    BY <1>0, <1>1, <1>3 DEF OnDuty
  <1>6. OnDuty(r)'
    BY <1>0, <1>4, <1>5 DEF OnDuty, AtWork, Creating, AttemptPcs, Same
  <1>7. key' \in BOOLEAN /\ ops' \in Nat /\ working' \in Attempts \cup {Nobody} /\ keyed \subseteq Nat
    BY <1>0 DEF CreationTypeOK
  <1> QED  BY <1>0, <1>4, <1>6, <1>7, DutyMoves DEF Books

\* The request that just ended has no duty.
LEMMA EndedDuty ==
  ASSUME CreationTypeOK, NEW r \in Attempts, NEW pc \in {"told", "over"}, Steps(r, pc)
  PROVE  /\ attempt' \in [Attempts -> Attempt] /\ OnDuty(r)'
         /\ \A q \in Attempts \ {r} : attempt'[q] = attempt[q]
  <1>1. attempt[r].intent \in Intent  BY DEF CreationTypeOK, Attempt
  <1>2. /\ attempt' \in [Attempts -> Attempt] /\ attempt'[r].pc = pc
        /\ \A q \in Attempts \ {r} : attempt'[q] = attempt[q]
    BY <1>1, AttemptMoves DEF AttemptPcs
  <1> QED  BY <1>2 DEF OnDuty, AtWork, Creating, AttemptPcs

\* A repository just made, by the POST or from the template.
LEMMA NewRepo ==
  ASSUME NEW id \in Nat, NEW marker \in Nat
  PROVE  LET posted == [NoRepo EXCEPT !.id = id + 1, !.there = TRUE, !.marker = marker]
             made   == [NoRepo EXCEPT !.id = id + 1, !.there = TRUE, !.master = "theirs"]
         IN  /\ posted \in Repo /\ posted.id = id + 1 /\ posted.marker = marker
             /\ made \in Repo /\ made.id = id + 1 /\ made.marker = 0 /\ id <= id + 1
  <1>1. NoRepo \in Repo /\ NoRepo.marker = 0  BY DEF NoRepo, Repo
  <1> DEFINE posted == [NoRepo EXCEPT !.id = id + 1, !.there = TRUE, !.marker = marker]
             made   == [NoRepo EXCEPT !.id = id + 1, !.there = TRUE, !.master = "theirs"]
  <1>2. id + 1 \in Nat /\ id <= id + 1  OBVIOUS
  <1>3. posted \in Repo /\ posted.id = id + 1 /\ posted.marker = marker
    BY <1>1, <1>2 DEF Repo
  <1>4. made \in Repo /\ made.id = id + 1 /\ made.marker = NoRepo.marker
    BY <1>1, <1>2 DEF Repo
  <1> QED  BY <1>1, <1>2, <1>3, <1>4

LEMMA PostOK ==
  ASSUME CreationInv, NEW r \in Attempts, Post(r)
  PROVE  CreationInv'
  <1> DEFINE i == attempt[r].intent
             j == [i EXCEPT !.destination = repo.id + 1]
  <1>0. /\ attempt[r].pc = "post" /\ CreationTypeOK /\ OnDuty(r) /\ Books /\ i \in Intent
        /\ repo \in Repo /\ repo.id \in Nat /\ working = r
        /\ attempt[r].pc \in Creating \ {"prepare"} /\ attempt[r].pc \in AtWork
        /\ UNCHANGED <<template, keyed, key, registry, saved, published, ops>>
    BY AttemptTyped DEF Post, OnDuty, AtWork, Creating, AttemptPcs
  <1>1. /\ j \in Intent /\ j.op = i.op /\ j.commit = i.commit /\ j.prepared = i.prepared
        /\ j.complete = i.complete /\ j.destination = repo.id + 1
    BY <1>0 DEF Intent
  <1>2. repo' = [NoRepo EXCEPT !.id = repo.id + 1, !.there = TRUE, !.marker = i.op]
    BY DEF Post
  <1>3. /\ repo' \in Repo /\ repo'.id = repo.id + 1 /\ repo'.marker = i.op
    BY <1>0, <1>2, NewRepo DEF Intent
  <1>4. saved.intent.op = i.op  BY <1>0 DEF OnDuty, Same
  <1>5. key' \in BOOLEAN /\ ops' \in Nat /\ keyed \subseteq Nat /\ repo.id <= repo'.id
    BY <1>0, <1>3 DEF CreationTypeOK
  <1>8. (StepsWith(r, "bind", j) /\ UNCHANGED working) \/ Fails(r)
    BY DEF Post
  <1> HIDE DEF j
  <1>6. CASE StepsWith(r, "bind", j) /\ UNCHANGED working
    <2>1. /\ attempt' \in [Attempts -> Attempt]
          /\ attempt'[r].pc = "bind" /\ attempt'[r].intent = j
          /\ \A q \in Attempts \ {r} : attempt'[q] = attempt[q]
      BY <1>0, <1>1, <1>6, AttemptMoves DEF AttemptPcs
    <2>2. OnDuty(r)'
      BY <1>0, <1>1, <1>3, <1>6, <2>1 DEF OnDuty, AtWork, Creating, AttemptPcs, Same
    <2>3. working' \in Attempts \cup {Nobody}  BY <1>0, <1>6
    <2> QED  BY <1>0, <1>3, <1>4, <1>5, <2>1, <2>2, <2>3, DutyMoves
  <1>7. CASE Fails(r)
    <2>1. /\ attempt' \in [Attempts -> Attempt] /\ OnDuty(r)'
          /\ \A q \in Attempts \ {r} : attempt'[q] = attempt[q]
          /\ working' = Nobody
      BY <1>0, <1>7, EndedDuty DEF Fails
    <2> QED  BY <1>0, <1>3, <1>4, <1>5, <2>1, DutyMoves
  <1> QED  BY <1>6, <1>7, <1>8

\* A step that only moves its request on, or installs a key.
LEMMA QuietMove ==
  ASSUME CreationInv, NEW r \in Attempts, attempt[r].pc \in AtWork, NEW pc \in AttemptPcs,
         Steps(r, pc),
         UNCHANGED <<template, repo, registry, saved, published, ops>>,
         key' \in BOOLEAN,
         keyed \subseteq keyed', keyed' \subseteq Nat,
         working' \in Attempts \cup {Nobody},
         attempt'[r].pc = pc /\ attempt'[r].intent = attempt[r].intent => OnDuty(r)'
  PROVE  CreationInv'
  <1>0. /\ CreationTypeOK /\ attempt[r].intent \in Intent /\ repo \in Repo /\ repo.id \in Nat
        /\ Books
    BY AttemptTyped
  <1>1. /\ attempt' \in [Attempts -> Attempt]
        /\ attempt'[r].pc = pc /\ attempt'[r].intent = attempt[r].intent
        /\ \A q \in Attempts \ {r} : attempt'[q] = attempt[q]
    BY <1>0, AttemptMoves
  <1>2. ops' \in Nat /\ repo.id <= repo'.id  BY <1>0 DEF CreationTypeOK
  <1>3. repo'.marker # 0 => saved.intent.op = repo'.marker  BY <1>0 DEF Books
  <1> QED  BY <1>0, <1>1, <1>2, <1>3, DutyMoves

\* What the looks of publish and the push between them start from.
LEMMA Publishing ==
  ASSUME CreationInv, NEW r \in Attempts, attempt[r].pc \in {"publish", "push", "pushed"}
  PROVE  /\ CreationTypeOK /\ OnDuty(r) /\ Books /\ attempt[r].intent \in Intent
         /\ repo \in Repo /\ repo.id \in Nat /\ working = r /\ attempt[r].pc \in AtWork
         /\ attempt[r].pc \in Creating \ {"prepare"}
         /\ key \in BOOLEAN /\ ops \in Nat /\ keyed \subseteq Nat
         /\ attempt[r].intent.op # 0 /\ Same(saved.intent, attempt[r].intent)
         /\ attempt[r].intent.destination <= repo.id
  <1>1. /\ CreationTypeOK /\ OnDuty(r) /\ Books /\ attempt[r].intent \in Intent
        /\ repo \in Repo /\ repo.id \in Nat
    BY AttemptTyped
  <1>2. attempt[r].pc \in AtWork /\ attempt[r].pc \in Creating \ {"prepare"}
    BY DEF AtWork, Creating, AttemptPcs
  <1> QED  BY <1>1, <1>2 DEF OnDuty, CreationTypeOK

\* A look of publish: exactly the snapshot is there, or nothing is.
LEMMA LookOK ==
  ASSUME CreationInv, NEW r \in Attempts, attempt[r].pc \in {"publish", "pushed"},
         NEW pc \in {"push", "verify"}, Steps(r, pc),
         pc = "verify" => PublishedFor(attempt[r].intent, repo.id),
         UNCHANGED <<template, repo, keyed, key, registry, saved, working, published, ops>>
  PROVE  CreationInv'
  <1> DEFINE i == attempt[r].intent
  <1>0. /\ CreationTypeOK /\ OnDuty(r) /\ Books /\ i \in Intent
        /\ repo \in Repo /\ repo.id \in Nat /\ working = r /\ attempt[r].pc \in AtWork
        /\ attempt[r].pc \in Creating \ {"prepare"}
        /\ key \in BOOLEAN /\ ops \in Nat /\ keyed \subseteq Nat
        /\ i.op # 0 /\ Same(saved.intent, i) /\ i.destination <= repo.id
    BY Publishing
  <1>1. pc = "verify" =>
          \E p \in published : p.op = i.op /\ p.commit = i.commit /\ i.destination <= p.id
    BY <1>0 DEF PublishedFor
  <1>2. attempt'[r].pc = pc /\ attempt'[r].intent = i => OnDuty(r)'
    BY <1>0, <1>1 DEF OnDuty, AtWork, Creating, AttemptPcs, Same
  <1> QED  BY <1>0, <1>2, QuietMove DEF AttemptPcs

LEMMA PublishOK ==
  ASSUME CreationInv, NEW r \in Attempts, Publish(r)
  PROVE  CreationInv'
  <1>1. /\ attempt[r].pc = "publish"
        /\ UNCHANGED <<template, repo, keyed, key, registry, saved, working, published, ops>>
    BY DEF Publish
  <1>2. \/ PublishedFor(attempt[r].intent, repo.id) /\ Steps(r, "verify")
        \/ Steps(r, "push")
    BY DEF Publish, ExactlySnapshot
  <1> QED  BY <1>1, <1>2, LookOK

LEMMA PushedOK ==
  ASSUME CreationInv, NEW r \in Attempts, Pushed(r)
  PROVE  CreationInv'
  <1>1. /\ attempt[r].pc = "pushed" /\ Steps(r, "verify")
        /\ PublishedFor(attempt[r].intent, repo.id)
        /\ UNCHANGED <<template, repo, keyed, key, registry, saved, working, published, ops>>
    BY DEF Pushed, ExactlySnapshot
  <1> QED  BY <1>1, LookOK

\* The push, whatever happened since the look: the lease admits an absent master only.
LEMMA PushOK ==
  ASSUME CreationInv, NEW r \in Attempts, Push(r)
  PROVE  CreationInv'
  <1> DEFINE i == attempt[r].intent
             p == [id |-> repo.id, op |-> i.op, commit |-> i.commit, over |-> repo.master]
  <1>0. /\ attempt[r].pc = "push" /\ repo.master = "none"
        /\ UNCHANGED <<template, keyed, key, registry, saved, ops>>
        /\ repo' = [repo EXCEPT !.master = "snapshot"] /\ published' = published \cup {p}
        /\ \/ Steps(r, "pushed") /\ UNCHANGED working
           \/ Fails(r)
    BY DEF Push, Pushes
  <1>1. /\ CreationTypeOK /\ OnDuty(r) /\ Books /\ i \in Intent
        /\ repo \in Repo /\ repo.id \in Nat /\ working = r /\ attempt[r].pc \in AtWork
        /\ attempt[r].pc \in Creating \ {"prepare"}
        /\ key \in BOOLEAN /\ ops \in Nat /\ keyed \subseteq Nat
        /\ i.op # 0 /\ Same(saved.intent, i) /\ i.destination <= repo.id
    BY <1>0, Publishing
  <1>2. repo' \in Repo /\ repo'.id = repo.id /\ repo'.marker = repo.marker
    BY <1>0, <1>1 DEF Repo
  <1>3. /\ p \in [id: Nat, op: Nat, commit: Nat, over: {"none", "snapshot", "theirs"}]
        /\ p.id = repo.id /\ p.over = "none" /\ p.op = i.op /\ p.commit = i.commit
    BY <1>0, <1>1 DEF Intent
  <1> HIDE DEF p
  <1>4. p.id <= repo'.id /\ p.op # 0 /\ Same(saved.intent, p)
    BY <1>1, <1>2, <1>3 DEF Same
  <1>5. \A x \in published' \ published : x = p  BY <1>0
  <1>6. /\ attempt' \in [Attempts -> Attempt] /\ OnDuty(r)'
        /\ \A q \in Attempts \ {r} : attempt'[q] = attempt[q]
        /\ working' \in Attempts \cup {Nobody}
    <2>1. CASE Steps(r, "pushed") /\ UNCHANGED working
      <3>1. /\ attempt' \in [Attempts -> Attempt]
            /\ attempt'[r].pc = "pushed" /\ attempt'[r].intent = i
            /\ \A q \in Attempts \ {r} : attempt'[q] = attempt[q]
        BY <1>1, <2>1, AttemptMoves DEF AttemptPcs
      <3>2. OnDuty(r)'
        BY <1>0, <1>1, <1>2, <2>1, <3>1 DEF OnDuty, AtWork, Creating, AttemptPcs, Same
      <3> QED  BY <1>1, <2>1, <3>1, <3>2
    <2>2. CASE Fails(r)
      BY <1>1, <2>2, EndedDuty DEF Fails
    <2> QED  BY <1>0, <2>1, <2>2
  <1>7. published \subseteq published' /\ repo.id <= repo'.id  BY <1>0, <1>1, <1>2
  <1>8. repo'.marker # 0 => saved.intent.op = repo'.marker  BY <1>1, <1>2 DEF Books
  <1>9. key' \in BOOLEAN /\ ops' \in Nat /\ keyed \subseteq keyed' /\ keyed' \subseteq Nat
    BY <1>0, <1>1
  <1> QED  BY <1>0, <1>1, <1>2, <1>3, <1>4, <1>5, <1>6, <1>7, <1>8, <1>9, DutyMoves

LEMMA VerifyOK ==
  ASSUME CreationInv, NEW r \in Attempts, Verify(r)
  PROVE  CreationInv'
  <1> DEFINE i == attempt[r].intent
  <1>0. /\ attempt[r].pc = "verify" /\ CreationTypeOK /\ OnDuty(r) /\ Books
        /\ repo \in Repo /\ repo.id \in Nat /\ i.destination \in Nat
        /\ repo.id = i.destination /\ Steps(r, "key")
        /\ attempt[r].pc \in AtWork /\ \A p \in published : p.id \in Nat
        /\ UNCHANGED <<template, repo, keyed, key, registry, saved, working, published, ops>>
    BY AttemptTyped DEF Verify, AtWork, AttemptPcs
  <1>1. PICK p \in published : p.op = i.op /\ p.commit = i.commit /\ i.destination <= p.id
    BY <1>0 DEF OnDuty
  <1>2. \A x \in published : x.id <= i.destination  BY <1>0 DEF Books
  <1>3. p.id = i.destination  BY <1>0, <1>1, <1>2
  <1>4. PublishedFor(i, i.destination)  BY <1>1, <1>3 DEF PublishedFor
  <1>5. attempt'[r].pc = "key" /\ attempt'[r].intent = i => OnDuty(r)'
    BY <1>0, <1>2, <1>4 DEF OnDuty, AtWork, Creating, AttemptPcs, Same, PublishedFor
  <1>6. key' \in BOOLEAN /\ keyed \subseteq Nat /\ working' \in Attempts \cup {Nobody}
    BY <1>0 DEF CreationTypeOK
  <1> QED  BY <1>0, <1>5, <1>6, QuietMove DEF AttemptPcs

LEMMA InstallKeyOK ==
  ASSUME CreationInv, NEW r \in Attempts, NEW from \in {"key", "legacykey"},
         NEW to \in {"checkout", "legacy"}, from = "key" <=> to = "checkout",
         InstallKey(r, from, to)
  PROVE  CreationInv'
  <1> DEFINE i == attempt[r].intent
  <1>0. /\ attempt[r].pc = from /\ CreationTypeOK /\ OnDuty(r) /\ Books
        /\ repo \in Repo /\ repo.id \in Nat /\ i.destination \in Nat /\ keyed \subseteq Nat
        /\ attempt[r].pc \in AtWork /\ working = r
        /\ key' = TRUE
        /\ UNCHANGED <<template, repo, registry, saved, published, ops>>
    BY AttemptTyped DEF InstallKey, AtWork, AttemptPcs, OnDuty
  <1>1. working' \in Attempts \cup {Nobody}  BY <1>0 DEF InstallKey
  <1>2. CASE keyed' = keyed \cup {repo.id} /\ Steps(r, to)
    <2>1. working' = r  BY <1>0, <1>2 DEF InstallKey, Steps, CreationTypeOK, Attempt
    <2>2. from = "key" => i.destination <= repo.id  BY <1>0 DEF OnDuty, Creating, AtWork, AttemptPcs
    <2>3. attempt'[r].pc = to /\ attempt'[r].intent = i => OnDuty(r)'
      <3>1. CASE from = "key"
        <4>1. \E y \in keyed' : i.destination <= y /\ y <= repo'.id  BY <1>0, <1>2, <2>2, <3>1
        <4> QED  BY <1>0, <2>1, <3>1, <4>1
                 DEF OnDuty, AtWork, Creating, AttemptPcs, Same, PublishedFor
      <3>2. CASE from # "key"
        BY <1>0, <2>1, <3>2 DEF OnDuty, AtWork, Creating, AttemptPcs
      <3> QED  BY <3>1, <3>2
    <2>4. keyed \subseteq keyed' /\ keyed' \subseteq Nat  BY <1>0, <1>2
    <2> QED  BY <1>0, <1>1, <1>2, <2>3, <2>4, QuietMove DEF AttemptPcs
  <1>3. CASE keyed' \in {keyed, keyed \cup {repo.id}} /\ Steps(r, "over")
    <2>1. attempt'[r].pc = "over" => OnDuty(r)'
      BY DEF OnDuty, AtWork, Creating, AttemptPcs
    <2>2. keyed \subseteq keyed' /\ keyed' \subseteq Nat  BY <1>0, <1>3
    <2> QED  BY <1>0, <1>1, <1>3, <2>1, <2>2, QuietMove DEF AttemptPcs
  <1> QED  BY <1>2, <1>3 DEF InstallKey

LEMMA CheckoutOK ==
  ASSUME CreationInv, NEW r \in Attempts, Checkout(r)
  PROVE  CreationInv'
  <1> DEFINE i == attempt[r].intent
  <1>0. /\ attempt[r].pc = "checkout" /\ CreationTypeOK /\ OnDuty(r) /\ Books
        /\ repo.id \in Nat /\ i.destination \in Nat /\ keyed \subseteq Nat
        /\ PublishedFor(i, repo.id) /\ Steps(r, "register") /\ attempt[r].pc \in AtWork
        /\ UNCHANGED <<template, repo, keyed, key, registry, saved, working, published, ops>>
    BY AttemptTyped DEF Checkout, AtWork, AttemptPcs
  <1>1. PICK y \in keyed : i.destination <= y /\ y <= repo.id
    BY <1>0 DEF OnDuty
  <1>2. PICK p \in published : p.id = repo.id  BY <1>0 DEF PublishedFor
  <1>3. p.id <= i.destination  BY <1>0, <1>2 DEF OnDuty
  <1>4. i.destination \in keyed
    <2>1. y = i.destination  BY <1>0, <1>1, <1>2, <1>3
    <2> QED  BY <2>1
  <1>5. attempt'[r].pc = "register" /\ attempt'[r].intent = i => OnDuty(r)'
    BY <1>0, <1>4 DEF OnDuty, AtWork, Creating, AttemptPcs, Same, PublishedFor
  <1>6. key' \in BOOLEAN /\ working' \in Attempts \cup {Nobody}
    BY <1>0 DEF CreationTypeOK
  <1> QED  BY <1>0, <1>5, <1>6, QuietMove DEF AttemptPcs

LEMMA AttemptFailsOK ==
  ASSUME CreationInv, NEW r \in Attempts, AttemptFails(r)
  PROVE  CreationInv'
  <1>0. /\ attempt[r].pc \in AtWork /\ CreationTypeOK /\ Steps(r, "over") /\ working' = Nobody
        /\ UNCHANGED <<template, repo, keyed, key, registry, saved, published, ops>>
    BY AttemptTyped DEF AttemptFails, Fails, AtWork
  <1>1. attempt'[r].pc = "over" => OnDuty(r)'
    BY DEF OnDuty, AtWork, Creating, AttemptPcs
  <1>2. key' \in BOOLEAN /\ keyed' \subseteq Nat  BY <1>0 DEF CreationTypeOK
  <1> QED  BY <1>0, <1>1, <1>2, QuietMove DEF AttemptPcs

\* A request that ends with a change of the registry, saved or not.
LEMMA EndsWithRegistry ==
  ASSUME CreationInv, NEW r \in Attempts, working \in {r, Nobody},
         NEW pc \in {"told", "over"}, Steps(r, pc), working' \in Attempts \cup {Nobody},
         UNCHANGED <<template, repo, keyed, key, published, ops>>,
         registry' \in Registry, saved' \in {registry', saved},
         registry'.intent.op # 0 => registry'.intent.prepared,
         registry'.intent.destination <= repo.id,
         Whole(registry'),
         saved.intent.op # 0 => Same(registry'.intent, saved.intent)
  PROVE  CreationInv'
  <1>0. CreationTypeOK /\ saved \in Registry  BY AttemptTyped
  <1>1. Books'  BY BooksMove
  <1>2. \A q \in Attempts : OnDuty(q)'
    BY <1>0, EndedDuty, OthersOffDuty
  <1>3. attempt' \in [Attempts -> Attempt]  BY <1>0, EndedDuty
  <1>4. CreationTypeOK'  BY <1>0, <1>3 DEF CreationTypeOK
  <1> QED  BY <1>1, <1>2, <1>4 DEF CreationInv

\* done, as Register writes it.
Entered(state, j) == [state EXCEPT !.intent = j, !.registered = TRUE, !.created = 1]
Done(state, i, complete) == Entered(state, [i EXCEPT !.complete = complete])

LEMMA DoneIs ==
  ASSUME NEW state \in Registry, NEW i \in Intent, NEW complete \in BOOLEAN
  PROVE  LET d == Done(state, i, complete)
         IN  /\ d \in Registry /\ d.registered /\ d.created = 1
             /\ d.intent.op = i.op /\ d.intent.commit = i.commit
             /\ d.intent.prepared = i.prepared /\ d.intent.destination = i.destination
             /\ d.intent.complete = complete
  <1> DEFINE j == [i EXCEPT !.complete = complete]
  <1>1. /\ j \in Intent /\ j.op = i.op /\ j.commit = i.commit /\ j.prepared = i.prepared
        /\ j.destination = i.destination /\ j.complete = complete
    BY DEF Intent
  <1>2. Done(state, i, complete) = Entered(state, j)
    BY DEF Done
  <1> HIDE DEF j
  <1>3. /\ Entered(state, j) \in Registry /\ Entered(state, j).intent = j
        /\ Entered(state, j).registered = TRUE /\ Entered(state, j).created = 1
    <2>1. 1 \in 0..1  OBVIOUS
    <2>2. Entered(state, j) \in Registry  BY <1>1, <2>1 DEF Registry, Entered
    <2>3. Entered(state, j).intent = j  BY DEF Registry, Entered
    <2>4. Entered(state, j).registered = TRUE  BY DEF Registry, Entered
    <2>5. Entered(state, j).created = 1  BY DEF Registry, Entered
    <2> QED  BY <2>2, <2>3, <2>4, <2>5
  <1> QED  BY <1>1, <1>2, <1>3

LEMMA RegisterShape ==
  ASSUME CreationTypeOK, NEW r \in Attempts, Register(r)
  PROVE  /\ attempt[r].pc = "register" /\ working' = Nobody
         /\ UNCHANGED <<template, repo, keyed, key, published, ops>>
         /\ \/ /\ registry' = Done(registry, attempt[r].intent, TRUE)
               /\ saved' = registry' /\ Steps(r, "told")
            \/ /\ registry' = Done(registry, attempt[r].intent, FALSE)
               /\ saved' = saved /\ Steps(r, "over")
  <1> DEFINE i    == attempt[r].intent
             done == [registry EXCEPT !.intent = [i EXCEPT !.complete = TRUE],
                                      !.registered = TRUE, !.created = 1]
  <1>0. i \in Intent /\ registry \in Registry  BY DEF CreationTypeOK, Attempt
  <1>1. done = Done(registry, i, TRUE)  BY DEF Done, Entered
  <1>2. [done EXCEPT !.intent.complete = FALSE] = Done(registry, i, FALSE)
    BY <1>0 DEF Done, Entered, Registry, Intent
  <1>3. /\ attempt[r].pc = "register" /\ working' = Nobody
        /\ UNCHANGED <<template, repo, keyed, key, published, ops>>
        /\ \/ registry' = done /\ saved' = done /\ Steps(r, "told")
           \/ /\ registry' = [done EXCEPT !.intent.complete = FALSE]
              /\ UNCHANGED saved /\ Steps(r, "over")
    BY Zenon DEF Register
  <1> HIDE DEF done
  <1> QED  BY <1>1, <1>2, <1>3

LEMMA RegisterOK ==
  ASSUME CreationInv, NEW r \in Attempts, Register(r)
  PROVE  CreationInv'
  <1> DEFINE i == attempt[r].intent
  <1>0. /\ CreationTypeOK /\ OnDuty(r) /\ Books /\ i \in Intent /\ registry \in Registry
    BY AttemptTyped
  <1>1. /\ attempt[r].pc = "register" /\ working' = Nobody
        /\ UNCHANGED <<template, repo, keyed, key, published, ops>>
        /\ \/ registry' = Done(registry, i, TRUE) /\ saved' = registry' /\ Steps(r, "told")
           \/ registry' = Done(registry, i, FALSE) /\ saved' = saved /\ Steps(r, "over")
    BY <1>0, RegisterShape
  <1>2. /\ working = r /\ i.prepared /\ i.destination <= repo.id /\ Same(saved.intent, i)
        /\ PublishedFor(i, i.destination) /\ i.destination \in keyed
    BY <1>0, <1>1 DEF OnDuty, AtWork, Creating, AttemptPcs
  <1>3. PICK complete \in BOOLEAN : registry' = Done(registry, i, complete)  BY <1>1
  <1>4. /\ registry' \in Registry /\ registry'.registered /\ registry'.created = 1
        /\ registry'.intent.op = i.op /\ registry'.intent.commit = i.commit
        /\ registry'.intent.prepared = i.prepared
        /\ registry'.intent.destination = i.destination
    BY <1>0, <1>3, DoneIs
  <1>5. Whole(registry')  BY <1>2, <1>4 DEF Whole, PublishedFor
  <1>6. Same(registry'.intent, saved.intent)  BY <1>2, <1>4 DEF Same
  <1>7. PICK pc \in {"told", "over"} : Steps(r, pc)  BY <1>1
  <1>8. saved' \in {registry', saved} /\ working' \in Attempts \cup {Nobody}
        /\ registry'.intent.destination <= repo.id /\ registry'.intent.prepared
    BY <1>1, <1>2, <1>4
  <1> QED  BY <1>1, <1>2, <1>4, <1>5, <1>6, <1>7, <1>8, EndsWithRegistry

LEMMA LegacyBeginOK ==
  ASSUME CreationInv, NEW r \in Attempts, LegacyBegin(r)
  PROVE  CreationInv'
  <1> DEFINE i == attempt[r].intent
  <1>0. /\ attempt[r].pc = "idle" /\ working = Nobody /\ CreationTypeOK /\ Books
        /\ repo \in Repo /\ repo.id \in Nat /\ registry \in Registry /\ saved \in Registry
        /\ i \in Intent
        /\ UNCHANGED <<template, keyed, key, published, ops>>
    BY AttemptTyped DEF LegacyBegin
  <1>1. /\ repo' \in Repo /\ repo.id <= repo'.id
        /\ repo'.marker # 0 => saved.intent.op = repo'.marker
    <2> DEFINE made == [NoRepo EXCEPT !.id = repo.id + 1, !.there = TRUE, !.master = "theirs"]
    <2>1. repo' = repo \/ repo' = made  BY DEF LegacyBegin, CreateOrAdopt
    <2>2. CASE repo' = repo  BY <1>0, <2>2 DEF Books
    <2>3. CASE repo' = made  BY <1>0, <2>3, NewRepo
    <2> QED  BY <2>1, <2>2, <2>3
  <1>2. /\ registry' = [registry EXCEPT !.pending = TRUE]
        /\ saved' \in {registry', saved}
        /\ \/ Steps(r, "legacykey") /\ working' = r
           \/ Steps(r, "over") /\ working' = working
    BY DEF LegacyBegin
  <1>3. /\ registry' \in Registry /\ registry'.intent = registry.intent
        /\ registry'.registered = registry.registered /\ registry'.created = registry.created
    BY <1>0, <1>2 DEF Registry
  <1>4. Books'
    <2>1. Whole(registry') /\ Whole(saved')
      <3>1. Whole(registry) /\ Whole(saved)  BY <1>0 DEF Books
      <3>2. Whole(registry')  BY <1>3, <3>1 DEF Whole
      <3> QED  BY <1>2, <3>1, <3>2
    <2>8. saved'.intent \in {registry.intent, saved.intent}  BY <1>2, <1>3
    <2>2. \A p \in published' : p.id <= repo'.id /\ p.over = "none" /\ p.op # 0
                                /\ Same(saved'.intent, p)
      <3>1. \A p \in published : p.id \in Nat  BY AttemptTyped
      <3>2. repo'.id \in Nat  BY <1>1 DEF Repo
      <3>3. \A p \in published : p.id <= repo.id /\ p.over = "none" /\ p.op # 0
                                 /\ Same(saved.intent, p)
        BY <1>0 DEF Books
      <3>4. \A p \in published : p.id <= repo'.id  BY <1>0, <1>1, <3>1, <3>2, <3>3
      <3>5. \A p \in published : Same(registry.intent, p)  BY <1>0, <3>3 DEF Books, Same
      <3>6. published' = published  BY <1>0
      <3>7. ASSUME NEW p \in published  PROVE Same(saved'.intent, p)
        BY <2>8, <3>3, <3>5 DEF Same
      <3> QED  BY <3>3, <3>4, <3>6, <3>7
    <2>3. \A s \in {registry', saved'} : /\ s.intent.op # 0 => s.intent.prepared
                                         /\ s.intent.destination <= repo'.id
      <3>1. \A s \in {registry, saved} : s.intent.destination \in Nat
        BY <1>0 DEF Registry, Intent
      <3>2. repo'.id \in Nat  BY <1>1 DEF Repo
      <3>3. \A s \in {registry, saved} : /\ s.intent.op # 0 => s.intent.prepared
                                         /\ s.intent.destination <= repo'.id
        BY <1>0, <1>1, <3>1, <3>2 DEF Books
      <3>4. registry'.intent = registry.intent  BY <1>3
      <3> QED  BY <2>8, <3>3, <3>4
    <2>4. repo'.marker # 0 => saved'.intent.op = repo'.marker
      BY <1>0, <1>1, <1>2, <1>3 DEF Books, Same
    <2>5. saved'.intent.op # 0 => Same(registry'.intent, saved'.intent)
      BY <1>0, <1>2, <1>3 DEF Books, Same
    <2>7. Whole(registry)' /\ Whole(saved)'
      BY <1>0, <2>1 DEF Whole, PublishedFor
    <2> QED  BY <2>2, <2>3, <2>4, <2>5, <2>7 DEF Books, Same
  <1>5. PICK pc \in {"legacykey", "over"} : Steps(r, pc) /\ (pc = "legacykey" => working' = r)
    BY <1>2
  <1>6. /\ attempt' \in [Attempts -> Attempt]
        /\ attempt'[r].pc = pc /\ attempt'[r].intent = i
        /\ \A q \in Attempts \ {r} : attempt'[q] = attempt[q]
    BY <1>0, <1>5, AttemptMoves DEF AttemptPcs
  <1>7. OnDuty(r)'  BY <1>5, <1>6 DEF OnDuty, AtWork, Creating, AttemptPcs
  <1>8. \A q \in Attempts : OnDuty(q)'  BY <1>0, <1>6, <1>7, OthersOffDuty
  <1>9. CreationTypeOK'
    BY <1>0, <1>1, <1>2, <1>3, <1>6 DEF CreationTypeOK
  <1> QED  BY <1>4, <1>8, <1>9 DEF CreationInv

LEMMA LegacyEndsOK ==
  ASSUME CreationInv, NEW r \in Attempts, LegacyEnds(r)
  PROVE  CreationInv'
  <1>0. /\ attempt[r].pc = "legacy" /\ CreationTypeOK /\ OnDuty(r) /\ Books
        /\ registry \in Registry /\ working' = Nobody
        /\ UNCHANGED <<template, repo, keyed, key, published, ops>>
    BY AttemptTyped DEF LegacyEnds
  <1>1. working = r  BY <1>0 DEF OnDuty, AtWork, AttemptPcs
  <1>2. PICK pc \in {"told", "over"} : Steps(r, pc)  BY DEF LegacyEnds
  <1>3. saved' \in {registry', saved}
        /\ registry' \in {registry, [registry EXCEPT !.pending = FALSE]}
    BY DEF LegacyEnds
  <1>4. /\ registry' \in Registry /\ registry'.intent = registry.intent
        /\ registry'.registered = registry.registered /\ registry'.created = registry.created
    BY <1>0, <1>3 DEF Registry
  <1>5. Whole(registry')  BY <1>0, <1>4 DEF Books, Whole, PublishedFor
  <1>6. /\ registry'.intent.op # 0 => registry'.intent.prepared
        /\ registry'.intent.destination <= repo.id
        /\ saved.intent.op # 0 => Same(registry'.intent, saved.intent)
    BY <1>0, <1>4 DEF Books
  <1> QED  BY <1>0, <1>1, <1>2, <1>3, <1>4, <1>5, <1>6, EndsWithRegistry

\* The template moves, others work on the repository, the snapshot is written.
LEMMA WorldMoves ==
  ASSUME CreationInv,
         \/ \E s \in Selections : TemplateChanges(s)
         \/ OthersCreate \/ OthersPush \/ OthersDelete
  PROVE  CreationInv'
  <1>0. CreationTypeOK /\ Books /\ repo \in Repo  BY DEF CreationInv, CreationTypeOK
  <1>1. UNCHANGED <<keyed, key, registry, saved, attempt, working, published, ops>>
    BY DEF TemplateChanges, OthersCreate, OthersPush, OthersDelete
  <1>2. template' \in [Selections -> [commit: Commits, eligible: BOOLEAN]]
    <2>1. CASE UNCHANGED template  BY <1>0, <2>1 DEF CreationTypeOK
    <2>2. ASSUME NEW s \in Selections, TemplateChanges(s)
          PROVE  template' \in [Selections -> [commit: Commits, eligible: BOOLEAN]]
      <3> DEFINE t == template[s]
      <3>1. template \in [Selections -> [commit: Commits, eligible: BOOLEAN]]
            /\ t \in [commit: Commits, eligible: BOOLEAN]
        BY <1>0 DEF CreationTypeOK
      <3>2. CASE template' = [template EXCEPT ![s].eligible = ~@]
        <4>1. [t EXCEPT !.eligible = ~t.eligible] \in [commit: Commits, eligible: BOOLEAN]
          BY <3>1
        <4> QED  BY <3>1, <3>2, <4>1
      <3>3. CASE t.commit < MaxCommit /\ template' = [template EXCEPT ![s].commit = @ + 1]
        <4>1. t.commit + 1 \in Commits  BY <3>1, <3>3, CreationAssumption DEF Commits
        <4>2. [t EXCEPT !.commit = t.commit + 1] \in [commit: Commits, eligible: BOOLEAN]
          BY <3>1, <4>1
        <4> QED  BY <3>1, <3>3, <4>2
      <3> QED  BY <2>2, <3>2, <3>3 DEF TemplateChanges
    <2> QED  BY <2>1, <2>2 DEF OthersCreate, OthersPush, OthersDelete
  <1>3. /\ repo' \in Repo /\ repo.id <= repo'.id
        /\ repo'.marker \in {0, repo.marker}
    <2>6. repo.id \in Nat  BY <1>0 DEF Repo
    <2>1. CASE repo' = repo
      <3>1. repo.id <= repo'.id  BY <2>1, <2>6
      <3> QED  BY <1>0, <2>1, <3>1
    <2>2. CASE OthersCreate
      <3>1. PICK m \in {"none", "theirs"}, b \in BOOLEAN :
              repo' = [id |-> repo.id + 1, there |-> TRUE, marker |-> 0,
                       master |-> m, beside |-> b]
        BY <2>2 DEF OthersCreate
      <3> QED  BY <1>0, <3>1 DEF Repo
    <2>3. CASE OthersPush  BY <1>0, <2>3 DEF OthersPush, Repo
    <2>4. CASE OthersDelete
      <3> DEFINE gone == [NoRepo EXCEPT !.id = repo.id]
      <3>1. repo' = gone  BY <2>4 DEF OthersDelete
      <3>2. gone \in Repo /\ gone.id = repo.id /\ gone.marker = 0  BY <1>0, <2>6 DEF NoRepo, Repo
      <3> HIDE DEF gone
      <3> QED  BY <2>6, <3>1, <3>2
    <2>5. ASSUME NEW s \in Selections, TemplateChanges(s)  PROVE repo' = repo
      BY <2>5 DEF TemplateChanges
    <2> QED  BY <2>1, <2>2, <2>3, <2>4, <2>5
  <1>4. Books'  BY <1>0, <1>1, <1>3, BooksKept DEF Books
  <1>5. \A r \in Attempts : OnDuty(r)'  BY <1>1, <1>3, DutyStays
  <1>6. CreationTypeOK'  BY <1>0, <1>1, <1>2, <1>3 DEF CreationTypeOK
  <1> QED  BY <1>4, <1>5, <1>6 DEF CreationInv

LEMMA CreationByOthersOK ==
  ASSUME CreationInv, CreationByOthers
  PROVE  CreationInv'
  <1>0. /\ CreationTypeOK /\ Books /\ repo \in Repo /\ repo.id \in Nat
        /\ saved' = registry
        /\ UNCHANGED <<template, repo, keyed, key, registry, attempt, working, published, ops>>
    BY DEF CreationInv, CreationTypeOK, CreationByOthers, Repo
  <1>1. Books'  BY <1>0, BooksMove DEF Books, Whole
  <1>2. \A r \in Attempts : OnDuty(r)'  BY <1>0, DutyStays
  <1>3. CreationTypeOK'  BY <1>0 DEF CreationTypeOK
  <1> QED  BY <1>1, <1>2, <1>3 DEF CreationInv

LEMMA CreationRestartOK ==
  ASSUME CreationInv, CreationRestart
  PROVE  CreationInv'
  <1>0. /\ CreationTypeOK /\ Books /\ registry' = saved /\ working' = Nobody
        /\ UNCHANGED <<template, repo, keyed, key, saved, published, ops>>
    BY DEF CreationInv, CreationRestart
  <1>1. \A r \in Attempts : /\ attempt'[r].pc \in {"idle", "told", "over"}
                            /\ attempt'[r] \in Attempt
    BY <1>0 DEF CreationRestart, CreationTypeOK, Attempt, AttemptPcs
  <1>2. attempt' \in [Attempts -> Attempt]
    BY <1>1 DEF CreationRestart
  <1>3. \A r \in Attempts : OnDuty(r)'
    BY <1>1 DEF OnDuty, AtWork, Creating, AttemptPcs
  <1>4. Books'
    BY <1>0, BooksMove DEF Books, Whole, Same
  <1>5. CreationTypeOK'  BY <1>0, <1>2 DEF CreationTypeOK
  <1> QED  BY <1>3, <1>4, <1>5 DEF CreationInv

LEMMA CreationInitOK == CreationInit => CreationInv
  <1> SUFFICES ASSUME CreationInit  PROVE CreationInv
    OBVIOUS
  <1>0. NoIntent \in Intent /\ ~NoIntent.complete /\ NoIntent.destination = 0 /\ NoIntent.op = 0
    BY NoIntentTyped
  <1>1. PICK legacy \in BOOLEAN :
          registry = [intent |-> NoIntent, registered |-> legacy, pending |-> legacy,
                      created |-> IF legacy THEN 1 ELSE 0]
    BY CreationAssumption DEF CreationInit
  <1>2. registry \in Registry /\ registry.intent = NoIntent
    BY <1>0, <1>1 DEF Registry
  <1>3. saved = registry /\ published = {} /\ repo = NoRepo /\ working = Nobody /\ keyed = {}
        /\ key = FALSE /\ ops = 0
    BY DEF CreationInit
  <1>4. NoRepo \in Repo /\ NoRepo.id = 0 /\ NoRepo.marker = 0  BY DEF NoRepo, Repo
  <1>5. \A r \in Attempts : attempt[r] \in Attempt /\ attempt[r].pc = "idle"
    BY <1>0 DEF CreationInit, Attempt, AttemptPcs
  <1>6. attempt \in [Attempts -> Attempt]  BY <1>5 DEF CreationInit
  <1>7. template \in [Selections -> [commit: Commits, eligible: BOOLEAN]]
    BY CreationAssumption DEF CreationInit, Commits
  <1>8. CreationTypeOK
    BY <1>2, <1>3, <1>4, <1>6, <1>7 DEF CreationTypeOK
  <1>9. \A r \in Attempts : OnDuty(r)
    BY <1>5 DEF OnDuty, AtWork, Creating, AttemptPcs
  <1>10. Books
    BY <1>0, <1>2, <1>3, <1>4 DEF Books, Whole
  <1> QED  BY <1>8, <1>9, <1>10 DEF CreationInv

LEMMA CreationStutters ==
  ASSUME CreationInv, UNCHANGED creationVars
  PROVE  CreationInv'
  <1> USE DEF creationVars
  <1>0. CreationTypeOK /\ Books /\ repo \in Repo /\ repo.id \in Nat
    BY DEF CreationInv, CreationTypeOK, Repo
  <1>1. Books'  BY <1>0, BooksKept DEF Books
  <1>2. \A r \in Attempts : OnDuty(r)'  BY <1>0, DutyStays
  <1>3. CreationTypeOK'  BY <1>0 DEF CreationTypeOK
  <1> QED  BY <1>1, <1>2, <1>3 DEF CreationInv

LEMMA CreationStepOK ==
  ASSUME CreationInv, CreationNext
  PROVE  CreationInv'
  <1>1. ASSUME NEW r \in Attempts, AttemptRuns(r)  PROVE CreationInv'
    <2>1. CASE InstallKey(r, "key", "checkout")  BY <2>1, InstallKeyOK
    <2>2. CASE InstallKey(r, "legacykey", "legacy")  BY <2>2, InstallKeyOK
    <2> QED
      BY <1>1, <2>1, <2>2, PrepareOK, ProbeOK, PostOK, BindOK, PublishOK, PushOK,
         PushedOK, VerifyOK, CheckoutOK, RegisterOK, LegacyEndsOK, AttemptFailsOK DEF AttemptRuns
  <1>2. ASSUME NEW r \in Attempts, NEW a \in Actors, NEW s \in Selections, CreateBegin(r, a, s)
        PROVE  CreationInv'
    BY <1>2, CreateBeginOK
  <1> QED
    BY <1>1, <1>2, LegacyBeginOK, WorldMoves, CreationByOthersOK, CreationRestartOK
    DEF CreationNext

\* However often a creation is retried, over lost answers, refused saves, restarts and
\* other people's use of the name, between the look and the push too: no master of
\* theirs is overwritten, a repository with
\* the operation's marker can be resumed from disk, an operation publishes one commit,
\* and a creation reported complete is whole in memory and on disk.
THEOREM CreationReliable == CreationSpec => []CreationSound
  <1>1. CreationInit => CreationInv  BY CreationInitOK
  <1>2. CreationInv /\ [CreationNext]_creationVars => CreationInv'
    BY CreationStepOK, CreationStutters
  <1>3. CreationInv => CreationSound  BY CreationInvSound
  <1> QED  BY <1>1, <1>2, <1>3, PTL DEF CreationSpec

-----------------------------------------------------------------------------
(* The run: every component keeps its types, whichever moves *)

\* An upgrade past its look at master builds a commit.
AppsInv ==
  /\ AppsTypeOK
  /\ \A u \in Upgrades : upgrade[u].pc \in {"locked", "building", "built"} =>
                           upgrade[u].sha # NoSha

LEMMA AppsStarts == AppsInit => AppsInv
  BY AppsAssumption DEF AppsInit, AppsInv, AppsTypeOK, Upgrade, UpgradePcs, AppRecord, Shas, NoSha,
     Container, Absent

LEMMA AppsStep ==
  ASSUME AppsInv, [AppsNext]_appVars
  PROVE  AppsInv'
  <1>0. AppsTyped /\ AppsTypeOK  BY DEF AppsInv, AppsTypeOK, AppsTyped
  <1>1. AppsTyped'  BY <1>0, AppsTypedStep
  <1>2. \A u \in Upgrades : upgrade[u] \in Upgrade /\ upgrade[u].sha \in Shas
    BY <1>0 DEF AppsTypeOK, Upgrade
  <1> DEFINE Built(u) == upgrade[u].pc \in {"locked", "building", "built"} => upgrade[u].sha # NoSha
             Stays == /\ master' # NoSha /\ images' \subseteq Shas \ {NoSha}
                      /\ container' \in Container /\ mirror' \in Upgrades \cup {NoUpgrade}
                      /\ \A u \in Upgrades : Built(u)'
  <1>3. Stays => AppsInv'
    BY <1>1 DEF AppsInv, AppsTypeOK, AppsTyped
  <1>4. Absent \in Container /\ \A s \in Shas, up \in BOOLEAN : [sha |-> s, up |-> up] \in Container
    BY AppsAssumption DEF Absent, Container, Shas, NoSha
  <1>5. ASSUME NEW u \in Upgrades, UpgradeBegin(u)  PROVE Stays
    BY <1>0, <1>2, <1>5 DEF UpgradeBegin, Goes, AppsInv, AppsTypeOK
  <1>6. ASSUME NEW u \in Upgrades, UpgradeUnresolved(u)  PROVE Stays
    BY <1>0, <1>2, <1>6 DEF UpgradeUnresolved, Goes, AppsInv, AppsTypeOK
  <1>7. ASSUME NEW u \in Upgrades, UpgradeLocks(u)  PROVE Stays
    <2>1. CASE Goes(u, "over") /\ UNCHANGED mirror
      BY <1>0, <1>2, <1>7, <2>1 DEF UpgradeLocks, Goes, AppsInv, AppsTypeOK
    <2>2. CASE mirror' = u /\ upgrade' = [upgrade EXCEPT ![u].pc = "locked", ![u].sha = master]
      <3>1. upgrade'[u].sha = master /\ \A v \in Upgrades \ {u} : upgrade'[v] = upgrade[v]
        BY <1>0, <1>2, <2>2 DEF AppsTypeOK, Upgrade
      <3> QED  BY <1>0, <1>7, <2>2, <3>1 DEF UpgradeLocks, AppsInv, AppsTypeOK
    <2> QED  BY <1>7, <2>1, <2>2 DEF UpgradeLocks
  <1>8. ASSUME NEW u \in Upgrades, UpgradeRecreates(u)  PROVE Stays
    <2>1. container' \in Container  BY <1>2, <1>4, <1>8 DEF UpgradeRecreates, Recreated
    <2> QED  BY <1>0, <1>2, <1>8, <2>1 DEF UpgradeRecreates, Goes, AppsInv, AppsTypeOK
  <1>9. ASSUME NEW u \in Upgrades, UpgradeBuilds(u)  PROVE Stays
    BY <1>0, <1>2, <1>9 DEF UpgradeBuilds, Goes, AppsInv, AppsTypeOK
  <1>10. ASSUME NEW u \in Upgrades, BuildEnds(u)  PROVE Stays
    <2>1. upgrade[u].sha \in Shas \ {NoSha}  BY <1>2, <1>10 DEF BuildEnds, AppsInv
    <2>2. container' \in Container /\ images' \subseteq Shas \ {NoSha}
      BY <1>0, <1>4, <1>10, <2>1 DEF BuildEnds, Recreated, AppsTypeOK
    <2>3. \A v \in Upgrades : Built(v)'
      <3>1. PICK ok \in BOOLEAN :
              upgrade' = [upgrade EXCEPT ![u].pc = "built", ![u].ok = ok]
        BY <1>10 DEF BuildEnds
      <3>2. upgrade'[u].sha = upgrade[u].sha /\ \A v \in Upgrades \ {u} : upgrade'[v] = upgrade[v]
        BY <1>0, <1>2, <3>1 DEF AppsTypeOK, Upgrade
      <3> QED  BY <2>1, <3>2 DEF AppsInv
    <2> QED  BY <1>0, <1>10, <2>2, <2>3 DEF BuildEnds, AppsTypeOK
  <1>11. ASSUME NEW u \in Upgrades, BuildSettles(u)  PROVE Stays
    BY <1>0, <1>2, <1>11 DEF BuildSettles, Goes, AppsInv, AppsTypeOK
  <1>12. ASSUME Verb  PROVE Stays
    <2>1. container' \in Container  BY <1>0, <1>12 DEF Verb, AppsTypeOK, Container
    <2> QED  BY <1>0, <1>12, <2>1 DEF Verb, AppsInv, AppsTypeOK
  <1>13. ASSUME MasterMoves  PROVE Stays
    BY <1>0, <1>13 DEF MasterMoves, AppsInv, AppsTypeOK, Shas, NoSha
  <1>14. ASSUME AppByOthers \/ UNCHANGED appVars  PROVE Stays
    BY <1>0, <1>14 DEF AppByOthers, appVars, AppsInv, AppsTypeOK
  <1>15. ASSUME AppsRestart  PROVE Stays
    <2>1. images' \subseteq Shas \ {NoSha}
      BY <1>0, <1>2, <1>15 DEF AppsRestart, AppsInv, AppsTypeOK
    <2>2. \A u \in Upgrades : Built(u)'
      BY <1>2, <1>15 DEF AppsRestart, Upgrade
    <2> QED  BY <1>0, <1>15, <2>1, <2>2 DEF AppsRestart, AppsTypeOK
  <1> HIDE DEF Stays
  <1> QED  BY <1>3, <1>5, <1>6, <1>7, <1>8, <1>9, <1>10, <1>11, <1>12, <1>13, <1>14, <1>15
           DEF AppsNext, UpgradeRuns

\* The readers, those nobody waits for any more among them, hold a permit each.
Permits == IsFiniteSet(Reading) /\ Cardinality(Reading) <= Workers

LEMMA FewerReading ==
  ASSUME Permits, NEW T, T \subseteq Reading
  PROVE  IsFiniteSet(T) /\ Cardinality(T) <= Workers
  <1>1. /\ IsFiniteSet(T) /\ Cardinality(T) <= Cardinality(Reading)
        /\ Cardinality(Reading) \in Nat /\ Cardinality(T) \in Nat
    BY FS_Subset, FS_CardinalityType DEF Permits
  <1> QED  BY <1>1, RefreshAssumption DEF Permits

LEMMA OneMoreReads ==
  ASSUME Permits, Cardinality(Reading) < Workers, NEW c, NEW T, T \subseteq Reading \cup {c}
  PROVE  IsFiniteSet(T) /\ Cardinality(T) <= Workers
  <1> DEFINE S == Reading \cup {c}
  <1>1. IsFiniteSet(S) /\ Cardinality(S) <= Workers /\ Cardinality(S) \in Nat
    <2>1. /\ IsFiniteSet(S) /\ Cardinality(Reading) \in Nat
          /\ Cardinality(S) = IF c \in Reading THEN Cardinality(Reading)
                                               ELSE Cardinality(Reading) + 1
      BY FS_AddElement, FS_CardinalityType DEF Permits
    <2> QED  BY <2>1, RefreshAssumption DEF Permits
  <1>2. IsFiniteSet(T) /\ Cardinality(T) <= Cardinality(S) /\ Cardinality(T) \in Nat
    BY <1>1, FS_Subset, FS_CardinalityType
  <1> QED  BY <1>1, <1>2, RefreshAssumption

\* A worker reads once it has a permit; of a call that ends only its reader stays.
LEMMA PermitsStep ==
  ASSUME RefreshInv, Permits, [RefreshNext]_refreshVars
  PROVE  Permits'
  <1>0. RefreshTyped  BY DEF RefreshInv
  <1> DEFINE Shrinks ==
               \A c \in Refreshes : call'[c].worker = "reading" => call[c].worker = "reading"
  <1>1. Shrinks => Permits'
    <2>1. Shrinks => Reading' \subseteq Reading  BY DEF Reading
    <2> QED  BY <2>1, FewerReading DEF Permits
  <1>2. ASSUME NEW c \in Refreshes, NEW pc, Leaves(c, pc)  PROVE Shrinks
    BY <1>0, <1>2 DEF Leaves, NoCall, RefreshTyped, Call
  <1>3. ASSUME NEW c \in Refreshes, TakePermit(c)  PROVE Permits'
    <2>1. Reading' \subseteq Reading \cup {c} /\ Cardinality(Reading) < Workers
      BY <1>0, <1>3 DEF TakePermit, Reading, RefreshTyped, Call
    <2> QED  BY <2>1, OneMoreReads DEF Permits
  <1>4. ASSUME NEW c \in Refreshes, NEW p \in Watched, RefreshBegin(c, p) \/ RepairBegin(c, p)
        PROVE  Shrinks
    BY <1>0, <1>4 DEF RefreshBegin, RepairBegin, RefreshTyped, Call
  <1>5. ASSUME NEW c \in Refreshes, TakeGuard(c) \/ TooBusy(c) \/ Deadline(c)
        PROVE  Shrinks
    BY <1>0, <1>5 DEF TakeGuard, TooBusy, Deadline, RefreshTyped, Call
  <1>6. ASSUME NEW c \in Refreshes,
               BusySettles(c) \/ GivesUp(c) \/ CallReturns(c) \/ CallerDropped(c)
        PROVE  Shrinks
    BY <1>2, <1>6 DEF BusySettles, GivesUp, CallReturns, CallerDropped, Answers
  <1>7. ASSUME NEW c \in Refreshes, WorkerDone(c)  PROVE Shrinks
    BY <1>0, <1>7 DEF WorkerDone, NoCall, RefreshTyped, Call
  <1>8. ASSUME (\E p \in Watched : FallsDue(p)) \/ UNCHANGED refreshVars  PROVE Shrinks
    BY <1>8 DEF FallsDue, refreshVars
  <1>9. ASSUME RefreshRestart  PROVE Shrinks
    BY <1>9 DEF RefreshRestart, NoCall
  <1> HIDE DEF Shrinks
  <1> QED  BY <1>1, <1>3, <1>4, <1>5, <1>6, <1>7, <1>8, <1>9 DEF RefreshNext, CallRuns

LEMMA PermitsStart == RefreshInit => Permits
  <1> SUFFICES ASSUME RefreshInit PROVE Permits
    OBVIOUS
  <1>1. Reading = {}  BY DEF RefreshInit, Reading, NoCall
  <1>2. Cardinality({}) = 0 /\ IsFiniteSet({})  BY FS_EmptySet
  <1> QED  BY <1>1, <1>2, RefreshAssumption DEF Permits

\* The accepted commit is one.
Accepted == head # 0 /\ claimed \in BOOLEAN

LEMMA AcceptedStep ==
  ASSUME EnrollmentInv, Accepted, [EnrollmentNext]_enrollmentVars
  PROVE  Accepted'
  <1>1. (head' = head \/ head' = head + 1) /\ UNCHANGED claimed
    BY DEF EnrollmentNext, ReconcilerRuns, ReconcileBegin, ReconcileNotNow, Collect,
       CollectRefuses, CollectFails, Named, MemoryValidates, MemoryAccepts, MemoryRefuses,
       ReconcilerDropped, Receipt, Refusal, RefreshObserves, SeparateNamespace, HeadMoves,
       EnrollmentByOthers, EnrollmentRestart, enrollmentVars
  <1>2. head \in Nat  BY EnrollmentAssumption DEF EnrollmentInv, EnrollmentTyped, Commits0
  <1> QED  BY <1>1, <1>2 DEF Accepted

\* Every step of the run is a step of each component, or leaves it alone.
LEMMA ControlSteps ==
  ASSUME [MCNext]_MCVars
  PROVE  /\ [ApprovalsNext]_approvalVars /\ [AppsNext]_appVars /\ [WorkItemsNext]_workItemVars
         /\ [CreationNext]_creationVars /\ [ProcessNext]_processVars
         /\ [RefreshNext]_refreshVars /\ [EnrollmentNext]_enrollmentVars
         /\ [CompanionNext]_companionVars
  <1>1. CASE UNCHANGED MCVars
    BY Zenon, <1>1 DEF MCVars
  <1>2. CASE Rest("approvals") /\ ApprovalsNext  BY Zenon, <1>2 DEF Rest
  <1>3. CASE Rest("apps") /\ AppsNext  BY Zenon, <1>3 DEF Rest
  <1>4. CASE Rest("workitems") /\ WorkItemsNext  BY Zenon, <1>4 DEF Rest
  <1>5. CASE Rest("creation") /\ CreationNext  BY Zenon, <1>5 DEF Rest
  <1>6. CASE Rest("process") /\ ProcessNext  BY Zenon, <1>6 DEF Rest
  <1>7. CASE Rest("refresh") /\ RefreshNext  BY Zenon, <1>7 DEF Rest
  <1>8. CASE Rest("enrollment") /\ EnrollmentNext  BY Zenon, <1>8 DEF Rest
  <1>9. CASE Rest("companion") /\ CompanionNext  BY Zenon, <1>9 DEF Rest
  <1> QED  BY Zenon, <1>1, <1>2, <1>3, <1>4, <1>5, <1>6, <1>7, <1>8, <1>9 DEF MCNext

\* Whichever component of the run moves, all keep their types, and with them the limits
\* among those: as many readers as permits, those of callers long answered included, and
\* a recycle that stops at the last generation the record can name.
THEOREM ControlTyped == MCSpec => []MCTypeOK
  <1> DEFINE All == /\ ApprovalsInv /\ AppsInv /\ WorkItemsInv /\ CreationInv /\ ProcessInv
                    /\ RefreshInv /\ Permits /\ EnrollmentInv /\ Accepted
                    /\ CompanionInv /\ Generations
  <1>1. MCInit => All
    <2> SUFFICES ASSUME MCInit PROVE All
      OBVIOUS
    <2>1. ApprovalsInv  BY ApprovalsStarts DEF MCInit
    <2>2. AppsInv /\ WorkItemsInv  BY AppsStarts, WorkItemsStarts DEF MCInit
    <2>3. CreationInv /\ ProcessInv  BY CreationInitOK, ProcessStarts DEF MCInit
    <2>4. RefreshInv /\ Permits  BY RefreshStarts, PermitsStart DEF MCInit
    <2>5. EnrollmentInv  BY EnrollmentStarts DEF MCInit
    <2>6. Accepted  BY EnrollmentAssumption DEF MCInit, EnrollmentInit, Accepted
    <2>7. CompanionInv /\ Generations  BY CompanionStarts, GenerationsStart DEF MCInit
    <2> QED  BY <2>1, <2>2, <2>3, <2>4, <2>5, <2>6, <2>7
  <1>2. All /\ [MCNext]_MCVars => All'
    <2> SUFFICES ASSUME All, [MCNext]_MCVars PROVE All'
      OBVIOUS
    <2>0. /\ [ApprovalsNext]_approvalVars /\ [AppsNext]_appVars /\ [WorkItemsNext]_workItemVars
          /\ [CreationNext]_creationVars /\ [ProcessNext]_processVars
          /\ [RefreshNext]_refreshVars /\ [EnrollmentNext]_enrollmentVars
          /\ [CompanionNext]_companionVars
      BY ControlSteps
    <2>1. ApprovalsInv' /\ AppsInv' /\ WorkItemsInv'
      BY <2>0, ApprovalsStep, AppsStep, WorkItemsStep
    <2>2. CreationInv' /\ ProcessInv'
      BY <2>0, CreationStepOK, CreationStutters, ProcessStep
    <2>3. RefreshInv' /\ Permits'  BY <2>0, RefreshStep, PermitsStep
    <2>4. EnrollmentInv' /\ Accepted'  BY <2>0, EnrollmentStep, AcceptedStep
    <2>5. CompanionInv' /\ Generations'  BY <2>0, CompanionKeeps, GenerationsKeep
    <2> QED  BY <2>1, <2>2, <2>3, <2>4, <2>5
  <1>3. All => MCTypeOK
    <2> SUFFICES ASSUME All PROVE MCTypeOK
      OBVIOUS
    <2>1. ApprovalsTypeOK /\ AppsTypeOK /\ WorkItemsTypeOK /\ CreationTypeOK /\ ProcessTypeOK
      BY DEF ApprovalsInv, AppsInv, WorkItemsInv, CreationInv, ProcessInv
    <2>2. RefreshTypeOK
      BY DEF RefreshInv, RefreshTyped, Permits, RefreshTypeOK
    <2>3. EnrollmentTypeOK
      BY DEF EnrollmentInv, EnrollmentTyped, Accepted, EnrollmentTypeOK, Reconciler
    <2>4. CompanionTypeOK  BY CompanionTypes
    <2> QED  BY <2>1, <2>2, <2>3, <2>4 DEF MCTypeOK
  <1> HIDE DEF All
  <1> QED  BY <1>1, <1>2, <1>3, PTL DEF MCSpec

=============================================================================
