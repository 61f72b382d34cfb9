----------------------------- MODULE Jobs_proofs -----------------------------
(***************************************************************************)
(* For any number of triggers and failures: the latch is held by exactly   *)
(* one run in flight, a run removes no container but its own, the engine   *)
(* implements JobContract, and ring, log and snapshot tell the truth.      *)
(***************************************************************************)
EXTENDS Jobs, TLAPS, SequenceTheorems, WellFoundedInduction

\* The points at which a run has a container.
Inside == {"boot", "exec", "flush"}

TaskOK ==
  /\ tick \in Stamps \cup {None}
  /\ latch \in BOOLEAN
  /\ task \in [Runs -> Task]

\* The latch and the runs in flight tell of each other.
Latched ==
  /\ latch => InFlight # {}
  /\ \A r \in Runs : task[r].pc \in Launching => latch
  /\ \A r, u \in Runs : task[r].pc \in Launching /\ task[u].pc \in Launching => r = u

\* What a run believes to have acquired carries its name.
Owned ==
  \A r \in Runs :
    \/ task[r].pc \in Inside
    \/ task[r].pc = "destroy" /\ task[r].acquired
    => cont = r

JobInv == TaskOK /\ Latched /\ Owned

LEMMA FreshOK == Fresh \in Task /\ Fresh.pc = "idle"
  <1>1. 0 \in Stamps  BY JobsAssumption DEF Stamps
  <1> QED  BY <1>1 DEF Fresh, Task, Pcs

LEMMA InitOK == Init => JobInv
  BY FreshOK DEF Init, JobInv, TaskOK, Latched, Owned, InFlight, Launching, Inside

\* One task moves on within its flight, or within what comes before and after
\* it; the latch stands.
LEMMA StepOK ==
  ASSUME JobInv, UNCHANGED <<tick, latch>>, NEW r \in Runs, NEW k \in Task,
         task' = [task EXCEPT ![r] = k],
         k.pc \in Launching <=> task[r].pc \in Launching,
         \/ task[r].pc \in Launching
         \/ UNCHANGED cont,
         k.pc \in Inside \/ (k.pc = "destroy" /\ k.acquired) => cont' = r
  PROVE  JobInv'
  <1>1. task' \in [Runs -> Task] /\ task'[r] = k /\ \A u \in Runs \ {r} : task'[u] = task[u]
    BY DEF JobInv, TaskOK
  <1>2. InFlight' = InFlight
    BY <1>1 DEF InFlight
  <1>3. Latched'
    BY <1>1, <1>2 DEF JobInv, Latched
  <1>4. Inside \cup {"destroy"} \subseteq Launching
    BY DEF Inside, Launching
  <1>5. Owned'
    <2> SUFFICES ASSUME NEW u \in Runs, u # r,
                        \/ task[u].pc \in Inside
                        \/ task[u].pc = "destroy" /\ task[u].acquired
                 PROVE  cont' = u
      BY <1>1 DEF Owned
    <2>1. task[u].pc \in Launching  BY <1>4
    <2>2. task[r].pc \notin Launching  BY <2>1 DEF JobInv, Latched
    <2> QED  BY <2>2 DEF JobInv, Owned
  <1> QED  BY <1>1, <1>3, <1>5 DEF JobInv, TaskOK

LEMMA GotoOK ==
  ASSUME JobInv, UNCHANGED <<tick, latch, cont>>, NEW r \in Runs, NEW pc \in Pcs, Goto(r, pc),
         pc \in Launching <=> task[r].pc \in Launching,
         pc \in Inside => task[r].pc \in Inside,
         pc = "destroy" => task[r].pc \in Inside
  PROVE  JobInv'
  <1> DEFINE k == [task[r] EXCEPT !.pc = pc]
  <1>1. task[r] \in Task  BY DEF JobInv, TaskOK
  <1>2. k \in Task /\ k.pc = pc  BY <1>1 DEF Task
  <1>3. task' = [task EXCEPT ![r] = k]  BY DEF Goto, JobInv, TaskOK
  <1>4. k.pc \in Inside \/ (k.pc = "destroy" /\ k.acquired) => cont' = r
    BY <1>2 DEF JobInv, Owned
  <1> HIDE DEF k
  <1> QED  BY <1>2, <1>3, <1>4, StepOK

LEMMA ErrorsOK ==
  ASSUME JobInv, UNCHANGED <<tick, latch, cont>>, NEW r \in Runs, NEW acquired \in BOOLEAN,
         Errors(r, acquired), task[r].pc \in Launching,
         acquired => task[r].pc \in Inside
  PROVE  JobInv'
  <1> DEFINE k == [task[r] EXCEPT !.pc = "destroy", !.acquired = acquired, !.state = "error"]
  <1>1. task[r] \in Task  BY DEF JobInv, TaskOK
  <1>2. k \in Task /\ k.pc = "destroy" /\ k.acquired = acquired
    BY <1>1 DEF Task, Pcs, Launching, Verdicts
  <1>3. task' = [task EXCEPT ![r] = k]  BY DEF Errors, JobInv, TaskOK
  <1>4. acquired => cont' = r  BY DEF JobInv, Owned
  <1>5. "destroy" \in Launching /\ "destroy" \notin Inside  BY DEF Launching, Inside
  <1> HIDE DEF k
  <1> QED  BY <1>2, <1>3, <1>4, <1>5, StepOK

\* try_claim: nobody else is in flight when the latch is taken.
LEMMA ClaimOK ==
  ASSUME JobInv, NEW r \in Runs, task[r].pc \in {"idle", "checked"},
         NEW stamp \in Stamps, NEW cron \in BOOLEAN, Claim(r, stamp, cron),
         tick' \in Stamps \cup {None}, UNCHANGED cont
  PROVE  JobInv'
  <1>1. ASSUME NEW pc \in {"push", "skip"},
               task' = [task EXCEPT ![r] = [Fresh EXCEPT !.pc = pc, !.stamp = stamp, !.cron = cron]]
        PROVE  /\ task' \in [Runs -> Task] /\ task'[r].pc = pc
               /\ \A u \in Runs \ {r} : task'[u] = task[u]
               /\ Owned'
    <2> DEFINE k == [Fresh EXCEPT !.pc = pc, !.stamp = stamp, !.cron = cron]
    <2>1. k \in Task /\ k.pc = pc
      BY FreshOK DEF Task, Pcs, Launching, Refused
    <2> HIDE DEF k
    <2>2. /\ task' \in [Runs -> Task] /\ task'[r].pc = pc
          /\ \A u \in Runs \ {r} : task'[u] = task[u]
      BY <1>1, <2>1 DEF JobInv, TaskOK, k
    <2> QED  BY <2>2 DEF JobInv, Owned, Inside
  <1>2. task[r].pc \notin Launching  BY DEF Launching
  <1>3. CASE ~latch /\ latch'
    <2>1. task' = [task EXCEPT ![r] = [Fresh EXCEPT !.pc = "push", !.stamp = stamp, !.cron = cron]]
      BY <1>3 DEF Claim
    <2>2. /\ task' \in [Runs -> Task] /\ task'[r].pc = "push"
          /\ \A u \in Runs \ {r} : task'[u] = task[u]
          /\ Owned'
      BY <1>1, <2>1
    <2>3. \A u \in Runs : task'[u].pc \in Launching <=> u = r
      BY <1>3, <2>2 DEF JobInv, Latched, Launching
    <2>4. Latched'  BY <1>3, <2>3 DEF Latched, InFlight
    <2> QED  BY <1>3, <2>2, <2>4 DEF JobInv, TaskOK
  <1>4. CASE latch /\ UNCHANGED latch
    <2>1. task' = [task EXCEPT ![r] = [Fresh EXCEPT !.pc = "skip", !.stamp = stamp, !.cron = cron]]
      BY <1>4 DEF Claim
    <2>2. /\ task' \in [Runs -> Task] /\ task'[r].pc = "skip"
          /\ \A u \in Runs \ {r} : task'[u] = task[u]
          /\ Owned'
      BY <1>1, <2>1
    <2>3. \A u \in Runs : task'[u].pc \in Launching <=> task[u].pc \in Launching
      BY <1>2, <2>2 DEF Launching
    <2>4. Latched'  BY <1>4, <2>3 DEF JobInv, Latched, InFlight
    <2> QED  BY <1>4, <2>2, <2>4 DEF JobInv, TaskOK
  <1>5. latch' \in BOOLEAN /\ ((~latch /\ latch') \/ (latch /\ UNCHANGED latch))
    BY DEF Claim, JobInv, TaskOK
  <1> QED  BY <1>3, <1>4, <1>5

LEMMA TriggerOK ==
  ASSUME JobInv, NEW r \in Runs, TickFires(r) \/ ManualCheck(r) \/ ManualTrigger(r)
  PROVE  JobInv'
  <1>1. CASE TickFires(r)
    BY <1>1, ClaimOK DEF TickFires, JobInv, TaskOK
  <1>2. CASE ManualCheck(r)
    BY <1>2, GotoOK DEF ManualCheck, Pcs, Launching, Inside
  <1>3. CASE ManualTrigger(r)
    BY <1>3, ClaimOK DEF ManualTrigger, Now, JobInv, TaskOK
  <1> QED  BY <1>1, <1>2, <1>3

LEMMA LaunchOK ==
  ASSUME JobInv, NEW r \in Runs,
         PushSkip(r) \/ PushRunning(r) \/ Launch(r) \/ Prepare(r) \/ Create(r)
  PROVE  JobInv'
  <1>1. CASE PushSkip(r)
    BY <1>1, GotoOK DEF PushSkip, Pcs, Refused, Launching, Inside
  <1>2. CASE PushRunning(r)
    BY <1>2, GotoOK DEF PushRunning, Pcs, Launching, Inside
  <1>3. CASE Launch(r)
    BY <1>3, GotoOK DEF Launch, Pcs, Launching, Inside
  <1>4. ASSUME Errors(r, FALSE), UNCHANGED <<tick, latch, cont>>,
               task[r].pc \in {"prepare", "create"}
        PROVE  JobInv'
    BY <1>4, ErrorsOK DEF Launching
  <1>5. CASE Prepare(r)
    <2>1. CASE Goto(r, "create")
      BY <1>5, <2>1, GotoOK DEF Prepare, Pcs, Launching, Inside
    <2> QED  BY <1>4, <1>5, <2>1 DEF Prepare
  <1>6. CASE Create(r)
    <2>1. CASE cont' = r /\ task' = [task EXCEPT ![r].pc = "boot", ![r].acquired = TRUE]
      <3> DEFINE k == [task[r] EXCEPT !.pc = "boot", !.acquired = TRUE]
      <3>1. task[r] \in Task  BY DEF JobInv, TaskOK
      <3>2. k \in Task /\ k.pc = "boot"  BY <3>1 DEF Task, Pcs, Launching
      <3>3. task' = [task EXCEPT ![r] = k]  BY <2>1 DEF JobInv, TaskOK
      <3>4. k.pc \in Launching /\ task[r].pc \in Launching
        BY <1>6, <3>2 DEF Create, Launching
      <3> HIDE DEF k
      <3> QED  BY <1>6, <2>1, <3>2, <3>3, <3>4, StepOK DEF Create
    <2> QED  BY <1>4, <1>6, <2>1 DEF Create
  <1> QED  BY <1>1, <1>2, <1>3, <1>5, <1>6

LEMMA InsideOK ==
  ASSUME JobInv, NEW r \in Runs, Boot(r) \/ Exec(r) \/ Flush(r)
  PROVE  JobInv'
  <1>1. task[r].pc \in Inside /\ task[r].pc \in Launching
        /\ UNCHANGED <<tick, latch, cont>>
    BY DEF Boot, Exec, Flush, Inside, Launching
  <1>2. CASE Errors(r, TRUE)
    BY <1>1, <1>2, ErrorsOK
  <1>3. ASSUME NEW pc \in {"exec", "destroy"}, Goto(r, pc)  PROVE JobInv'
    BY <1>1, <1>3, GotoOK DEF Pcs, Launching
  <1>4. ASSUME NEW k \in Task, k.pc \in {"flush", "destroy"}, task' = [task EXCEPT ![r] = k]
        PROVE  JobInv'
    <2>1. k.pc \in Launching  BY <1>4 DEF Launching
    <2>2. cont' = r  BY <1>1 DEF JobInv, Owned
    <2> QED  BY <1>1, <1>4, <2>1, <2>2, StepOK
  <1>5. task[r] \in Task  BY DEF JobInv, TaskOK
  <1>6. CASE Boot(r)
    BY <1>2, <1>3, <1>6 DEF Boot
  <1>7. CASE Exec(r)
    <2>1. ASSUME NEW how \in {"succeeded", "failed"},
                 task' = [task EXCEPT ![r].pc = "flush", ![r].state = how]
          PROVE  JobInv'
      <3> DEFINE k == [task[r] EXCEPT !.pc = "flush", !.state = how]
      <3>1. k \in Task /\ k.pc = "flush"  BY <1>5 DEF Task, Pcs, Launching, Verdicts
      <3>2. task' = [task EXCEPT ![r] = k]  BY <2>1 DEF JobInv, TaskOK
      <3> HIDE DEF k
      <3> QED  BY <1>4, <3>1, <3>2
    <2> QED  BY <1>2, <1>7, <2>1 DEF Exec
  <1>8. CASE Flush(r)
    <2>1. CASE task' = [task EXCEPT ![r].pc = "destroy", ![r].missing = TRUE]
      <3> DEFINE k == [task[r] EXCEPT !.pc = "destroy", !.missing = TRUE]
      <3>1. k \in Task /\ k.pc = "destroy"  BY <1>5 DEF Task, Pcs, Launching
      <3>2. task' = [task EXCEPT ![r] = k]  BY <2>1 DEF JobInv, TaskOK
      <3> HIDE DEF k
      <3> QED  BY <1>4, <3>1, <3>2
    <2> QED  BY <1>3, <1>8, <2>1 DEF Flush
  <1> QED  BY <1>6, <1>7, <1>8

LEMMA EndOK ==
  ASSUME JobInv, NEW r \in Runs, Destroy(r) \/ Settle(r) \/ ReleaseLatch(r) \/ LogEvent(r)
  PROVE  JobInv'
  <1>0. task[r] \in Task  BY DEF JobInv, TaskOK
  <1>1. CASE Destroy(r)
    <2> DEFINE k == [task[r] EXCEPT !.pc = "settle"]
    <2>1. k \in Task /\ k.pc = "settle"  BY <1>0 DEF Task, Pcs, Launching
    <2>2. task' = [task EXCEPT ![r] = k]  BY <1>1 DEF Destroy, Goto, JobInv, TaskOK
    <2>3. k.pc \in Launching /\ task[r].pc \in Launching /\ k.pc \notin Inside
      BY <1>1, <2>1 DEF Destroy, Launching, Inside
    <2> HIDE DEF k
    <2> QED  BY <1>1, <2>1, <2>2, <2>3, StepOK DEF Destroy
  <1>2. CASE Settle(r)
    BY <1>2, GotoOK DEF Settle, Pcs, Launching, Inside
  <1>3. CASE ReleaseLatch(r)
    <2>1. task' \in [Runs -> Task] /\ task'[r].pc = "log"
          /\ \A u \in Runs \ {r} : task'[u] = task[u]
      BY <1>0, <1>3 DEF ReleaseLatch, Goto, JobInv, TaskOK, Task, Pcs
    <2>2. task[r].pc \in Launching  BY <1>3 DEF ReleaseLatch, Launching
    <2>3. \A u \in Runs : task'[u].pc \notin Launching
      BY <2>1, <2>2 DEF JobInv, Latched, Launching
    <2>4. Latched' /\ Owned'
      BY <1>3, <2>3 DEF ReleaseLatch, Latched, Owned, Inside, Launching
    <2> QED  BY <1>3, <2>1, <2>4 DEF ReleaseLatch, JobInv, TaskOK
  <1>4. CASE LogEvent(r)
    <2> DEFINE k == Finished(task[r])
    <2>1. k \in Task /\ k.pc = "done"
      BY <1>0, FreshOK DEF Finished, Task, Pcs
    <2>2. task' = [task EXCEPT ![r] = k]  BY <1>4 DEF LogEvent, JobInv, TaskOK
    <2>3. k.pc \notin Launching /\ task[r].pc \notin Launching
      BY <1>4, <2>1 DEF LogEvent, Launching
    <2>4. k.pc # "destroy" /\ k.pc \notin Inside  BY <2>1 DEF Inside
    <2> HIDE DEF k
    <2> QED  BY <1>4, <2>1, <2>2, <2>3, <2>4, StepOK DEF LogEvent
  <1> QED  BY <1>1, <1>2, <1>3, <1>4

LEMMA CrashOK ==
  ASSUME JobInv, Crash
  PROVE  JobInv'
  <1>1. \A r \in Runs : Finished(task[r]) \in Task /\ Finished(task[r]).pc = "done"
    BY FreshOK DEF Finished, Task, Pcs, JobInv, TaskOK
  <1>2. task' \in [Runs -> Task] /\ \A r \in Runs : task'[r].pc \in {"idle", "done"}
    BY <1>1, FreshOK DEF Crash
  <1>3. latch' = FALSE /\ tick' = None /\ UNCHANGED cont  BY DEF Crash
  <1>4. Latched' /\ Owned'
    BY <1>2, <1>3 DEF Latched, Owned, Inside, Launching
  <1> QED  BY <1>2, <1>3, <1>4 DEF JobInv, TaskOK

LEMMA NextOK == JobInv /\ [Next]_vars => JobInv'
  <1> SUFFICES ASSUME JobInv, [Next]_vars  PROVE JobInv'
    OBVIOUS
  <1>1. ASSUME UNCHANGED <<latch, task, cont>>, tick' \in Stamps \cup {None}
        PROVE  JobInv'
    BY <1>1 DEF JobInv, TaskOK, Latched, Owned, InFlight
  <1>2. CASE TickBegin \/ TickEnds \/ OthersPersist \/ Rest \/ UNCHANGED vars
    BY <1>1, <1>2 DEF TickBegin, TickEnds, OthersPersist, Rest, vars, Now, JobInv, TaskOK
  <1>3. CASE \E r \in Runs : TickFires(r) \/ ManualCheck(r) \/ ManualTrigger(r) \/ Running(r)
    BY <1>3, TriggerOK, LaunchOK, InsideOK, EndOK DEF Running
  <1>4. CASE Crash
    BY <1>4, CrashOK
  <1> QED  BY <1>2, <1>3, <1>4 DEF Next

LEMMA Invariance == Spec => []JobInv
  BY InitOK, NextOK, PTL DEF Spec

\* The latch of a job is always held by a run that will give it back.
THEOREM LatchHeld == Spec => []LatchIsHeld
  <1>1. JobInv => LatchIsHeld  BY DEF JobInv, Latched, LatchIsHeld
  <1> QED  BY <1>1, Invariance, PTL

\* Runs of a job never overlap.
THEOREM RunsNeverOverlap ==
  Spec => [](\A r, u \in Runs : r \in InFlight /\ u \in InFlight => r = u)
  <1>1. JobInv => \A r, u \in Runs : r \in InFlight /\ u \in InFlight => r = u
    BY DEF JobInv, Latched, InFlight
  <1> QED  BY <1>1, Invariance, PTL

\* No run removes a container that another one created.
THEOREM OwnContainerOnly == Spec => IncumbentUntouched
  <1> DEFINE Step == cont # None /\ cont' = None => task[cont].pc = "destroy"
  <1>1. ASSUME JobInv, [Next]_vars  PROVE Step
    <2> SUFFICES ASSUME cont # None, cont' = None  PROVE task[cont].pc = "destroy"
      OBVIOUS
    <2>1. PICK r \in Runs : Create(r) \/ Destroy(r)
      BY <1>1
      DEF Next, vars, TickBegin, TickEnds, TickFires, ManualCheck, ManualTrigger, Running,
          PushSkip, PushRunning, Launch, Prepare, Boot, Exec, Flush, Settle, ReleaseLatch,
          LogEvent, OthersPersist, Crash, Rest
    <2>2. CASE Create(r)
      BY <2>2, JobsAssumption DEF Create
    <2>3. CASE Destroy(r)
      BY <1>1, <2>3 DEF Destroy, JobInv, Owned
    <2> QED  BY <2>1, <2>2, <2>3
  <1>2. JobInv /\ [Next]_vars => [Step]_vars
    BY <1>1
  <1> QED  BY <1>2, Invariance, PTL DEF Spec, IncumbentUntouched

-----------------------------------------------------------------------------
(* The engine implements JobContract: the initial states map to initial    *)
(* states, and each step to a step of the contract or a stutter.           *)

\* A run that has come to its verdict and still holds the latch.
Judged == {"destroy", "settle", "release"}

\* How a run ended is written once, and a verdict without a complaint means that
\* the output is on a branch.
HistOK ==
  /\ ended \in [Runs -> States \cup {"none"}]
  /\ remote \in [Stamps -> (SUBSET Runs) \cup {None}]
  /\ \A r \in Runs :
       /\ task[r].pc \in Launching \cup {"idle", "checked"} => ended[r] = "none"
       /\ task[r].pc \in {"exec", "flush"} => remote[task[r].stamp] # None
       /\ task[r].pc = "flush" => task[r].state \in Verdicts
       /\ task[r].pc \in Judged =>
            /\ task[r].state \in Verdicts
            /\ task[r].state = "error" \/ task[r].missing \/ r \in Published

FullInv == JobInv /\ HistOK

\* Branches gain output, and lose none.
Grown ==
  /\ remote' \in [Stamps -> (SUBSET Runs) \cup {None}]
  /\ \A b \in Stamps : remote[b] # None => remote'[b] # None
  /\ Published \subseteq Published'

\* What the invariant asks of one task in a new state.
TaskHist(r, k) ==
  /\ k.pc \in Launching \cup {"idle", "checked"} => ended'[r] = "none"
  /\ k.pc \in {"exec", "flush"} => remote'[k.stamp] # None
  /\ k.pc = "flush" => k.state \in Verdicts
  /\ k.pc \in Judged =>
       /\ k.state \in Verdicts
       /\ k.state = "error" \/ k.missing \/ r \in Published'

LEMMA SameBranches ==
  ASSUME HistOK, UNCHANGED remote
  PROVE  Grown /\ Published' = Published
  BY DEF HistOK, Grown, Published

LEMMA OneCurrent ==
  ASSUME JobInv, NEW r \in Runs, task[r].pc \in Launching
  PROVE  InFlight = {r} /\ Current = r /\ Current # None
  <1>1. InFlight = {r}  BY DEF InFlight, JobInv, Latched
  <1>2. Current = r  BY <1>1 DEF Current
  <1> QED  BY <1>1, <1>2, JobsAssumption

LEMMA NoCurrent ==
  ASSUME InFlight = {}
  PROVE  Current = None
  BY DEF Current

LEMMA HistStep ==
  ASSUME FullInv, Grown, NEW r \in Runs, NEW k, task' = [task EXCEPT ![r] = k],
         ended' \in [Runs -> States \cup {"none"}],
         \A u \in Runs \ {r} : ended'[u] = ended[u],
         TaskHist(r, k)
  PROVE  HistOK'
  <1>1. task'[r] = k /\ \A u \in Runs \ {r} : task'[u] = task[u] /\ task[u] \in Task
    BY DEF FullInv, JobInv, TaskOK
  <1>2. \A u \in Runs \ {r} : TaskHist(u, task'[u])
    BY <1>1 DEF FullInv, HistOK, TaskHist, Grown, Task
  <1>3. \A u \in Runs : TaskHist(u, task'[u])  BY <1>1, <1>2
  <1> QED  BY <1>3 DEF HistOK, TaskHist, Grown

\* A step within a flight, or off it, that ends nothing and publishes nothing.
LEMMA Stutter ==
  ASSUME FullInv, Published' = Published, UNCHANGED ended,
         NEW r \in Runs, NEW k, task' = [task EXCEPT ![r] = k],
         k.pc \in Launching <=> task[r].pc \in Launching,
         k.missing = task[r].missing \/ ended[r] \notin Verdicts
  PROVE  UNCHANGED Contract!vars
  <1>1. task'[r] = k /\ \A u \in Runs \ {r} : task'[u] = task[u]
    BY DEF FullInv, JobInv, TaskOK
  <1>2. InFlight' = InFlight  BY <1>1 DEF InFlight
  <1>3. Current' = Current  BY <1>2 DEF Current
  <1>4. Complained' = Complained  BY <1>1 DEF Complained
  <1> QED  BY <1>3, <1>4 DEF Contract!vars

LEMMA Quiet ==
  ASSUME FullInv, Grown, Published' = Published, UNCHANGED ended,
         NEW r \in Runs, NEW k, task' = [task EXCEPT ![r] = k],
         k.pc \in Launching <=> task[r].pc \in Launching,
         k.missing = task[r].missing \/ ended[r] \notin Verdicts,
         TaskHist(r, k)
  PROVE  HistOK' /\ UNCHANGED Contract!vars
  <1>1. HistOK'  BY HistStep DEF FullInv, HistOK
  <1> QED  BY <1>1, Stutter

LEMMA GotoQuiet ==
  ASSUME FullInv, UNCHANGED <<remote, ended>>, NEW r \in Runs, NEW pc \in Pcs, Goto(r, pc),
         pc \in Launching <=> task[r].pc \in Launching,
         pc \in {"idle", "checked"} => task[r].pc \in {"idle", "checked"},
         pc \in {"exec", "flush"} \cup Judged => task[r].pc = pc \/ task[r].pc \in Judged,
         pc \in {"exec", "flush"} => task[r].pc = pc
  PROVE  HistOK' /\ UNCHANGED Contract!vars
  <1> DEFINE k == [task[r] EXCEPT !.pc = pc]
  <1>1. task[r] \in Task  BY DEF FullInv, JobInv, TaskOK
  <1>2. k.pc = pc /\ k.state = task[r].state /\ k.missing = task[r].missing
        /\ k.stamp = task[r].stamp
    BY <1>1 DEF Task
  <1>3. task' = [task EXCEPT ![r] = k]  BY DEF Goto, FullInv, JobInv, TaskOK
  <1>4. Grown /\ Published' = Published  BY SameBranches DEF FullInv
  <1>5. TaskHist(r, k)
    BY <1>2, <1>4 DEF TaskHist, FullInv, HistOK, Judged
  <1> HIDE DEF k
  <1> QED  BY <1>2, <1>3, <1>4, <1>5, Quiet

LEMMA ErrorsQuiet ==
  ASSUME FullInv, Grown, Published' = Published, UNCHANGED ended,
         NEW r \in Runs, NEW acquired \in BOOLEAN,
         Errors(r, acquired), task[r].pc \in Launching
  PROVE  HistOK' /\ UNCHANGED Contract!vars
  <1> DEFINE k == [task[r] EXCEPT !.pc = "destroy", !.acquired = acquired, !.state = "error"]
  <1>1. task[r] \in Task  BY DEF FullInv, JobInv, TaskOK
  <1>2. k.pc = "destroy" /\ k.state = "error" /\ k.missing = task[r].missing
    BY <1>1 DEF Task
  <1>3. task' = [task EXCEPT ![r] = k]  BY DEF Errors, FullInv, JobInv, TaskOK
  <1>4. TaskHist(r, k)
    BY <1>2 DEF TaskHist, FullInv, HistOK, Judged, Verdicts
  <1>5. k.pc \in Launching  BY <1>2 DEF Launching
  <1> HIDE DEF k
  <1> QED  BY <1>2, <1>3, <1>4, <1>5, Quiet

-----------------------------------------------------------------------------
(* Steps of the contract *)

\* A trigger that finds the latch free begins a run.
LEMMA ClaimBegins ==
  ASSUME FullInv, NEW r \in Runs, task[r].pc \in {"idle", "checked"},
         UNCHANGED <<remote, ended>>, ~latch,
         NEW k, task' = [task EXCEPT ![r] = k], k.pc = "push", k.missing = FALSE
  PROVE  HistOK' /\ Contract!Begin(r)
  <1>1. task'[r] = k /\ \A u \in Runs \ {r} : task'[u] = task[u]
    BY DEF FullInv, JobInv, TaskOK
  <1>2. InFlight = {} /\ InFlight' = {r}
    BY <1>1 DEF FullInv, JobInv, Latched, InFlight, Launching
  <1>3. Current = None /\ Current' = r
    BY <1>2 DEF Current
  <1>4. Grown /\ Published' = Published  BY SameBranches DEF FullInv
  <1>5. ended[r] = "none"  BY DEF FullInv, HistOK
  <1>6. HistOK'
    BY <1>4, <1>5, HistStep DEF FullInv, HistOK, TaskHist, Judged
  <1>7. Complained' = Complained
    BY <1>1, <1>5 DEF Complained, Verdicts
  <1> QED  BY <1>3, <1>4, <1>5, <1>6, <1>7 DEF Contract!Begin

\* One that finds it held is skipped.
LEMMA ClaimSkips ==
  ASSUME FullInv, NEW r \in Runs, task[r].pc \in {"idle", "checked"},
         UNCHANGED remote, latch, ended' = [ended EXCEPT ![r] = "skipped_locked"],
         NEW k, task' = [task EXCEPT ![r] = k], k.pc = "skip", k.missing = FALSE
  PROVE  HistOK' /\ Contract!Skip(r)
  <1>1. task'[r] = k /\ \A u \in Runs \ {r} : task'[u] = task[u]
    BY DEF FullInv, JobInv, TaskOK
  <1>2. InFlight' = InFlight /\ InFlight # {} /\ r \notin InFlight
    BY <1>1 DEF FullInv, JobInv, Latched, InFlight, Launching
  <1>3. Current' = Current /\ Current \in InFlight
    BY <1>2 DEF Current
  <1>4. Current # None /\ r # Current
    BY <1>2, <1>3, JobsAssumption DEF InFlight
  <1>5. Grown /\ Published' = Published  BY SameBranches DEF FullInv
  <1>6. ended[r] = "none" /\ ended'[r] = "skipped_locked"
        /\ (\A u \in Runs \ {r} : ended'[u] = ended[u])
        /\ ended' \in [Runs -> States \cup {"none"}]
    BY DEF FullInv, HistOK, States
  <1>7. HistOK'
    <2>1. TaskHist(r, k)  BY DEF TaskHist, Judged, Launching
    <2>2. Grown /\ ended' \in [Runs -> States \cup {"none"}]  BY <1>5, <1>6
    <2>3. \A u \in Runs \ {r} : ended'[u] = ended[u]  BY <1>6
    <2> QED  BY <2>1, <2>2, <2>3, HistStep, Zenon
  <1>8. Complained' = Complained
    BY <1>1, <1>6 DEF Complained, Verdicts
  <1> QED  BY <1>3, <1>4, <1>5, <1>6, <1>7, <1>8 DEF Contract!Skip

Moved == HistOK' /\ [Contract!Next]_Contract!vars

LEMMA ClaimMoves ==
  ASSUME FullInv, NEW r \in Runs, task[r].pc \in {"idle", "checked"},
         UNCHANGED remote, NEW stamp, NEW cron, Claim(r, stamp, cron)
  PROVE  Moved
  <1>1. ASSUME NEW pc \in {"push", "skip"}
        PROVE  /\ [Fresh EXCEPT !.pc = pc, !.stamp = stamp, !.cron = cron].pc = pc
               /\ [Fresh EXCEPT !.pc = pc, !.stamp = stamp, !.cron = cron].missing = FALSE
    BY DEF Fresh
  <1>2. ASSUME ~latch, UNCHANGED ended, NEW k, k.pc = "push", k.missing = FALSE,
               task' = [task EXCEPT ![r] = k]
        PROVE  Moved
    BY <1>2, ClaimBegins DEF Moved, Contract!Next
  <1>3. ASSUME latch, ended' = [ended EXCEPT ![r] = "skipped_locked"],
               NEW k, k.pc = "skip", k.missing = FALSE,
               task' = [task EXCEPT ![r] = k]
        PROVE  Moved
    BY <1>3, ClaimSkips DEF Moved, Contract!Next
  <1> QED  BY <1>1, <1>2, <1>3 DEF Claim

LEMMA TriggerMoves ==
  ASSUME FullInv, NEW r \in Runs, TickFires(r) \/ ManualCheck(r) \/ ManualTrigger(r)
  PROVE  Moved
  <1>1. CASE TickFires(r)
    BY <1>1, ClaimMoves DEF TickFires
  <1>2. CASE ManualCheck(r)
    BY <1>2, GotoQuiet DEF ManualCheck, Pcs, Launching, Judged, Moved
  <1>3. CASE ManualTrigger(r)
    BY <1>3, ClaimMoves DEF ManualTrigger
  <1> QED  BY <1>1, <1>2, <1>3

LEMMA LaunchMoves ==
  ASSUME FullInv, NEW r \in Runs,
         PushSkip(r) \/ PushRunning(r) \/ Launch(r) \/ Prepare(r) \/ Create(r)
  PROVE  Moved
  <1>1. CASE PushSkip(r)
    BY <1>1, GotoQuiet DEF PushSkip, Pcs, Refused, Launching, Judged, Moved
  <1>2. CASE PushRunning(r)
    BY <1>2, GotoQuiet DEF PushRunning, Pcs, Launching, Judged, Moved
  <1>3. CASE Launch(r)
    BY <1>3, GotoQuiet DEF Launch, Pcs, Launching, Judged, Moved
  <1>4. ASSUME Errors(r, FALSE), UNCHANGED <<remote, ended>>,
               task[r].pc \in {"prepare", "create"}
        PROVE  Moved
    BY <1>4, ErrorsQuiet, SameBranches DEF FullInv, Launching, Moved
  <1>5. CASE Prepare(r)
    <2>1. CASE Goto(r, "create")
      BY <1>5, <2>1, GotoQuiet DEF Prepare, Pcs, Launching, Judged, Moved
    <2> QED  BY <1>4, <1>5, <2>1 DEF Prepare
  <1>6. CASE Create(r)
    <2>1. CASE task' = [task EXCEPT ![r].pc = "boot", ![r].acquired = TRUE]
      <3> DEFINE k == [task[r] EXCEPT !.pc = "boot", !.acquired = TRUE]
      <3>1. task[r] \in Task  BY DEF FullInv, JobInv, TaskOK
      <3>2. k.pc = "boot" /\ k.missing = task[r].missing  BY <3>1 DEF Task
      <3>3. task' = [task EXCEPT ![r] = k]  BY <2>1 DEF FullInv, JobInv, TaskOK
      <3>4. k.pc \in Launching /\ task[r].pc \in Launching
        BY <1>6, <3>2 DEF Create, Launching
      <3>5. UNCHANGED <<remote, ended>>  BY <1>6 DEF Create
      <3>6. Grown /\ Published' = Published  BY <3>5, SameBranches DEF FullInv
      <3>7. TaskHist(r, k)
        BY <3>2, <3>4, <3>5 DEF TaskHist, FullInv, HistOK, Judged
      <3> HIDE DEF k
      <3> QED  BY <3>2, <3>3, <3>4, <3>5, <3>6, <3>7, Quiet DEF Moved
    <2> QED  BY <1>4, <1>6, <2>1 DEF Create
  <1> QED  BY <1>1, <1>2, <1>3, <1>5, <1>6

LEMMA InsideMoves ==
  ASSUME FullInv, NEW r \in Runs, Boot(r) \/ Exec(r)
  PROVE  Moved
  <1>1. task[r].pc \in Launching /\ UNCHANGED ended /\ task[r] \in Task
    BY DEF Boot, Exec, Launching, FullInv, JobInv, TaskOK
  <1>2. ASSUME Errors(r, TRUE), Grown, Published' = Published  PROVE Moved
    BY <1>1, <1>2, ErrorsQuiet DEF Moved
  <1>3. CASE Boot(r)
    <2> DEFINE b == task[r].stamp
    <2>1. b \in Stamps  BY <1>1 DEF Task
    <2>2. ASSUME remote[b] \in {None, {}}, remote' = [remote EXCEPT ![b] = {}]
          PROVE  Grown /\ Published' = Published /\ remote'[b] # None
      <3>1. {} \in SUBSET Runs /\ {} # None  BY NoneIsNoBranch
      <3>2. remote' \in [Stamps -> (SUBSET Runs) \cup {None}] /\ remote'[b] = {}
            /\ \A c \in Stamps \ {b} : remote'[c] = remote[c]
        BY <2>1, <2>2, <3>1 DEF FullInv, HistOK
      <3>3. Published' = Published
        BY <2>2, <3>1, <3>2 DEF Published
      <3> QED  BY <3>1, <3>2, <3>3 DEF Grown
    <2>3. CASE remote[b] \in {None, {}} /\ remote' = [remote EXCEPT ![b] = {}] /\ Goto(r, "exec")
      <3> DEFINE k == [task[r] EXCEPT !.pc = "exec"]
      <3>1. k.pc = "exec" /\ k.missing = task[r].missing /\ k.stamp = b
        BY <1>1 DEF Task
      <3>2. task' = [task EXCEPT ![r] = k]
        BY <2>3 DEF Goto, FullInv, JobInv, TaskOK
      <3>3. k.pc \in Launching  BY <3>1 DEF Launching
      <3>4. TaskHist(r, k)
        BY <1>1, <2>2, <2>3, <3>1 DEF TaskHist, FullInv, HistOK, Judged
      <3> HIDE DEF k
      <3> QED  BY <1>1, <2>2, <2>3, <3>1, <3>2, <3>3, <3>4, Quiet DEF Moved
    <2>4. ASSUME remote' = [remote EXCEPT ![b] = IF @ = None THEN {} ELSE @]
          PROVE  Grown /\ Published' = Published
      <3>1. CASE remote[b] = None
        BY <2>2, <2>4, <3>1
      <3>2. CASE remote[b] # None
        <4>1. remote' = remote  BY <2>1, <2>4, <3>2 DEF FullInv, HistOK
        <4> QED  BY <4>1, SameBranches DEF FullInv
      <3> QED  BY <3>1, <3>2
    <2>5. CASE Errors(r, TRUE)
      <3>1. CASE UNCHANGED remote
        BY <1>2, <2>5, <3>1, SameBranches DEF FullInv
      <3>2. CASE remote' = [remote EXCEPT ![b] = IF @ = None THEN {} ELSE @]
        BY <1>2, <2>4, <2>5, <3>2
      <3>3. CASE remote[b] \in {None, {}} /\ remote' = [remote EXCEPT ![b] = {}]
        BY <1>2, <2>2, <2>5, <3>3
      <3> QED  BY <1>3, <3>1, <3>2, <3>3 DEF Boot
    <2> QED  BY <1>3, <2>3, <2>5 DEF Boot
  <1>4. CASE Exec(r)
    <2>1. Grown /\ Published' = Published  BY <1>4, SameBranches DEF Exec, FullInv
    <2>2. ASSUME NEW how \in {"succeeded", "failed"},
                 task' = [task EXCEPT ![r].pc = "flush", ![r].state = how]
          PROVE  Moved
      <3> DEFINE k == [task[r] EXCEPT !.pc = "flush", !.state = how]
      <3>1. k.pc = "flush" /\ k.missing = task[r].missing /\ k.stamp = task[r].stamp
            /\ k.state \in Verdicts
        BY <1>1 DEF Task, Verdicts
      <3>2. task' = [task EXCEPT ![r] = k]  BY <2>2 DEF FullInv, JobInv, TaskOK
      <3>3. k.pc \in Launching  BY <3>1 DEF Launching
      <3>4. TaskHist(r, k)
        BY <1>1, <1>4, <3>1 DEF TaskHist, FullInv, HistOK, Judged, Exec
      <3> HIDE DEF k
      <3> QED  BY <1>1, <2>1, <3>1, <3>2, <3>3, <3>4, Quiet DEF Moved
    <2> QED  BY <1>2, <1>4, <2>1, <2>2 DEF Exec
  <1> QED  BY <1>3, <1>4

\* The flush publishes the output, complains, or does both.
LEMMA FlushMoves ==
  ASSUME FullInv, NEW r \in Runs, Flush(r)
  PROVE  Moved
  <1> DEFINE b == task[r].stamp
             pushed == [remote EXCEPT ![b] = @ \cup {r}]
  <1>1. task[r].pc = "flush" /\ task[r].pc \in Launching /\ UNCHANGED ended
        /\ task[r] \in Task /\ b \in Stamps /\ ended[r] = "none"
    BY DEF Flush, Launching, FullInv, JobInv, TaskOK, HistOK, Task
  <1>2. remote[b] \in SUBSET Runs /\ remote[b] # None
    BY <1>1 DEF FullInv, HistOK
  <1>3. ASSUME remote' = pushed
        PROVE  Grown /\ Published' = Published \cup {r}
    <2>1. remote[b] \cup {r} \in SUBSET Runs /\ remote[b] \cup {r} # None
      BY <1>2, NoneIsNoBranch
    <2>2. remote' \in [Stamps -> (SUBSET Runs) \cup {None}] /\ remote'[b] = remote[b] \cup {r}
          /\ \A c \in Stamps \ {b} : remote'[c] = remote[c]
      BY <1>1, <1>3, <2>1 DEF FullInv, HistOK
    <2>3. Published' = Published \cup {r}
      BY <1>1, <1>2, <2>1, <2>2 DEF Published
    <2> QED  BY <2>1, <2>2, <2>3 DEF Grown
  <1>4. PICK k : /\ task' = [task EXCEPT ![r] = k]
                 /\ k.pc = "destroy" /\ k.state = task[r].state
                 /\ k.missing \/ remote' = pushed
    <2>1. CASE Goto(r, "destroy") /\ remote' = pushed
      <3> DEFINE k == [task[r] EXCEPT !.pc = "destroy"]
      <3>1. k.pc = "destroy" /\ k.state = task[r].state  BY <1>1 DEF Task
      <3>2. task' = [task EXCEPT ![r] = k]  BY <2>1 DEF Goto, FullInv, JobInv, TaskOK
      <3> HIDE DEF k
      <3> QED  BY <2>1, <3>1, <3>2
    <2>2. CASE task' = [task EXCEPT ![r].pc = "destroy", ![r].missing = TRUE]
      <3> DEFINE k == [task[r] EXCEPT !.pc = "destroy", !.missing = TRUE]
      <3>1. k.pc = "destroy" /\ k.state = task[r].state /\ k.missing  BY <1>1 DEF Task
      <3>2. task' = [task EXCEPT ![r] = k]  BY <2>2 DEF FullInv, JobInv, TaskOK
      <3> HIDE DEF k
      <3> QED  BY <3>1, <3>2
    <2> QED  BY <2>1, <2>2 DEF Flush
  <1>5. k.pc \in Launching  BY <1>4 DEF Launching
  <1>6. remote' = remote \/ remote' = pushed  BY DEF Flush
  <1>7. Grown /\ (Published' = Published \/ Published' = Published \cup {r})
    BY <1>3, <1>6, SameBranches DEF FullInv
  <1>8. TaskHist(r, k)
    <2>1. k.missing \/ r \in Published'  BY <1>3, <1>4
    <2> QED  BY <1>1, <1>4, <2>1 DEF TaskHist, FullInv, HistOK, Judged
  <1>9. HistOK'
    BY <1>1, <1>4, <1>7, <1>8, HistStep DEF FullInv, HistOK
  <1>10. CASE Published' = Published
    BY <1>1, <1>4, <1>5, <1>9, <1>10, Stutter DEF Moved, Verdicts
  <1>11. CASE Published' = Published \cup {r}
    <2>1. task'[r] = k /\ \A u \in Runs \ {r} : task'[u] = task[u]
      BY <1>4 DEF FullInv, JobInv, TaskOK
    <2>2. InFlight' = InFlight  BY <1>1, <1>5, <2>1 DEF InFlight
    <2>3. Current' = Current /\ Current = r /\ Current # None
      BY <1>1, <2>2, OneCurrent DEF FullInv, Current
    <2>4. Complained' = Complained
      BY <1>1, <2>1 DEF Complained, Verdicts
    <2>5. Contract!Publish
      BY <1>1, <1>11, <2>3, <2>4 DEF Contract!Publish
    <2> QED  BY <1>9, <2>5 DEF Moved, Contract!Next
  <1> QED  BY <1>7, <1>10, <1>11

LEMMA EndMoves ==
  ASSUME FullInv, NEW r \in Runs, Destroy(r) \/ Settle(r) \/ LogEvent(r)
  PROVE  Moved
  <1>1. UNCHANGED <<remote, ended>> /\ task[r] \in Task
    BY DEF Destroy, Settle, LogEvent, FullInv, JobInv, TaskOK
  <1>2. CASE Destroy(r)
    BY <1>1, <1>2, GotoQuiet DEF Destroy, Pcs, Launching, Judged, Moved
  <1>3. CASE Settle(r)
    BY <1>1, <1>3, GotoQuiet DEF Settle, Pcs, Launching, Judged, Moved
  <1>4. CASE LogEvent(r)
    <2> DEFINE k == Finished(task[r])
    <2>1. k.pc = "done" /\ k.missing = task[r].missing  BY DEF Finished, Fresh
    <2>2. task' = [task EXCEPT ![r] = k]  BY <1>4 DEF LogEvent, FullInv, JobInv, TaskOK
    <2>3. Grown /\ Published' = Published  BY <1>1, SameBranches DEF FullInv
    <2>4. k.pc \notin Launching /\ task[r].pc \notin Launching
      BY <1>4, <2>1 DEF LogEvent, Launching
    <2>5. TaskHist(r, k)  BY <2>1, <2>4 DEF TaskHist, Judged
    <2> HIDE DEF k
    <2> QED  BY <1>1, <2>1, <2>2, <2>3, <2>4, <2>5, Quiet DEF Moved
  <1> QED  BY <1>2, <1>3, <1>4

\* The latch is released: the run has ended the way it was judged.
LEMMA ReleaseEnds ==
  ASSUME FullInv, NEW r \in Runs, ReleaseLatch(r)
  PROVE  Moved
  <1> DEFINE k   == [task[r] EXCEPT !.pc = "log"]
             how == task[r].state
  <1>1. task[r] \in Task /\ task[r].pc = "release" /\ task[r].pc \in Launching
    BY DEF ReleaseLatch, Launching, FullInv, JobInv, TaskOK
  <1>2. how \in Verdicts /\ ended[r] = "none"
        /\ (how = "error" \/ task[r].missing \/ r \in Published)
    BY <1>1 DEF FullInv, HistOK, Judged
  <1>3. k.pc = "log" /\ k.missing = task[r].missing  BY <1>1 DEF Task
  <1>4. task'[r] = k /\ (\A u \in Runs \ {r} : task'[u] = task[u])
        /\ task' = [task EXCEPT ![r] = k]
    BY DEF ReleaseLatch, Goto, FullInv, JobInv, TaskOK
  <1> HIDE DEF k
  <1>5. ended' = [ended EXCEPT ![r] = how] /\ ended'[r] = how
        /\ ended' \in [Runs -> States \cup {"none"}]
    BY <1>2 DEF ReleaseLatch, FullInv, HistOK, States
  <1>6. \A u \in Runs \ {r} : ended'[u] = ended[u]
    BY <1>5 DEF FullInv, HistOK
  <1>7. Grown /\ Published' = Published
    BY SameBranches DEF ReleaseLatch, FullInv
  <1>8. TaskHist(r, k)  BY <1>3 DEF TaskHist, Launching, Judged
  <1>9. HistOK'  BY <1>4, <1>5, <1>6, <1>7, <1>8, HistStep, Zenon
  <1>10. InFlight' = {} /\ Current' = None
    <2>1. InFlight = {r} /\ k.pc \notin Launching
      BY <1>1, <1>3, OneCurrent DEF FullInv, Launching
    <2>2. InFlight' = {}  BY <1>4, <2>1 DEF InFlight
    <2> QED  BY <2>2 DEF Current
  <1>11. Current = r /\ Current # None  BY <1>1, OneCurrent DEF FullInv
  <1>12. Complained' = IF task[r].missing THEN Complained \cup {r} ELSE Complained
    BY <1>2, <1>3, <1>4, <1>5, <1>6 DEF Complained
  <1>13. Contract!End(how)
    BY <1>2, <1>5, <1>7, <1>10, <1>11, <1>12 DEF Contract!End
  <1>14. how \in Contract!Endings  BY <1>2 DEF Verdicts, Contract!Endings
  <1> QED  BY <1>9, <1>13, <1>14 DEF Moved, Contract!Next

LEMMA CrashMoves ==
  ASSUME FullInv, Crash
  PROVE  Moved
  <1>1. \A r \in Runs : /\ task'[r].pc \in {"idle", "done"}
                        /\ task[r].pc # "idle" => /\ task'[r].pc = "done"
                                                  /\ task'[r].missing = task[r].missing
                        /\ task'[r].pc = "idle" => task[r].pc = "idle"
    BY DEF Crash, Finished, Fresh
  <1>2. \A r \in Runs : /\ r \in InFlight => ended'[r] = "aborted"
                        /\ r \notin InFlight => ended'[r] = ended[r]
    BY DEF Crash, InFlight
  <1>3. ended' \in [Runs -> States \cup {"none"}]
    BY DEF Crash, FullInv, HistOK, States
  <1>4. Grown /\ Published' = Published  BY SameBranches DEF Crash, FullInv
  <1>5. \A r \in Runs : task'[r].pc = "idle" => ended'[r] = "none"
    BY <1>1, <1>2 DEF InFlight, FullInv, HistOK, Launching
  <1>6. HistOK'
    BY <1>1, <1>3, <1>4, <1>5 DEF HistOK, Grown, Launching, Judged
  <1>7. InFlight' = {} /\ Current' = None
    <2>1. InFlight' = {}  BY <1>1 DEF InFlight, Launching
    <2> QED  BY <2>1 DEF Current
  <1>8. Complained' = Complained
    <2>1. \A r \in Runs : r \in InFlight => ended[r] \notin Verdicts /\ ended'[r] \notin Verdicts
      BY <1>2 DEF InFlight, FullInv, HistOK, Verdicts
    <2>2. \A r \in Runs : task[r].pc = "idle" => ended[r] = "none" /\ ended'[r] = "none"
      BY <1>2 DEF InFlight, FullInv, HistOK, Launching
    <2> QED  BY <1>1, <1>2, <2>1, <2>2 DEF Complained, Verdicts
  <1>9. CASE InFlight = {}
    <2>1. ended' = ended  BY <1>2, <1>3, <1>9 DEF FullInv, HistOK
    <2>2. Current = None  BY <1>9 DEF Current
    <2> QED  BY <1>4, <1>6, <1>7, <1>8, <2>1, <2>2 DEF Moved, Contract!vars
  <1>10. ASSUME NEW r \in InFlight  PROVE Moved
    <2>1. r \in Runs /\ task[r].pc \in Launching  BY DEF InFlight
    <2>2. InFlight = {r} /\ Current = r /\ Current # None
      BY <2>1, OneCurrent DEF FullInv
    <2>3. ended' = [ended EXCEPT ![r] = "aborted"]
      BY <1>2, <1>3, <2>1, <2>2 DEF FullInv, HistOK
    <2>4. Contract!Abort
      BY <1>4, <1>7, <1>8, <2>2, <2>3 DEF Contract!Abort
    <2> QED  BY <1>6, <2>4 DEF Moved, Contract!Next
  <1> QED  BY <1>9, <1>10

LEMMA FullInit == Init => FullInv /\ Contract!Init
  <1> SUFFICES ASSUME Init  PROVE FullInv /\ Contract!Init
    OBVIOUS
  <1>1. \A r \in Runs : task[r].pc = "idle" /\ task[r].missing = FALSE
    BY DEF Init, Fresh
  <1>2. HistOK
    BY <1>1 DEF Init, HistOK, Launching, Judged
  <1>3. InFlight = {} /\ Current = None
    <2>1. InFlight = {}  BY <1>1 DEF InFlight, Launching
    <2> QED  BY <2>1 DEF Current
  <1>4. Published = {} /\ Complained = {}
    BY <1>1 DEF Init, Published, Complained
  <1> QED  BY <1>2, <1>3, <1>4, InitOK DEF FullInv, Init, Contract!Init

LEMMA FullNext == FullInv /\ [Next]_vars => FullInv' /\ [Contract!Next]_Contract!vars
  <1> SUFFICES ASSUME FullInv, [Next]_vars  PROVE Moved
    BY NextOK DEF FullInv, Moved
  <1>1. ASSUME UNCHANGED <<task, ended, remote>>  PROVE Moved
    <2>1. Current' = Current /\ Published' = Published /\ Complained' = Complained
      BY <1>1 DEF Current, InFlight, Published, Complained
    <2> QED  BY <1>1, <2>1 DEF FullInv, HistOK, Published, Moved, Contract!vars
  <1>2. CASE TickBegin \/ TickEnds \/ OthersPersist \/ Rest \/ UNCHANGED vars
    BY <1>1, <1>2 DEF TickBegin, TickEnds, OthersPersist, Rest, vars
  <1>3. CASE \E r \in Runs : TickFires(r) \/ ManualCheck(r) \/ ManualTrigger(r) \/ Running(r)
    BY <1>3, TriggerMoves, LaunchMoves, InsideMoves, FlushMoves, EndMoves, ReleaseEnds
    DEF Running
  <1>4. CASE Crash
    BY <1>4, CrashMoves
  <1> QED  BY <1>2, <1>3, <1>4 DEF Next

\* The engine implements the contract: runs never overlap, each trigger ends in
\* one way only, and a run judged without a complaint left its output.
THEOREM EngineImplementsContract == Spec => ImplementsContract
  <1>1. Spec => []FullInv
    BY FullInit, FullNext, PTL DEF Spec
  <1> QED  BY <1>1, FullInit, FullNext, PTL DEF Spec, ImplementsContract, Contract!Spec

-----------------------------------------------------------------------------
(* Records: what push_run, update_run and hydrate make of a list. *)

\* The steps of a launched run that touch neither records nor log.
Flies(r) ==
  Launch(r) \/ Prepare(r) \/ Create(r) \/ Boot(r) \/ Exec(r) \/ Flush(r) \/ Destroy(r)

\* The points at which a run's record says "running", if it is still listed.
Underway == Launching \ {"push", "release"}

LEMMA GotoShape ==
  ASSUME JobInv, NEW r \in Runs, NEW pc \in Pcs, Goto(r, pc)
  PROVE  /\ task'[r] \in Task
         /\ task'[r].pc = pc /\ task'[r].stamp = task[r].stamp
         /\ task'[r].state = task[r].state /\ task'[r].missing = task[r].missing
         /\ \A u \in Runs \ {r} : task'[u] = task[u]
  <1>1. task[r] \in Task  BY DEF JobInv, TaskOK
  <1>2. task'[r] = [task[r] EXCEPT !.pc = pc] /\ \A u \in Runs \ {r} : task'[u] = task[u]
    BY DEF Goto, JobInv, TaskOK
  <1> QED  BY <1>1, <1>2 DEF Task

LEMMA ErrorsShape ==
  ASSUME JobInv, NEW r \in Runs, NEW acquired \in BOOLEAN, Errors(r, acquired)
  PROVE  /\ task'[r].pc = "destroy" /\ task'[r].stamp = task[r].stamp
         /\ task'[r].state = "error"
         /\ \A u \in Runs \ {r} : task'[u] = task[u]
  <1>1. task[r] \in Task  BY DEF JobInv, TaskOK
  <1>2. /\ task'[r] = [task[r] EXCEPT !.pc = "destroy", !.acquired = acquired, !.state = "error"]
        /\ \A u \in Runs \ {r} : task'[u] = task[u]
    BY DEF Errors, JobInv, TaskOK
  <1> QED  BY <1>1, <1>2 DEF Task

\* On the way the run keeps its stamp, and either comes to no verdict yet, or to an
\* error, or leaves with what Flush says of it.
LEMMA FlightShape ==
  ASSUME JobInv, NEW r \in Runs, Flies(r)
  PROVE  /\ task[r].pc \in Underway /\ task'[r].pc \in Underway
         /\ task'[r].stamp = task[r].stamp
         /\ \A u \in Runs \ {r} : task'[u] = task[u]
         /\ task'[r].pc \in Judged =>
              \/ task'[r].state = "error"
              \/ Destroy(r) /\ task'[r].state = task[r].state
                            /\ task'[r].missing = task[r].missing
              \/ Flush(r)
  <1>1. task[r] \in Task  BY DEF JobInv, TaskOK
  <1>2. ASSUME NEW acquired \in BOOLEAN, Errors(r, acquired)
        PROVE  /\ task'[r].pc = "destroy" /\ task'[r].stamp = task[r].stamp
               /\ task'[r].state = "error"
               /\ \A u \in Runs \ {r} : task'[u] = task[u]
    BY <1>2, ErrorsShape
  <1>3. ASSUME NEW pc \in Pcs, Goto(r, pc)
        PROVE  /\ task'[r].pc = pc /\ task'[r].stamp = task[r].stamp
               /\ task'[r].state = task[r].state /\ task'[r].missing = task[r].missing
               /\ \A u \in Runs \ {r} : task'[u] = task[u]
    BY <1>3, GotoShape
  <1>4. "destroy" \in Underway /\ {"persist", "prepare", "create", "boot", "exec", "flush", "settle"}
                                    \subseteq Underway
        /\ Underway \subseteq Pcs /\ Judged \cap Underway = {"destroy", "settle"}
    BY DEF Underway, Launching, Pcs, Judged
  <1>5. CASE Launch(r)
    <2>1. Goto(r, "prepare") /\ task[r].pc = "persist"  BY <1>5 DEF Launch
    <2> QED  BY <1>3, <1>4, <2>1 DEF Judged
  <1>6. CASE Prepare(r)
    <2>1. task[r].pc = "prepare" /\ (Goto(r, "create") \/ Errors(r, FALSE))  BY <1>6 DEF Prepare
    <2> QED  BY <1>2, <1>3, <1>4, <2>1 DEF Judged
  <1>7. CASE Create(r)
    <2>1. /\ task[r].pc = "create"
          /\ \/ task' = [task EXCEPT ![r].pc = "boot", ![r].acquired = TRUE]
             \/ Errors(r, FALSE)
      BY <1>7 DEF Create
    <2>2. CASE task' = [task EXCEPT ![r].pc = "boot", ![r].acquired = TRUE]
      <3>1. /\ task'[r] = [task[r] EXCEPT !.pc = "boot", !.acquired = TRUE]
            /\ \A u \in Runs \ {r} : task'[u] = task[u]
        BY <2>2 DEF JobInv, TaskOK
      <3>2. task'[r].pc = "boot" /\ task'[r].stamp = task[r].stamp
        BY <1>1, <3>1 DEF Task
      <3> QED  BY <1>4, <2>1, <3>1, <3>2 DEF Judged
    <2> QED  BY <1>2, <1>4, <2>1, <2>2
  <1>8. CASE Boot(r)
    <2>1. task[r].pc = "boot" /\ (Goto(r, "exec") \/ Errors(r, TRUE))  BY <1>8 DEF Boot
    <2> QED  BY <1>2, <1>3, <1>4, <2>1 DEF Judged
  <1>9. CASE Exec(r)
    <2>1. /\ task[r].pc = "exec"
          /\ \/ \E how \in {"succeeded", "failed"} :
                  task' = [task EXCEPT ![r].pc = "flush", ![r].state = how]
             \/ Errors(r, TRUE)
      BY <1>9 DEF Exec
    <2>2. ASSUME NEW how \in {"succeeded", "failed"},
                 task' = [task EXCEPT ![r].pc = "flush", ![r].state = how]
          PROVE  /\ task'[r].pc = "flush" /\ task'[r].stamp = task[r].stamp
                 /\ \A u \in Runs \ {r} : task'[u] = task[u]
      <3>1. /\ task'[r] = [task[r] EXCEPT !.pc = "flush", !.state = how]
            /\ \A u \in Runs \ {r} : task'[u] = task[u]
        BY <2>2 DEF JobInv, TaskOK
      <3> QED  BY <1>1, <3>1 DEF Task
    <2> QED  BY <1>2, <1>4, <2>1, <2>2 DEF Judged
  <1>10. CASE Flush(r)
    <2>1. /\ task[r].pc = "flush"
          /\ Goto(r, "destroy") \/ task' = [task EXCEPT ![r].pc = "destroy", ![r].missing = TRUE]
      BY <1>10 DEF Flush
    <2>2. CASE task' = [task EXCEPT ![r].pc = "destroy", ![r].missing = TRUE]
      <3>1. /\ task'[r] = [task[r] EXCEPT !.pc = "destroy", !.missing = TRUE]
            /\ \A u \in Runs \ {r} : task'[u] = task[u]
        BY <2>2 DEF JobInv, TaskOK
      <3>2. task'[r].pc = "destroy" /\ task'[r].stamp = task[r].stamp
        BY <1>1, <3>1 DEF Task
      <3> QED  BY <1>4, <1>10, <2>1, <3>1, <3>2
    <2> QED  BY <1>3, <1>4, <1>10, <2>1, <2>2
  <1>11. CASE Destroy(r)
    <2>1. task[r].pc = "destroy" /\ Goto(r, "settle")  BY <1>11 DEF Destroy
    <2> QED  BY <1>3, <1>4, <1>11, <2>1
  <1> QED  BY <1>5, <1>6, <1>7, <1>8, <1>9, <1>10, <1>11 DEF Flies

\* A nonempty set of numbers has a least one.
LEMMA Least ==
  ASSUME NEW I \in SUBSET Nat, I # {}
  PROVE  Min(I) \in I /\ \A i \in I : Min(I) <= i
  <1> DEFINE R == OpToRel(<, Nat)
  <1>1. IsWellFoundedOn(R, Nat)  BY NatLessThanWellFounded
  <1> HIDE DEF R
  <1>2. PICK m \in I : \A i \in I : <<i, m>> \notin R
    BY <1>1, WFMin
  <1>3. \A x, y \in Nat : x < y => <<x, y>> \in R
    BY DEF R, OpToRel
  <1>4. ASSUME NEW i \in I  PROVE m <= i
    <2>1. i \in Nat /\ m \in Nat /\ <<i, m>> \notin R  BY <1>2, <1>4
    <2>2. ~(i < m)  BY <1>3, <2>1, Zenon
    <2> QED  BY <2>1, <2>2
  <1> QED  BY <1>4 DEF Min

\* push_run: what was there moves one place on, the last may fall off.
LEMMA PushedOK ==
  ASSUME ring \in Seq(Record), Len(ring) <= RingSize, NEW rec \in Record
  PROVE  /\ Pushed(rec) \in Seq(Record)
         /\ Len(Pushed(rec)) = IF Len(ring) < RingSize THEN Len(ring) + 1 ELSE RingSize
         /\ Pushed(rec)[1] = rec
         /\ \A i \in 2..Len(Pushed(rec)) : Pushed(rec)[i] = ring[i - 1] /\ i - 1 \in DOMAIN ring
  <1> DEFINE longer == <<rec>> \o ring
             n == IF Len(longer) > RingSize THEN RingSize ELSE Len(longer)
  <1>1. /\ longer \in Seq(Record) /\ Len(longer) = 1 + Len(ring)
        /\ \A i \in 1..1 + Len(ring) : longer[i] = IF i <= 1 THEN rec ELSE ring[i - 1]
    <2>1. <<rec>> \in Seq(Record) /\ Len(<<rec>>) = 1 /\ <<rec>>[1] = rec  OBVIOUS
    <2> QED  BY <2>1, ConcatProperties
  <1> HIDE DEF longer
  <1>2. n \in Nat /\ n >= 1 /\ n <= Len(longer)
        /\ n = IF Len(ring) < RingSize THEN Len(ring) + 1 ELSE RingSize
    BY <1>1, JobsAssumption
  <1>3. Pushed(rec) = SubSeq(longer, 1, n)  BY DEF Pushed, longer
  <1> HIDE DEF n
  <1>4. /\ Pushed(rec) \in Seq(Record) /\ Len(Pushed(rec)) = n
        /\ \A i \in 1..n : Pushed(rec)[i] = longer[i]
    <2>1. \A i \in 1..n : longer[i] \in Record  BY <1>1, <1>2
    <2>2. 1 \in Int /\ n \in Int /\ n - 1 + 1 = n /\ \A i \in 1..n : 1 + i - 1 = i  BY <1>2
    <2> QED  BY <1>2, <1>3, <2>1, <2>2, SubSeqProperties
  <1> QED  BY <1>1, <1>2, <1>4

\* update_run: the first record of that branch, or nothing.
LEMMA UpdatedOK ==
  ASSUME ring \in Seq(Record), NEW branch, NEW state \in States, NEW missing \in BOOLEAN
  PROVE  \/ /\ Updated(branch, state, missing) = ring
            /\ \A i \in DOMAIN ring : ring[i].branch # branch
         \/ \E i \in DOMAIN ring :
              /\ ring[i].branch = branch
              /\ Updated(branch, state, missing) \in Seq(Record)
              /\ Len(Updated(branch, state, missing)) = Len(ring)
              /\ Updated(branch, state, missing)[i].of = ring[i].of
              /\ Updated(branch, state, missing)[i].branch = branch
              /\ Updated(branch, state, missing)[i].state = state
              /\ Updated(branch, state, missing)[i].missing = missing
              /\ \A j \in DOMAIN ring \ {i} : Updated(branch, state, missing)[j] = ring[j]
  <1> DEFINE I == {i \in 1..Len(ring) : ring[i].branch = branch}
             i == SelectInSeq(ring, LAMBDA rec : rec.branch = branch)
  <1>1. i = IF I # {} THEN Min(I) ELSE 0  BY DEF SelectInSeq
  <1>2. DOMAIN ring = 1..Len(ring) /\ Len(ring) \in Nat  OBVIOUS
  <1>3. CASE I = {}
    BY <1>1, <1>2, <1>3 DEF Updated
  <1>4. CASE I # {}
    <2>1. i \in I
      <3>1. I \in SUBSET Nat  BY <1>2
      <3> HIDE DEF I, i
      <3> QED  BY <1>1, <1>4, <3>1, Least
    <2>2. i \in DOMAIN ring /\ ring[i].branch = branch /\ i # 0  BY <1>2, <2>1
    <2> HIDE DEF i
    <2> DEFINE a == [ring EXCEPT ![i].state = state]
               b == Updated(branch, state, missing)
    <2>3. b = [a EXCEPT ![i].missing = missing]
      BY <2>2 DEF Updated, i
    <2>4. PICK x \in Record : x = ring[i]  BY <1>2, <2>2
    <2>5. /\ DOMAIN a = 1..Len(ring) /\ a[i] = [x EXCEPT !.state = state]
          /\ \A j \in DOMAIN ring \ {i} : a[j] = ring[j]
      BY <1>2, <2>2, <2>4
    <2> HIDE DEF a, b
    <2>6. PICK y : y = a[i]  OBVIOUS
    <2>7. y \in Record  BY <2>4, <2>5, <2>6 DEF Record
    <2>8. /\ DOMAIN b = 1..Len(ring) /\ b[i] = [y EXCEPT !.missing = missing]
          /\ \A j \in DOMAIN ring \ {i} : b[j] = ring[j]
      BY <1>2, <2>2, <2>3, <2>5, <2>6
    <2>9. b[i] \in Record /\ b[i] = [x EXCEPT !.state = state, !.missing = missing]
      BY <2>4, <2>5, <2>6, <2>7, <2>8 DEF Record
    <2>10. b \in [1..Len(ring) -> Record]
      <3>1. a \in [1..Len(ring) -> Record]
        <4>1. a = [j \in DOMAIN ring |-> a[j]]  BY DEF a
        <4>2. \A j \in DOMAIN ring : a[j] \in Record
          BY <1>2, <2>5, <2>6, <2>7
        <4> QED  BY <1>2, <4>1, <4>2
      <3>2. PICK z \in Record : z = b[i]  BY <2>9
      <3>3. b = [a EXCEPT ![i] = z]  BY <2>3, <2>5, <2>6, <2>8, <3>1, <3>2
      <3> QED  BY <3>1, <3>2, <3>3
    <2>11. b \in Seq(Record) /\ Len(b) = Len(ring)  BY <1>2, <2>10, IsASeq, LenProperties
    <2>12. /\ b[i].of = ring[i].of /\ b[i].branch = branch
           /\ b[i].state = state /\ b[i].missing = missing
      BY <2>2, <2>4, <2>9 DEF Record
    <2> QED  BY <2>2, <2>8, <2>11, <2>12 DEF b
  <1> QED  BY <1>3, <1>4

\* hydrate: what ran when the snapshot was written was aborted.
LEMMA HydratedOK ==
  ASSUME NEW records \in Seq(Record)
  PROVE  /\ Hydrated(records) \in Seq(Record)
         /\ Len(Hydrated(records)) = Len(records)
         /\ DOMAIN Hydrated(records) = DOMAIN records
         /\ \A i \in DOMAIN records :
              /\ Hydrated(records)[i].of = records[i].of
              /\ Hydrated(records)[i].branch = records[i].branch
              /\ Hydrated(records)[i].missing = records[i].missing
              /\ Hydrated(records)[i].state
                   = IF records[i].state = "running" THEN "aborted" ELSE records[i].state
  <1> DEFINE H == Hydrated(records)
  <1>1. DOMAIN records = 1..Len(records) /\ Len(records) \in Nat
        /\ \A i \in DOMAIN records : records[i] \in Record
    OBVIOUS
  <1>2. ASSUME NEW i \in DOMAIN records
        PROVE  /\ H[i] \in Record
               /\ H[i].of = records[i].of /\ H[i].branch = records[i].branch
               /\ H[i].missing = records[i].missing
               /\ H[i].state = IF records[i].state = "running" THEN "aborted" ELSE records[i].state
    <2>1. PICK x \in Record : x = records[i]  BY <1>1
    <2>2. H[i] = IF x.state = "running" THEN [x EXCEPT !.state = "aborted"] ELSE x
      BY <2>1 DEF Hydrated
    <2> HIDE DEF H
    <2> QED  BY <2>1, <2>2 DEF Record, States
  <1>3. H \in [1..Len(records) -> Record]
    <2>1. H = [i \in DOMAIN records |-> H[i]]  BY DEF Hydrated
    <2> HIDE DEF H
    <2> QED  BY <1>1, <1>2, <2>1
  <1>4. H \in Seq(Record) /\ Len(H) = Len(records) /\ DOMAIN H = DOMAIN records
    <2> HIDE DEF H
    <2> QED  BY <1>1, <1>3, IsASeq, LenProperties
  <1> QED  BY <1>2, <1>4

LEMMA UpdatedShape ==
  ring \in Seq(Record) =>
    \A branch, state, missing :
      state \in States /\ missing \in BOOLEAN =>
        \/ /\ Updated(branch, state, missing) = ring
           /\ \A i \in DOMAIN ring : ring[i].branch # branch
        \/ \E i \in DOMAIN ring :
             /\ ring[i].branch = branch
             /\ Updated(branch, state, missing) \in Seq(Record)
             /\ Len(Updated(branch, state, missing)) = Len(ring)
             /\ Updated(branch, state, missing)[i].of = ring[i].of
             /\ Updated(branch, state, missing)[i].branch = branch
             /\ Updated(branch, state, missing)[i].state = state
             /\ Updated(branch, state, missing)[i].missing = missing
             /\ \A j \in DOMAIN ring \ {i} : Updated(branch, state, missing)[j] = ring[j]
  BY UpdatedOK

-----------------------------------------------------------------------------
(* Types, and the testimony of a record. *)

Event == [of: Runs, state: States]

Grounded ==
  /\ clock \in Stamps
  /\ cont \in Runs \cup {None}
  /\ faults \in 0..MaxFaults

\* What a trigger is about to log.
Ends ==
  \A r \in Runs :
    /\ task[r].pc \in Refused => ended[r] = "skipped_locked"
    /\ task[r].pc = "log" => ended[r] = task[r].state /\ ended[r] \in Verdicts

HasOutput(b) == remote[b] \notin {None, {}}

\* A verdict without a complaint: the output is on the branch of that stamp.
Held ==
  \A r \in Runs : task[r].pc \in Judged =>
    \/ task[r].state = "error"
    \/ task[r].missing
    \/ HasOutput(task[r].stamp)

Written(records) == records \in Seq(Record) /\ Len(records) <= RingSize

Answered(records) ==
  \A i \in DOMAIN records :
    records[i].state \in {"succeeded", "failed"} /\ ~records[i].missing =>
      HasOutput(records[i].branch)

Kept ==
  /\ Written(ring) /\ log \subseteq Event /\ Answered(ring)
  /\ Written(disk.ring) /\ disk.log \subseteq Event /\ Answered(disk.ring)

PlainInv == FullInv /\ Grounded /\ Ends /\ Held /\ Kept

LEMMA PlainInit == Init => PlainInv
  <1> SUFFICES ASSUME Init  PROVE PlainInv
    OBVIOUS
  <1>1. Grounded  BY JobsAssumption DEF Init, Grounded, Stamps
  <1>2. \A r \in Runs : task[r].pc = "idle"  BY DEF Init, Fresh
  <1>3. Ends /\ Held  BY <1>2 DEF Ends, Held, Refused, Judged
  <1>4. <<>> \in Seq(Record) /\ Len(<<>>) = 0 /\ DOMAIN <<>> = {}  OBVIOUS
  <1>5. Kept
    <2>1. ring = <<>> /\ log = {} /\ disk.ring = <<>> /\ disk.log = {}  BY DEF Init
    <2>2. Written(<<>>) /\ Answered(<<>>)
      BY <1>4, JobsAssumption DEF Written, Answered
    <2> QED  BY <2>1, <2>2 DEF Kept
  <1> QED  BY <1>1, <1>3, <1>5, FullInit DEF PlainInv

LEMMA GroundedOK ==
  ASSUME PlainInv, [Next]_vars
  PROVE  Grounded'
  <1>1. \A f : Inject(f) => faults' \in 0..MaxFaults
    BY JobsAssumption DEF Inject, PlainInv, Grounded
  <1>2. faults' \in 0..MaxFaults
    <2>1. faults' = faults \/ \E f : Inject(f)
      BY DEF Next, vars, TickBegin, TickEnds, TickFires, ManualCheck, ManualTrigger, Running,
             PushSkip, PushRunning, Launch, Prepare, Create, Boot, Exec, Flush, Destroy, Settle,
             ReleaseLatch, LogEvent, OthersPersist, Crash, Rest, Persisted, NoFault
    <2> QED  BY <1>1, <2>1 DEF PlainInv, Grounded
  <1>3. clock' \in Stamps
    BY DEF Next, vars, TickBegin, TickEnds, TickFires, ManualCheck, ManualTrigger, Running,
           PushSkip, PushRunning, Launch, Prepare, Create, Boot, Exec, Flush, Destroy, Settle,
           ReleaseLatch, LogEvent, OthersPersist, Crash, Rest, Now, PlainInv, Grounded
  <1>4. cont' \in Runs \cup {None}
    BY DEF Next, vars, TickBegin, TickEnds, TickFires, ManualCheck, ManualTrigger, Running,
           PushSkip, PushRunning, Launch, Prepare, Create, Boot, Exec, Flush, Destroy, Settle,
           ReleaseLatch, LogEvent, OthersPersist, Crash, Rest, PlainInv, Grounded
  <1> QED  BY <1>2, <1>3, <1>4 DEF Grounded

\* Output that is on a branch stays on it.
LEMMA OutputStays ==
  ASSUME PlainInv, [Next]_vars, NEW b \in Stamps, HasOutput(b)
  PROVE  HasOutput(b)'
  <1>1. CASE UNCHANGED remote
    BY <1>1 DEF HasOutput
  <1>2. ASSUME NEW r \in Runs, Boot(r), remote' # remote  PROVE HasOutput(b)'
    <2> DEFINE s == task[r].stamp
    <2>1. s \in Stamps  BY DEF PlainInv, FullInv, JobInv, TaskOK, Task
    <2>2. CASE remote[s] \in {None, {}}
      <3>1. s # b  BY <2>2 DEF HasOutput
      <3>2. remote'[b] = remote[b]
        BY <1>2, <2>1, <3>1 DEF Boot, PlainInv, FullInv, HistOK
      <3> QED  BY <3>2 DEF HasOutput
    <2>3. CASE remote[s] \notin {None, {}}
      <3>1. remote' = [remote EXCEPT ![s] = IF @ = None THEN {} ELSE @]
        BY <1>2, <2>3 DEF Boot
      <3>2. remote' = remote
        BY <2>1, <2>3, <3>1 DEF PlainInv, FullInv, HistOK
      <3> QED  BY <1>2, <3>2
    <2> QED  BY <2>2, <2>3
  <1>3. ASSUME NEW r \in Runs, Flush(r)  PROVE HasOutput(b)'
    <2> DEFINE s == task[r].stamp
    <2>1. s \in Stamps  BY DEF PlainInv, FullInv, JobInv, TaskOK, Task
    <2>2. remote[s] \in SUBSET Runs
      BY <1>3, <2>1 DEF Flush, PlainInv, FullInv, HistOK
    <2>3. remote[s] \cup {r} # None /\ remote[s] \cup {r} # {}
      BY <2>2, NoneIsNoBranch
    <2>4. CASE remote' = remote
      BY <2>4 DEF HasOutput
    <2>5. CASE remote' = [remote EXCEPT ![s] = @ \cup {r}]
      BY <2>1, <2>3, <2>5 DEF HasOutput, PlainInv, FullInv, HistOK
    <2> QED  BY <1>3, <2>4, <2>5 DEF Flush
  <1>4. UNCHANGED remote \/ \E r \in Runs : Boot(r) \/ Flush(r)
    BY DEF Next, vars, TickBegin, TickEnds, TickFires, ManualCheck, ManualTrigger, Running,
           PushSkip, PushRunning, Launch, Prepare, Create, Exec, Destroy, Settle,
           ReleaseLatch, LogEvent, OthersPersist, Crash, Rest
  <1> QED  BY <1>1, <1>2, <1>3, <1>4

\* A run that flushed without complaint has put its output on its branch.
LEMMA FlushHolds ==
  ASSUME PlainInv, NEW r \in Runs, Flush(r)
  PROVE  task'[r].missing \/ remote'[task[r].stamp] \notin {None, {}}
  <1> DEFINE s == task[r].stamp
  <1>0. task[r] \in Task  BY DEF PlainInv, FullInv, JobInv, TaskOK
  <1>1. CASE task' = [task EXCEPT ![r].pc = "destroy", ![r].missing = TRUE]
    <2>1. task'[r] = [task[r] EXCEPT !.pc = "destroy", !.missing = TRUE]
      BY <1>1 DEF PlainInv, FullInv, JobInv, TaskOK
    <2> QED  BY <1>0, <2>1 DEF Task
  <1>2. CASE remote' = [remote EXCEPT ![s] = @ \cup {r}]
    <2>1. s \in Stamps  BY <1>0 DEF Task
    <2>2. remote[s] \in SUBSET Runs
      BY <2>1 DEF Flush, PlainInv, FullInv, HistOK
    <2>3. remote[s] \cup {r} # None /\ remote[s] \cup {r} # {}
      BY <2>2, NoneIsNoBranch
    <2> QED  BY <1>2, <2>1, <2>3 DEF PlainInv, FullInv, HistOK
  <1> QED  BY <1>1, <1>2 DEF Flush

LEMMA FreshShape ==
  /\ Fresh.stamp = 0 /\ Fresh.state = "none" /\ Fresh.missing = FALSE
  /\ \A k : /\ Finished(k).pc = "done" /\ Finished(k).stamp = 0
            /\ Finished(k).state = k.state /\ Finished(k).missing = k.missing
  BY DEF Fresh, Finished

\* A trigger begins a run, or is refused, under the stamp that it read.
LEMMA ClaimShape ==
  ASSUME JobInv, NEW r \in Runs, NEW stamp, NEW cron, Claim(r, stamp, cron)
  PROVE  /\ task'[r].stamp = stamp
         /\ task'[r].pc = IF latch THEN "skip" ELSE "push"
         /\ \A u \in Runs \ {r} : task'[u] = task[u]
         /\ latch => ended' = [ended EXCEPT ![r] = "skipped_locked"]
         /\ ~latch => ended' = ended
  <1>1. ASSUME NEW pc,
               task' = [task EXCEPT ![r] = [Fresh EXCEPT !.pc = pc, !.stamp = stamp, !.cron = cron]]
        PROVE  /\ task'[r].pc = pc /\ task'[r].stamp = stamp
               /\ \A u \in Runs \ {r} : task'[u] = task[u]
    <2> DEFINE k == [Fresh EXCEPT !.pc = pc, !.stamp = stamp, !.cron = cron]
    <2>1. k.pc = pc /\ k.stamp = stamp  BY DEF Fresh
    <2>2. task' = [task EXCEPT ![r] = k]  BY <1>1
    <2> HIDE DEF k
    <2> QED  BY <2>1, <2>2 DEF JobInv, TaskOK
  <1>2. CASE latch
    BY <1>1, <1>2 DEF Claim
  <1>3. CASE ~latch
    BY <1>1, <1>3 DEF Claim
  <1> QED  BY <1>2, <1>3

LEMMA LogShape ==
  ASSUME JobInv, NEW r \in Runs, LogEvent(r)
  PROVE  /\ task'[r].pc = "done"
         /\ task'[r].state = task[r].state /\ task'[r].missing = task[r].missing
         /\ \A u \in Runs \ {r} : task'[u] = task[u]
  <1>1. task'[r] = Finished(task[r]) /\ \A u \in Runs \ {r} : task'[u] = task[u]
    BY DEF LogEvent, JobInv, TaskOK
  <1> QED  BY <1>1, FreshShape

LEMMA CrashShape ==
  ASSUME Crash, NEW r \in Runs
  PROVE  \/ task[r].pc = "idle" /\ task'[r].pc = "idle"
         \/ /\ task[r].pc # "idle" /\ task'[r].pc = "done"
            /\ task'[r].state = task[r].state /\ task'[r].missing = task[r].missing
  <1>1. task'[r] = IF task[r].pc = "idle" THEN Fresh ELSE Finished(task[r])
    BY DEF Crash
  <1> QED  BY <1>1, FreshShape, FreshOK

\* Off the flight only a refusal, a release and the clock's hand change what a
\* trigger is about to log.
LEMMA EndsOK ==
  ASSUME PlainInv, [Next]_vars
  PROVE  Ends'
  <1>0. /\ JobInv /\ Ends /\ ended \in [Runs -> States \cup {"none"}]
    BY DEF PlainInv, FullInv, HistOK
  <1>1. ASSUME task' = task, ended' = ended  PROVE Ends'
    BY <1>0, <1>1 DEF Ends
  <1>2. CASE TickBegin \/ TickEnds \/ OthersPersist \/ Rest \/ UNCHANGED vars
    BY <1>1, <1>2 DEF TickBegin, TickEnds, OthersPersist, Rest, vars
  <1>3. ASSUME NEW r \in Runs, NEW stamp, NEW cron, Claim(r, stamp, cron)  PROVE Ends'
    <2>1. /\ \A u \in Runs \ {r} : task'[u] = task[u] /\ ended'[u] = ended[u]
          /\ task'[r].pc = IF latch THEN "skip" ELSE "push"
          /\ latch => ended'[r] = "skipped_locked"
      BY <1>0, <1>3, ClaimShape
    <2> QED  BY <1>0, <2>1 DEF Ends, Refused
  <1>4. ASSUME NEW r \in Runs, NEW pc \in Pcs, Goto(r, pc), ended' = ended,
               pc = "logskip" => task[r].pc = "skip", pc # "log", pc # "skip"
        PROVE  Ends'
    BY <1>0, <1>4, GotoShape DEF Ends, Refused
  <1>5. CASE \E r \in Runs : TickFires(r) \/ ManualCheck(r) \/ ManualTrigger(r)
    BY <1>3, <1>4, <1>5 DEF TickFires, ManualTrigger, ManualCheck, Pcs
  <1>6. CASE \E r \in Runs : PushSkip(r) \/ PushRunning(r) \/ Settle(r)
    BY <1>4, <1>6 DEF PushSkip, PushRunning, Settle, Pcs, Launching, Refused
  <1>7. ASSUME NEW r \in Runs, Flies(r)  PROVE Ends'
    <2>1. ended' = ended
      BY <1>7 DEF Flies, Launch, Prepare, Create, Boot, Exec, Flush, Destroy
    <2>2. /\ task'[r].pc \in Underway
          /\ \A u \in Runs \ {r} : task'[u] = task[u]
      BY <1>0, <1>7, FlightShape
    <2> QED  BY <1>0, <2>1, <2>2 DEF Ends, Refused, Underway, Launching
  <1>8. ASSUME NEW r \in Runs, ReleaseLatch(r)  PROVE Ends'
    <2>1. /\ task'[r].pc = "log" /\ task'[r].state = task[r].state
          /\ \A u \in Runs \ {r} : task'[u] = task[u]
      BY <1>0, <1>8, GotoShape DEF ReleaseLatch, Pcs
    <2>2. ended'[r] = task[r].state /\ \A u \in Runs \ {r} : ended'[u] = ended[u]
      BY <1>0, <1>8 DEF ReleaseLatch
    <2>3. task[r].state \in Verdicts
      BY <1>8 DEF ReleaseLatch, PlainInv, FullInv, HistOK, Judged
    <2> QED  BY <1>0, <2>1, <2>2, <2>3 DEF Ends, Refused
  <1>9. ASSUME NEW r \in Runs, LogEvent(r)  PROVE Ends'
    <2>1. task'[r].pc = "done" /\ \A u \in Runs \ {r} : task'[u] = task[u]
      BY <1>0, <1>9, LogShape
    <2>2. ended' = ended  BY <1>9 DEF LogEvent
    <2> QED  BY <1>0, <2>1, <2>2 DEF Ends, Refused
  <1>10. CASE Crash
    BY <1>10, CrashShape DEF Ends, Refused
  <1> QED  BY <1>2, <1>5, <1>6, <1>7, <1>8, <1>9, <1>10 DEF Next, Running, Flies

LEMMA HeldOK ==
  ASSUME PlainInv, [Next]_vars
  PROVE  Held'
  <1>0. JobInv /\ Held /\ task \in [Runs -> Task]
    BY DEF PlainInv, FullInv, JobInv, TaskOK
  <1>a. \A u \in Runs : task[u].stamp \in Stamps  BY <1>0 DEF Task
  <1>1. ASSUME NEW u \in Runs, task[u].pc \in Judged,
               task'[u].stamp = task[u].stamp, task'[u].state = task[u].state,
               task'[u].missing = task[u].missing
        PROVE  \/ task'[u].state = "error"
               \/ task'[u].missing
               \/ remote'[task'[u].stamp] \notin {None, {}}
    <2>1. \A b \in Stamps : HasOutput(b) => remote'[b] \notin {None, {}}
      BY OutputStays DEF HasOutput
    <2> QED  BY <1>0, <1>a, <1>1, <2>1 DEF Held
  <1>2. ASSUME task' = task  PROVE Held'
    BY <1>1, <1>2 DEF Held, HasOutput
  <1>3. CASE TickBegin \/ TickEnds \/ OthersPersist \/ Rest \/ UNCHANGED vars
    BY <1>2, <1>3 DEF TickBegin, TickEnds, OthersPersist, Rest, vars
  <1>4. ASSUME NEW r \in Runs, \A u \in Runs \ {r} : task'[u] = task[u],
               task'[r].pc \in Judged =>
                 \/ task'[r].state = "error"
                 \/ task'[r].missing
                 \/ remote'[task'[r].stamp] \notin {None, {}}
        PROVE  Held'
    BY <1>1, <1>4 DEF Held, HasOutput
  <1>5. ASSUME NEW r \in Runs, NEW stamp, NEW cron, Claim(r, stamp, cron)  PROVE Held'
    <2>1. /\ \A u \in Runs \ {r} : task'[u] = task[u]
          /\ task'[r].pc \notin Judged
      BY <1>0, <1>5, ClaimShape DEF Judged
    <2> QED  BY <1>4, <2>1
  <1>6. ASSUME NEW r \in Runs, NEW pc \in Pcs, Goto(r, pc), pc \in Judged => task[r].pc \in Judged
        PROVE  Held'
    <2>1. /\ task'[r].pc = pc /\ task'[r].stamp = task[r].stamp
          /\ task'[r].state = task[r].state /\ task'[r].missing = task[r].missing
          /\ \A u \in Runs \ {r} : task'[u] = task[u]
      BY <1>0, <1>6, GotoShape
    <2> QED  BY <1>1, <1>4, <1>6, <2>1
  <1>7. CASE \E r \in Runs : TickFires(r) \/ ManualCheck(r) \/ ManualTrigger(r)
    BY <1>5, <1>6, <1>7 DEF TickFires, ManualTrigger, ManualCheck, Pcs, Judged
  <1>8. CASE \E r \in Runs : PushSkip(r) \/ PushRunning(r)
    BY <1>6, <1>8 DEF PushSkip, PushRunning, Pcs, Launching, Refused, Judged
  <1>9. CASE \E r \in Runs : Settle(r) \/ ReleaseLatch(r)
    BY <1>6, <1>9 DEF Settle, ReleaseLatch, Pcs, Launching, Judged
  <1>10. ASSUME NEW r \in Runs, Flies(r)  PROVE Held'
    <2>1. /\ \A u \in Runs \ {r} : task'[u] = task[u]
          /\ task'[r].stamp = task[r].stamp
          /\ task'[r].pc \in Judged =>
               \/ task'[r].state = "error"
               \/ Destroy(r) /\ task'[r].state = task[r].state
                             /\ task'[r].missing = task[r].missing
               \/ Flush(r)
      BY <1>0, <1>10, FlightShape
    <2>2. CASE Destroy(r) /\ task'[r].state = task[r].state
                          /\ task'[r].missing = task[r].missing
      <3>1. task[r].pc \in Judged  BY <2>2 DEF Destroy, Judged
      <3> QED  BY <1>1, <1>4, <2>1, <2>2, <3>1
    <2>3. CASE Flush(r)
      BY <1>4, <2>1, <2>3, FlushHolds
    <2> QED  BY <1>4, <2>1, <2>2, <2>3
  <1>11. ASSUME NEW r \in Runs, LogEvent(r)  PROVE Held'
    BY <1>0, <1>4, <1>11, LogShape DEF Judged
  <1>12. CASE Crash
    BY <1>12, CrashShape DEF Held, Judged
  <1> QED  BY <1>3, <1>7, <1>8, <1>9, <1>10, <1>11, <1>12 DEF Next, Running, Flies

\* What a step must make of a list of records.
Sound(records) ==
  /\ Written(records)
  /\ \A i \in DOMAIN records :
       records[i].state \in {"succeeded", "failed"} /\ ~records[i].missing =>
         remote'[records[i].branch] \notin {None, {}}

LEMMA SoundStays ==
  ASSUME PlainInv, [Next]_vars, NEW records, Written(records), Answered(records)
  PROVE  Sound(records)
  <1>1. \A i \in DOMAIN records : records[i].branch \in Stamps
    <2>1. \A i \in DOMAIN records : records[i] \in Record  BY DEF Written
    <2>2. \A x \in Record : x.branch \in Stamps  BY DEF Record
    <2> QED  BY <2>1, <2>2
  <1>2. \A b \in Stamps : HasOutput(b) => remote'[b] \notin {None, {}}
    BY OutputStays DEF HasOutput
  <1> QED  BY <1>1, <1>2 DEF Sound, Answered

LEMMA PushedSound ==
  ASSUME PlainInv, [Next]_vars, NEW rec \in Record, rec.state \notin {"succeeded", "failed"}
  PROVE  Sound(Pushed(rec))
  <1>1. /\ Pushed(rec) \in Seq(Record) /\ Len(Pushed(rec)) <= RingSize
        /\ Pushed(rec)[1] = rec /\ Len(Pushed(rec)) \in Nat
        /\ \A i \in 2..Len(Pushed(rec)) : Pushed(rec)[i] = ring[i - 1] /\ i - 1 \in DOMAIN ring
    <2>1. ring \in Seq(Record) /\ Len(ring) <= RingSize  BY DEF PlainInv, Kept, Written
    <2> QED  BY <2>1, PushedOK, JobsAssumption
  <1>2. Sound(ring)  BY SoundStays DEF PlainInv, Kept
  <1>3. DOMAIN Pushed(rec) = 1..Len(Pushed(rec))  BY <1>1
  <1>4. \A i \in DOMAIN Pushed(rec) :
          Pushed(rec)[i] = rec \/ \E j \in DOMAIN ring : Pushed(rec)[i] = ring[j]
    BY <1>1, <1>3
  <1> QED  BY <1>1, <1>2, <1>4 DEF Sound, Written

LEMMA HydratedSound ==
  ASSUME PlainInv, [Next]_vars
  PROVE  Sound(Hydrated(disk.ring))
  <1>1. Sound(disk.ring)  BY SoundStays DEF PlainInv, Kept
  <1>2. disk.ring \in Seq(Record)  BY DEF PlainInv, Kept, Written
  <1> QED  BY <1>1, <1>2, HydratedOK DEF Sound, Written

LEMMA NewRecordOK ==
  ASSUME JobInv, NEW r \in Runs, NEW state \in States
  PROVE  /\ NewRecord(r, state) \in Record
         /\ NewRecord(r, state).of = r /\ NewRecord(r, state).branch = task[r].stamp
         /\ NewRecord(r, state).state = state /\ NewRecord(r, state).missing = FALSE
  <1>1. task[r].stamp \in Stamps  BY DEF JobInv, TaskOK, Task
  <1> QED  BY <1>1 DEF NewRecord, Record

\* The verdict goes into a record of the stamp that has the output.
LEMMA SettleSound ==
  ASSUME PlainInv, [Next]_vars, NEW r \in Runs, Settle(r)
  PROVE  Sound(ring')
  <1> DEFINE s == task[r].stamp
  <1>1. /\ task[r] \in Task /\ task[r].pc \in Judged /\ ring' = Updated(s, task[r].state, task[r].missing)
        /\ remote' = remote
    BY DEF Settle, Judged, PlainInv, FullInv, JobInv, TaskOK
  <1>2. /\ task[r].state \in Verdicts
        /\ task[r].state = "error" \/ task[r].missing \/ HasOutput(s)
    BY <1>1 DEF PlainInv, FullInv, HistOK, Held
  <1>3. Sound(ring) /\ ring \in Seq(Record) /\ Len(ring) <= RingSize
    BY SoundStays DEF PlainInv, Kept, Written
  <1>4. task[r].state \in States /\ task[r].missing \in BOOLEAN
    BY <1>1, <1>2 DEF States, Task
  <1>5. CASE ring' = ring
    BY <1>3, <1>5
  <1>6. ASSUME NEW i \in DOMAIN ring,
               ring[i].branch = s, ring' \in Seq(Record), Len(ring') = Len(ring),
               ring'[i].branch = s, ring'[i].state = task[r].state,
               ring'[i].missing = task[r].missing,
               \A j \in DOMAIN ring \ {i} : ring'[j] = ring[j]
        PROVE  Sound(ring')
    <2>3. DOMAIN ring' = DOMAIN ring  BY <1>3, <1>6
    <2>4. \A j \in DOMAIN ring' :
            ring'[j].state \in {"succeeded", "failed"} /\ ~ring'[j].missing =>
              remote'[ring'[j].branch] \notin {None, {}}
      <3>1. CASE task[r].state = "error" \/ task[r].missing \/ remote'[s] \notin {None, {}}
        <4> SUFFICES ASSUME NEW j \in DOMAIN ring,
                            ring'[j].state \in {"succeeded", "failed"}, ~ring'[j].missing
                     PROVE  remote'[ring'[j].branch] \notin {None, {}}
          BY <2>3
        <4>1. CASE j = i
          BY <1>6, <3>1, <4>1
        <4>2. CASE j # i
          <5>1. ring'[j] = ring[j]  BY <1>6, <4>2
          <5> QED  BY <1>3, <5>1 DEF Sound
        <4> QED  BY <4>1, <4>2
      <3> QED  BY <1>1, <1>2, <3>1 DEF HasOutput
    <2>5. Written(ring')  BY <1>3, <1>6 DEF Written
    <2> QED  BY <2>4, <2>5 DEF Sound
  <1>7. \/ ring' = ring
        \/ \E i \in DOMAIN ring :
             /\ ring[i].branch = s /\ ring' \in Seq(Record) /\ Len(ring') = Len(ring)
             /\ ring'[i].branch = s /\ ring'[i].state = task[r].state
             /\ ring'[i].missing = task[r].missing
             /\ \A j \in DOMAIN ring \ {i} : ring'[j] = ring[j]
    <2> DEFINE upd == Updated(s, task[r].state, task[r].missing)
    <2>1. \/ upd = ring
          \/ \E i \in DOMAIN ring :
               /\ ring[i].branch = s /\ upd \in Seq(Record) /\ Len(upd) = Len(ring)
               /\ upd[i].branch = s /\ upd[i].state = task[r].state
               /\ upd[i].missing = task[r].missing
               /\ \A j \in DOMAIN ring \ {i} : upd[j] = ring[j]
      <3>1. ring \in Seq(Record)  BY <1>3
      <3> QED  BY <1>4, <3>1, UpdatedShape
    <2>2. ring' = upd  BY <1>1
    <2> QED  BY <2>1, <2>2, Zenon
  <1> QED  BY <1>5, <1>6, <1>7

LEMMA KeptOK ==
  ASSUME PlainInv, [Next]_vars
  PROVE  Kept'
  <1>0. JobInv /\ Sound(ring) /\ Sound(disk.ring) /\ log \subseteq Event /\ disk.log \subseteq Event
    BY SoundStays DEF PlainInv, Kept, FullInv
  <1>1. Sound(ring')
    <2>1. CASE ring' = ring
      BY <1>0, <2>1
    <2>2. CASE \E r \in Runs : PushSkip(r) \/ PushRunning(r)
      <3>1. PICK r \in Runs : PushSkip(r) \/ PushRunning(r)  BY <2>2
      <3>2. PICK state \in {"skipped_locked", "running"} : ring' = Pushed(NewRecord(r, state))
        BY <3>1 DEF PushSkip, PushRunning
      <3>3. state \in States  BY DEF States
      <3>4. NewRecord(r, state) \in Record /\ NewRecord(r, state).state = state
        BY <1>0, <3>3, NewRecordOK
      <3> QED  BY <3>2, <3>4, PushedSound
    <2>3. CASE \E r \in Runs : Settle(r)
      BY <2>3, SettleSound
    <2>4. CASE Crash
      BY <2>4, HydratedSound DEF Crash
    <2>5. \/ ring' = ring \/ Crash
          \/ \E r \in Runs : PushSkip(r) \/ PushRunning(r) \/ Settle(r)
      BY DEF Next, vars, TickBegin, TickEnds, TickFires, ManualCheck, ManualTrigger, Running,
             Launch, Prepare, Create, Boot, Exec, Flush, Destroy,
             ReleaseLatch, LogEvent, OthersPersist, Rest
    <2> QED  BY <2>1, <2>2, <2>3, <2>4, <2>5
  <1>2. log' \subseteq Event
    <2>1. ASSUME NEW r \in Runs, LogEvent(r)  PROVE log' \subseteq Event
      <3>1. ended[r] \in States
        BY <2>1 DEF LogEvent, PlainInv, Ends, Refused, States
      <3>2. [of |-> r, state |-> ended[r]] \in Event  BY <3>1 DEF Event
      <3> QED  BY <1>0, <2>1, <3>2 DEF LogEvent
    <2>2. \/ log' = log \/ log' = disk.log \/ \E r \in Runs : LogEvent(r)
      BY DEF Next, vars, TickBegin, TickEnds, TickFires, ManualCheck, ManualTrigger, Running,
             PushSkip, PushRunning, Launch, Prepare, Create, Boot, Exec, Flush, Destroy, Settle,
             ReleaseLatch, OthersPersist, Crash, Rest
    <2> QED  BY <1>0, <2>1, <2>2
  <1>3. disk' = disk \/ disk' = [ring |-> ring', log |-> log']
    BY DEF Next, vars, TickBegin, TickEnds, TickFires, ManualCheck, ManualTrigger, Running,
           PushSkip, PushRunning, Launch, Prepare, Create, Boot, Exec, Flush, Destroy, Settle,
           ReleaseLatch, LogEvent, OthersPersist, Crash, Rest, Persisted
  <1>4. Sound(disk'.ring) /\ disk'.log \subseteq Event
    <2>1. CASE disk' = disk
      BY <1>0, <2>1
    <2>2. CASE disk' = [ring |-> ring', log |-> log']
      <3>1. disk'.ring = ring' /\ disk'.log = log'  BY <2>2
      <3> QED  BY <1>1, <1>2, <3>1
    <2> QED  BY <1>3, <2>1, <2>2
  <1> QED  BY <1>1, <1>2, <1>4 DEF Kept, Sound, Written, Answered, HasOutput

LEMMA PlainNext == PlainInv /\ [Next]_vars => PlainInv'
  BY FullNext, GroundedOK, EndsOK, HeldOK, KeptOK DEF PlainInv

LEMMA PlainInvariance == Spec => []PlainInv
  BY PlainInit, PlainNext, PTL DEF Spec

\* Type correctness: whatever fails and whenever the control plane crashes, the
\* ring keeps its bound and its records, log, snapshot and branches their types.
THEOREM TypesKept == Spec => []TypeOK
  <1>1. PlainInv => TypeOK
    BY DEF PlainInv, FullInv, JobInv, TaskOK, HistOK, Grounded, Kept, Written, Event, TypeOK
  <1> QED  BY <1>1, PlainInvariance, PTL

\* A run that is listed as ended without a complaint left its output on the branch
\* that its record names, even when two runs share a branch.
THEOREM TestimonyHolds == Spec => []TestimonyOrComplaint
  <1>1. PlainInv => TestimonyOrComplaint
    BY DEF PlainInv, Kept, Answered, HasOutput, TestimonyOrComplaint
  <1> QED  BY <1>1, PlainInvariance, PTL

-----------------------------------------------------------------------------
(* Records, log and snapshot, when no two triggers share a second. *)

Active(u) == task[u].pc \notin {"idle", "checked", "done"}

\* Stamps of runs that are under way lie behind the clock, apart from each other
\* and from the tick that may still use its own.
Clocked ==
  /\ tick # None => tick <= clock
  /\ \A u \in Runs : Active(u) => task[u].stamp <= clock /\ task[u].stamp # tick
  /\ \A u, v \in Runs : Active(u) /\ Active(v) /\ task[u].stamp = task[v].stamp => u = v

\* A record in memory or in the snapshot: its branch leads to its own run, and
\* what it says of that run's end is so.
Told(rec) ==
  /\ task[rec.of].pc \notin {"idle", "checked", "push", "skip"}
  /\ rec.branch <= clock /\ rec.branch # tick
  /\ \A u \in Runs : Active(u) => (rec.branch = task[u].stamp <=> rec.of = u)
  /\ rec.state = "skipped_locked" => ended[rec.of] = "skipped_locked"
  /\ rec.state = "aborted" => task[rec.of].pc = "done"
  /\ rec.state \in Verdicts =>
       /\ task[rec.of].pc \in {"release", "log", "done"}
       /\ rec.state = task[rec.of].state /\ rec.missing = task[rec.of].missing

InList(rec, records) == \E i \in DOMAIN records : records[i] = rec

AllTold ==
  \A rec \in Record : InList(rec, ring) \/ InList(rec, disk.ring) => Told(rec)

\* Only what is over is logged.
AllOver ==
  \A e \in Event : e \in log \cup disk.log => task[e.of].pc = "done" /\ e.state # "running"

Apart(records) == \A i, j \in DOMAIN records : records[i].of = records[j].of => i = j

Match(events, records) ==
  \A e \in events, i \in DOMAIN records : records[i].of = e.of => records[i].state = e.state

\* A restart leaves no record running.
Live == \A i \in DOMAIN ring : ring[i].state = "running" => task[ring[i].of].pc \in Underway

\* Before the record of the run in flight come refused triggers only.
Shown ==
  \A r \in Runs : task[r].pc \in Launching \ {"push"} =>
    \/ \E j \in DOMAIN ring :
         ring[j].of = r /\ \A i \in DOMAIN ring : i < j => ring[i].state = "skipped_locked"
    \/ Len(ring) = RingSize /\ \A i \in DOMAIN ring : ring[i].state = "skipped_locked"

Lists ==
  /\ Apart(ring) /\ Match(log, ring)
  /\ Apart(disk.ring) /\ Match(disk.log, disk.ring)

BookInv == PlainInv /\ Clocked /\ AllTold /\ AllOver /\ Lists /\ Live /\ Shown

LEMMA BookInit == Init => BookInv
  <1> SUFFICES ASSUME Init  PROVE BookInv
    OBVIOUS
  <1>1. \A r \in Runs : task[r].pc = "idle"  BY DEF Init, Fresh
  <1>2. tick = None /\ log = {} /\ ring = <<>> /\ disk.ring = <<>> /\ disk.log = {}
    BY DEF Init
  <1>3. DOMAIN <<>> = {}  OBVIOUS
  <1>4. Clocked  BY <1>1, <1>2 DEF Clocked, Active
  <1>5. AllTold /\ AllOver /\ Lists /\ Live
    BY <1>2, <1>3 DEF AllTold, AllOver, Lists, Live, InList, Apart, Match
  <1>6. Shown  BY <1>1 DEF Shown, Launching
  <1> QED  BY <1>4, <1>5, <1>6, PlainInit DEF BookInv

-----------------------------------------------------------------------------
(* The clock. *)

LEMMA NowOK ==
  ASSUME Distinct, NEW now \in Now
  PROVE  now = clock + 1 /\ now \in Stamps
  BY DEF Now

LEMMA ClockedStep ==
  ASSUME BookInv, NEW r \in Runs, \A u \in Runs \ {r} : task'[u] = task[u],
         Active(r), task'[r].pc = "done" \/ task'[r].stamp = task[r].stamp,
         clock' = clock, tick' = tick
  PROVE  Clocked'
  BY DEF BookInv, Clocked, Active

LEMMA StampsOK ==
  ASSUME BookInv
  PROVE  /\ clock \in Nat
         /\ \A u \in Runs : task[u].stamp \in Nat /\ task[u].stamp # None
         /\ tick # None => tick \in Nat
         /\ \A rec \in Record : rec.branch \in Nat /\ rec.branch # None /\ rec.of \in Runs
  BY JobsAssumption
  DEF BookInv, PlainInv, Grounded, FullInv, JobInv, TaskOK, Task, Stamps, Record

LEMMA ClockedOK ==
  ASSUME BookInv, [Next]_vars, Distinct
  PROVE  Clocked'
  <1>0. JobInv /\ Clocked /\ task \in [Runs -> Task]
    BY DEF BookInv, PlainInv, FullInv, JobInv, TaskOK
  <1>1. CASE TickBegin
    <2>1. clock' = clock + 1 /\ tick' = clock' /\ task' = task
      BY <1>1, NowOK DEF TickBegin
    <2> QED  BY <1>0, <2>1, StampsOK DEF Clocked, Active
  <1>2. CASE TickEnds \/ OthersPersist \/ Rest \/ UNCHANGED vars
    <2>1. task' = task /\ clock' = clock /\ tick' \in {tick, None}
      BY <1>2 DEF TickEnds, OthersPersist, Rest, vars
    <2> QED  BY <1>0, <2>1, StampsOK DEF Clocked, Active
  <1>3. ASSUME NEW r \in Runs, TickFires(r)  PROVE Clocked'
    <2>1. /\ task'[r].stamp = tick /\ task'[r].pc \in {"push", "skip"}
          /\ \A u \in Runs \ {r} : task'[u] = task[u]
      BY <1>0, <1>3, ClaimShape DEF TickFires
    <2>2. tick # None /\ tick' = None /\ clock' = clock  BY <1>3 DEF TickFires
    <2> QED  BY <1>0, <2>1, <2>2, StampsOK DEF Clocked, Active
  <1>4. ASSUME NEW r \in Runs, ManualCheck(r)  PROVE Clocked'
    <2>1. /\ task'[r].pc = "checked" /\ \A u \in Runs \ {r} : task'[u] = task[u]
      BY <1>0, <1>4, GotoShape DEF ManualCheck, Pcs
    <2>2. UNCHANGED <<clock, tick>>  BY <1>4 DEF ManualCheck
    <2> QED  BY <1>0, <2>1, <2>2 DEF Clocked, Active
  <1>5. ASSUME NEW r \in Runs, ManualTrigger(r)  PROVE Clocked'
    <2>1. PICK now \in Now : Claim(r, now, FALSE) /\ clock' = now
      BY <1>5 DEF ManualTrigger
    <2>2. now = clock + 1  BY <2>1, NowOK
    <2>3. /\ task'[r].stamp = now /\ task'[r].pc \in {"push", "skip"}
          /\ \A u \in Runs \ {r} : task'[u] = task[u]
      BY <1>0, <2>1, ClaimShape
    <2>4. tick' = tick /\ clock' = clock + 1 /\ task'[r].stamp = clock + 1
      BY <1>5, <2>1, <2>2, <2>3 DEF ManualTrigger
    <2>5. clock \in Nat /\ (tick # None => tick \in Nat /\ tick <= clock) /\ clock + 1 # None
      BY <1>0, <2>1, <2>2, NowOK, StampsOK, JobsAssumption DEF Clocked, Stamps
    <2>6. \A u \in Runs \ {r} : Active(u)' =>
            Active(u) /\ task[u].stamp \in Nat /\ task[u].stamp <= clock /\ task[u].stamp # tick
      BY <1>0, <2>3, StampsOK DEF Clocked, Active
    <2>7. \A u \in Runs \ {r} : Active(u)' =>
            task'[u].stamp < task'[r].stamp /\ task'[u].stamp # tick'
      BY <2>3, <2>4, <2>5, <2>6
    <2>8. task'[r].stamp # tick' /\ (tick' # None => tick' <= clock')
      BY <2>4, <2>5
    <2> QED  BY <1>0, <2>3, <2>4, <2>5, <2>6, <2>7, <2>8 DEF Clocked, Active
  <1>6. ASSUME NEW r \in Runs, NEW pc \in Pcs, Goto(r, pc), UNCHANGED <<clock, tick>>, Active(r)
        PROVE  Clocked'
    <2>1. task'[r].stamp = task[r].stamp /\ \A u \in Runs \ {r} : task'[u] = task[u]
      BY <1>0, <1>6, GotoShape
    <2> QED  BY <1>6, <2>1, ClockedStep
  <1>7. ASSUME NEW r \in Runs, PushSkip(r) \/ PushRunning(r) \/ Settle(r) \/ ReleaseLatch(r)
        PROVE  Clocked'
    <2>1. PICK pc \in {"logskip", "persist", "release", "log"} : Goto(r, pc)
      BY <1>7 DEF PushSkip, PushRunning, Settle, ReleaseLatch
    <2>2. pc \in Pcs  BY DEF Pcs, Launching, Refused
    <2>3. Active(r) /\ clock' = clock /\ tick' = tick
      BY <1>7 DEF PushSkip, PushRunning, Settle, ReleaseLatch, Active
    <2> QED  BY <1>6, <2>1, <2>2, <2>3
  <1>8. ASSUME NEW r \in Runs, Flies(r)  PROVE Clocked'
    <2>1. /\ task[r].pc \in Underway /\ task'[r].stamp = task[r].stamp
          /\ \A u \in Runs \ {r} : task'[u] = task[u]
      BY <1>0, <1>8, FlightShape
    <2>2. clock' = clock /\ tick' = tick
      BY <1>8 DEF Flies, Launch, Prepare, Create, Boot, Exec, Flush, Destroy
    <2>3. Active(r)  BY <2>1 DEF Active, Underway, Launching
    <2> QED  BY <2>1, <2>2, <2>3, ClockedStep
  <1>9. ASSUME NEW r \in Runs, LogEvent(r)  PROVE Clocked'
    <2>1. task'[r].pc = "done" /\ \A u \in Runs \ {r} : task'[u] = task[u]
      BY <1>0, <1>9, LogShape
    <2>2. Active(r) /\ clock' = clock /\ tick' = tick
      BY <1>9 DEF LogEvent, Active
    <2> QED  BY <2>1, <2>2, ClockedStep
  <1>10. CASE Crash
    <2>1. tick' = None  BY <1>10 DEF Crash
    <2> QED  BY <1>10, <2>1, CrashShape DEF Clocked, Active
  <1> QED
    BY <1>1, <1>2, <1>3, <1>4, <1>5, <1>7, <1>8, <1>9, <1>10 DEF Next, Running, Flies

-----------------------------------------------------------------------------
(* What is told of a record stays told. *)

LEMMA StepTold ==
  ASSUME BookInv, NEW r \in Runs, Active(r),
         \A u \in Runs \ {r} : task'[u] = task[u],
         task'[r].pc \notin {"idle", "checked", "push", "skip"},
         task'[r].pc = "done" \/ task'[r].stamp = task[r].stamp,
         task[r].pc \in {"release", "log"} =>
           /\ task'[r].pc \in {"release", "log", "done"}
           /\ task'[r].state = task[r].state /\ task'[r].missing = task[r].missing,
         clock' = clock, tick' = tick,
         \A u \in Runs : ended[u] = "skipped_locked" => ended'[u] = "skipped_locked"
  PROVE  \A rec \in Record : Told(rec) => Told(rec)'
  <1> SUFFICES ASSUME NEW rec \in Record, Told(rec)  PROVE Told(rec)'
    OBVIOUS
  <1>1. rec.of \in Runs  BY StampsOK
  <1>2. /\ task'[rec.of].pc \notin {"idle", "checked", "push", "skip"}
        /\ rec.branch <= clock' /\ rec.branch # tick'
    BY <1>1 DEF Told
  <1>3. \A u \in Runs : Active(u)' => (rec.branch = task'[u].stamp <=> rec.of = u)
    BY DEF Told, Active
  <1>4. rec.state = "skipped_locked" => ended'[rec.of] = "skipped_locked"
    BY <1>1 DEF Told
  <1>5. rec.state = "aborted" => task'[rec.of].pc = "done"
    BY <1>1 DEF Told, Active
  <1>6. rec.state \in Verdicts =>
          /\ task'[rec.of].pc \in {"release", "log", "done"}
          /\ rec.state = task'[rec.of].state /\ rec.missing = task'[rec.of].missing
    BY <1>1 DEF Told, Active
  <1> QED  BY <1>2, <1>3, <1>4, <1>5, <1>6 DEF Told

\* A trigger that has no record yet takes a stamp that no record has.
LEMMA NewTold ==
  ASSUME BookInv, NEW r \in Runs, task[r].pc \in {"idle", "checked"},
         \A u \in Runs \ {r} : task'[u] = task[u],
         task'[r].pc = "checked" \/
           /\ \A rec \in Record : Told(rec) => rec.branch # task'[r].stamp
           /\ task'[r].pc \in {"push", "skip"},
         \A rec \in Record : Told(rec) => rec.branch <= clock' /\ rec.branch # tick',
         \A u \in Runs \ {r} : ended'[u] = ended[u]
  PROVE  \A rec \in Record : Told(rec) => Told(rec)'
  <1> SUFFICES ASSUME NEW rec \in Record, Told(rec)  PROVE Told(rec)'
    OBVIOUS
  <1>1. rec.of \in Runs \ {r}  BY StampsOK DEF Told
  <1>2. \A u \in Runs : Active(u)' => (rec.branch = task'[u].stamp <=> rec.of = u)
    BY <1>1 DEF Told, Active
  <1> QED  BY <1>1, <1>2 DEF Told

LEMMA ToldStays ==
  ASSUME BookInv, [Next]_vars, Distinct
  PROVE  \A rec \in Record : Told(rec) => Told(rec)'
  <1> DEFINE Stays == \A rec \in Record : Told(rec) => Told(rec)'
  <1>0. /\ JobInv /\ Clocked /\ task \in [Runs -> Task]
        /\ ended \in [Runs -> States \cup {"none"}]
        /\ \A u \in Runs : task[u].pc \in Launching => ended[u] = "none"
    BY DEF BookInv, PlainInv, FullInv, JobInv, TaskOK, HistOK
  <1>a. \A rec \in Record : Told(rec) => rec.branch <= clock /\ rec.branch # tick
    BY DEF Told
  <1>1. CASE TickBegin
    <2>1. clock' = clock + 1 /\ tick' = clock' /\ task' = task /\ ended' = ended
      BY <1>1, NowOK DEF TickBegin
    <2> SUFFICES ASSUME NEW rec \in Record, Told(rec)  PROVE Told(rec)'
      OBVIOUS
    <2>2. rec.branch <= clock' /\ rec.branch # tick'
      BY <1>a, <2>1, StampsOK
    <2> QED  BY <2>1, <2>2 DEF Told, Active
  <1>2. CASE TickEnds \/ OthersPersist \/ Rest \/ UNCHANGED vars
    <2>1. task' = task /\ clock' = clock /\ tick' \in {tick, None} /\ ended' = ended
      BY <1>2 DEF TickEnds, OthersPersist, Rest, vars
    <2> SUFFICES ASSUME NEW rec \in Record, Told(rec)  PROVE Told(rec)'
      OBVIOUS
    <2>2. rec.branch <= clock' /\ rec.branch # tick'
      BY <1>a, <2>1, StampsOK
    <2> QED  BY <2>1, <2>2 DEF Told, Active
  <1>b. ASSUME NEW r \in Runs, NEW stamp, NEW cron, Claim(r, stamp, cron)
        PROVE  /\ task'[r].stamp = stamp /\ task'[r].pc \in {"push", "skip"}
               /\ \A u \in Runs \ {r} : task'[u] = task[u] /\ ended'[u] = ended[u]
    BY <1>0, <1>b, ClaimShape
  <1>3. ASSUME NEW r \in Runs, TickFires(r)  PROVE Stays
    <2>1. /\ task'[r].stamp = tick /\ task'[r].pc \in {"push", "skip"}
          /\ \A u \in Runs \ {r} : task'[u] = task[u] /\ ended'[u] = ended[u]
      BY <1>3, <1>b DEF TickFires
    <2>2. tick' = None /\ clock' = clock /\ task[r].pc = "idle"  BY <1>3 DEF TickFires
    <2>3. \A rec \in Record : Told(rec) => rec.branch # task'[r].stamp
      BY <1>a, <2>1
    <2>4. \A rec \in Record : Told(rec) => rec.branch <= clock' /\ rec.branch # tick'
      BY <1>a, <2>2, StampsOK
    <2> QED  BY <2>1, <2>2, <2>3, <2>4, NewTold
  <1>4. ASSUME NEW r \in Runs, ManualCheck(r)  PROVE Stays
    <2>1. /\ task'[r].pc = "checked" /\ \A u \in Runs \ {r} : task'[u] = task[u]
      BY <1>0, <1>4, GotoShape DEF ManualCheck, Pcs
    <2>2. clock' = clock /\ tick' = tick /\ ended' = ended /\ task[r].pc = "idle"
      BY <1>4 DEF ManualCheck
    <2>3. \A rec \in Record : Told(rec) => rec.branch <= clock' /\ rec.branch # tick'
      BY <1>a, <2>2
    <2> QED  BY <2>1, <2>2, <2>3, NewTold
  <1>5. ASSUME NEW r \in Runs, ManualTrigger(r)  PROVE Stays
    <2>1. PICK now \in Now : Claim(r, now, FALSE) /\ clock' = now
      BY <1>5 DEF ManualTrigger
    <2>2. now = clock + 1  BY <2>1, NowOK
    <2>3. /\ task'[r].stamp = now /\ task'[r].pc \in {"push", "skip"}
          /\ \A u \in Runs \ {r} : task'[u] = task[u] /\ ended'[u] = ended[u]
      BY <1>b, <2>1
    <2>4. tick' = tick /\ task[r].pc = "checked"  BY <1>5 DEF ManualTrigger
    <2>5. \A rec \in Record : Told(rec) => rec.branch # task'[r].stamp
      BY <1>a, <2>2, <2>3, StampsOK
    <2>6. \A rec \in Record : Told(rec) => rec.branch <= clock' /\ rec.branch # tick'
      BY <1>a, <2>1, <2>2, <2>4, StampsOK
    <2> QED  BY <2>3, <2>4, <2>5, <2>6, NewTold
  <1>6. ASSUME NEW r \in Runs, PushSkip(r) \/ PushRunning(r) \/ Settle(r)  PROVE Stays
    <2>1. PICK pc \in {"logskip", "persist", "release"} : Goto(r, pc)
      BY <1>6 DEF PushSkip, PushRunning, Settle
    <2>2. pc \in Pcs  BY DEF Pcs, Launching, Refused
    <2>3. /\ task'[r].pc = pc /\ task'[r].stamp = task[r].stamp
          /\ \A u \in Runs \ {r} : task'[u] = task[u]
      BY <1>0, <2>1, <2>2, GotoShape
    <2>4. /\ Active(r) /\ clock' = clock /\ tick' = tick /\ ended' = ended
          /\ task[r].pc \notin {"release", "log"}
      BY <1>6 DEF PushSkip, PushRunning, Settle, Active
    <2> QED  BY <2>3, <2>4, StepTold
  <1>7. ASSUME NEW r \in Runs, ReleaseLatch(r)  PROVE Stays
    <2>1. /\ task'[r].pc = "log" /\ task'[r].stamp = task[r].stamp
          /\ task'[r].state = task[r].state /\ task'[r].missing = task[r].missing
          /\ \A u \in Runs \ {r} : task'[u] = task[u]
      BY <1>0, <1>7, GotoShape DEF ReleaseLatch, Pcs
    <2>2. /\ Active(r) /\ clock' = clock /\ tick' = tick /\ ended[r] = "none"
      BY <1>0, <1>7 DEF ReleaseLatch, Active, Launching
    <2>3. \A u \in Runs : ended[u] = "skipped_locked" => ended'[u] = "skipped_locked"
      BY <1>0, <1>7, <2>2 DEF ReleaseLatch
    <2> QED  BY <2>1, <2>2, <2>3, StepTold
  <1>8. ASSUME NEW r \in Runs, Flies(r)  PROVE Stays
    <2>1. /\ task[r].pc \in Underway /\ task'[r].pc \in Underway
          /\ task'[r].stamp = task[r].stamp
          /\ \A u \in Runs \ {r} : task'[u] = task[u]
      BY <1>0, <1>8, FlightShape
    <2>2. clock' = clock /\ tick' = tick /\ ended' = ended
      BY <1>8 DEF Flies, Launch, Prepare, Create, Boot, Exec, Flush, Destroy
    <2>3. /\ Active(r) /\ task[r].pc \notin {"release", "log"}
          /\ task'[r].pc \notin {"idle", "checked", "push", "skip"}
      BY <2>1 DEF Active, Underway, Launching
    <2> QED  BY <2>1, <2>2, <2>3, StepTold
  <1>9. ASSUME NEW r \in Runs, LogEvent(r)  PROVE Stays
    <2>1. /\ task'[r].pc = "done" /\ \A u \in Runs \ {r} : task'[u] = task[u]
          /\ task'[r].state = task[r].state /\ task'[r].missing = task[r].missing
      BY <1>0, <1>9, LogShape
    <2>2. Active(r) /\ clock' = clock /\ tick' = tick /\ ended' = ended
      BY <1>9 DEF LogEvent, Active
    <2> QED  BY <2>1, <2>2, StepTold
  <1>10. CASE Crash
    <2> SUFFICES ASSUME NEW rec \in Record, Told(rec)  PROVE Told(rec)'
      OBVIOUS
    <2>1. rec.of \in Runs /\ rec.branch # None  BY StampsOK
    <2>2. /\ task'[rec.of].pc = "done" /\ task'[rec.of].state = task[rec.of].state
          /\ task'[rec.of].missing = task[rec.of].missing
      BY <1>10, <2>1, CrashShape DEF Told
    <2>3. tick' = None /\ clock' = clock  BY <1>10 DEF Crash
    <2>4. ended[rec.of] = "skipped_locked" => ended'[rec.of] = "skipped_locked"
      BY <1>0, <1>10, <2>1 DEF Crash
    <2>5. \A u \in Runs : ~Active(u)'
      BY <1>10, CrashShape DEF Active
    <2> QED  BY <2>1, <2>2, <2>3, <2>4, <2>5 DEF Told
  <1> QED
    BY <1>1, <1>2, <1>3, <1>4, <1>5, <1>6, <1>7, <1>8, <1>9, <1>10 DEF Next, Running, Flies

\* What is done stays done.
LEMMA DoneStays ==
  ASSUME BookInv, [Next]_vars, NEW u \in Runs, task[u].pc = "done"
  PROVE  task'[u].pc = "done"
  <1>0. JobInv  BY DEF BookInv, PlainInv, FullInv
  <1>1. ASSUME NEW r \in Runs, TickFires(r) \/ ManualTrigger(r)  PROVE task'[u].pc = "done"
    <2>1. r # u /\ \E stamp, cron : Claim(r, stamp, cron)
      BY <1>1 DEF TickFires, ManualTrigger
    <2> QED  BY <1>0, <2>1, ClaimShape
  <1>2. ASSUME NEW r \in Runs,
               \/ ManualCheck(r) \/ PushSkip(r) \/ PushRunning(r) \/ Settle(r) \/ ReleaseLatch(r)
        PROVE  task'[u].pc = "done"
    <2>1. r # u
      BY <1>2 DEF ManualCheck, PushSkip, PushRunning, Settle, ReleaseLatch
    <2>2. PICK pc \in {"checked", "logskip", "persist", "release", "log"} : Goto(r, pc)
      BY <1>2 DEF ManualCheck, PushSkip, PushRunning, Settle, ReleaseLatch
    <2>3. pc \in Pcs  BY DEF Pcs, Launching, Refused
    <2> QED  BY <1>0, <2>1, <2>2, <2>3, GotoShape
  <1>3. ASSUME NEW r \in Runs, Flies(r)  PROVE task'[u].pc = "done"
    <2>1. task[r].pc \in Underway /\ \A v \in Runs \ {r} : task'[v] = task[v]
      BY <1>0, <1>3, FlightShape
    <2>2. r # u  BY <2>1 DEF Underway, Launching
    <2> QED  BY <2>1, <2>2
  <1>4. ASSUME NEW r \in Runs, LogEvent(r)  PROVE task'[u].pc = "done"
    BY <1>0, <1>4, LogShape
  <1>5. CASE TickBegin \/ TickEnds \/ OthersPersist \/ Rest \/ UNCHANGED vars
    BY <1>5 DEF TickBegin, TickEnds, OthersPersist, Rest, vars
  <1>6. CASE Crash
    BY <1>6, CrashShape
  <1> QED  BY <1>1, <1>2, <1>3, <1>4, <1>5, <1>6 DEF Next, Running, Flies

-----------------------------------------------------------------------------
(* What a step makes of the ring. *)

LEMMA PushShape ==
  ASSUME BookInv, NEW r \in Runs, PushSkip(r) \/ PushRunning(r)
  PROVE  \E rec \in Record :
           /\ rec.of = r /\ rec.branch = task[r].stamp
           /\ \/ PushSkip(r) /\ rec.state = "skipped_locked"
              \/ PushRunning(r) /\ rec.state = "running"
           /\ ring' \in Seq(Record)
           /\ Len(ring') = IF Len(ring) < RingSize THEN Len(ring) + 1 ELSE RingSize
           /\ ring'[1] = rec
           /\ \A i \in 2..Len(ring') : ring'[i] = ring[i - 1] /\ i - 1 \in DOMAIN ring
  <1>1. PICK state \in {"skipped_locked", "running"} :
          /\ ring' = Pushed(NewRecord(r, state))
          /\ \/ PushSkip(r) /\ state = "skipped_locked"
             \/ PushRunning(r) /\ state = "running"
    BY DEF PushSkip, PushRunning
  <1>2. state \in States  BY DEF States
  <1> DEFINE rec == NewRecord(r, state)
  <1>3. rec \in Record /\ rec.of = r /\ rec.branch = task[r].stamp /\ rec.state = state
    BY <1>2, NewRecordOK DEF BookInv, PlainInv, FullInv
  <1> HIDE DEF rec
  <1>4. ring \in Seq(Record) /\ Len(ring) <= RingSize
    BY DEF BookInv, PlainInv, Kept, Written
  <1>5. /\ Pushed(rec) \in Seq(Record)
        /\ Len(Pushed(rec)) = IF Len(ring) < RingSize THEN Len(ring) + 1 ELSE RingSize
        /\ Pushed(rec)[1] = rec
        /\ \A i \in 2..Len(Pushed(rec)) : Pushed(rec)[i] = ring[i - 1] /\ i - 1 \in DOMAIN ring
    BY <1>3, <1>4, PushedOK
  <1>6. ring' = Pushed(rec)  BY <1>1 DEF rec
  <1> QED  BY <1>1, <1>3, <1>5, <1>6

\* A record of the run that settles, and no other, has its branch.
LEMMA SettleShape ==
  ASSUME BookInv, NEW r \in Runs, Settle(r)
  PROVE  \/ ring' = ring /\ \A i \in DOMAIN ring : ring[i].of # r
         \/ \E i \in DOMAIN ring :
              /\ ring' \in Seq(Record) /\ Len(ring') = Len(ring)
              /\ ring[i].of = r /\ ring'[i].of = r
              /\ ring'[i].branch = task[r].stamp
              /\ ring'[i].state = task[r].state /\ ring'[i].missing = task[r].missing
              /\ task[r].state \in Verdicts
              /\ \A j \in DOMAIN ring \ {i} : ring'[j] = ring[j]
  <1> DEFINE s == task[r].stamp
             upd == Updated(s, task[r].state, task[r].missing)
  <1>1. /\ task[r] \in Task /\ ring' = upd /\ Active(r)
        /\ task[r].state \in Verdicts
    BY DEF Settle, Judged, Active, BookInv, PlainInv, FullInv, HistOK, JobInv, TaskOK
  <1>2. task[r].state \in States /\ task[r].missing \in BOOLEAN
    BY <1>1 DEF States, Task
  <1>3. ring \in Seq(Record)  BY DEF BookInv, PlainInv, Kept, Written
  <1>4. \A i \in DOMAIN ring : ring[i].branch = s <=> ring[i].of = r
    <2> SUFFICES ASSUME NEW i \in DOMAIN ring  PROVE ring[i].branch = s <=> ring[i].of = r
      OBVIOUS
    <2>1. PICK rec \in Record : rec = ring[i]  BY <1>3
    <2>2. Told(rec)  BY <2>1 DEF BookInv, AllTold, InList
    <2> QED  BY <1>1, <2>1, <2>2 DEF Told
  <1>5. \/ upd = ring /\ \A i \in DOMAIN ring : ring[i].branch # s
        \/ \E i \in DOMAIN ring :
             /\ ring[i].branch = s /\ upd \in Seq(Record) /\ Len(upd) = Len(ring)
             /\ upd[i].of = ring[i].of
             /\ upd[i].branch = s /\ upd[i].state = task[r].state
             /\ upd[i].missing = task[r].missing
             /\ \A j \in DOMAIN ring \ {i} : upd[j] = ring[j]
    BY <1>2, <1>3, UpdatedShape
  <1> HIDE DEF upd, s
  <1>6. CASE upd = ring /\ \A i \in DOMAIN ring : ring[i].branch # s
    BY <1>1, <1>4, <1>6
  <1>7. ASSUME NEW i \in DOMAIN ring,
               ring[i].branch = s, upd \in Seq(Record), Len(upd) = Len(ring),
               upd[i].of = ring[i].of, upd[i].branch = s, upd[i].state = task[r].state,
               upd[i].missing = task[r].missing, \A j \in DOMAIN ring \ {i} : upd[j] = ring[j]
        PROVE  \E j \in DOMAIN ring :
              /\ ring' \in Seq(Record) /\ Len(ring') = Len(ring)
              /\ ring[j].of = r /\ ring'[j].of = r
              /\ ring'[j].branch = task[r].stamp
              /\ ring'[j].state = task[r].state /\ ring'[j].missing = task[r].missing
              /\ task[r].state \in Verdicts
              /\ \A k \in DOMAIN ring \ {j} : ring'[k] = ring[k]
    BY <1>1, <1>4, <1>7 DEF s
  <1> QED  BY <1>5, <1>6, <1>7

LEMMA RingMoves ==
  ASSUME [Next]_vars
  PROVE  \/ ring' = ring
         \/ Crash
         \/ \E r \in Runs : PushSkip(r) \/ PushRunning(r) \/ Settle(r)
  BY DEF Next, vars, TickBegin, TickEnds, TickFires, ManualCheck, ManualTrigger, Running,
         Launch, Prepare, Create, Boot, Exec, Flush, Destroy,
         ReleaseLatch, LogEvent, OthersPersist, Rest

LEMMA LogMoves ==
  ASSUME [Next]_vars
  PROVE  log' = log \/ Crash \/ \E r \in Runs : LogEvent(r)
  BY DEF Next, vars, TickBegin, TickEnds, TickFires, ManualCheck, ManualTrigger, Running,
         PushSkip, PushRunning, Launch, Prepare, Create, Boot, Exec, Flush, Destroy, Settle,
         ReleaseLatch, OthersPersist, Rest

LEMMA DiskMoves ==
  ASSUME [Next]_vars
  PROVE  disk' = disk \/ (disk'.ring = ring' /\ disk'.log = log')
  <1>1. disk' = disk \/ disk' = [ring |-> ring', log |-> log']
    BY DEF Next, vars, TickBegin, TickEnds, TickFires, ManualCheck, ManualTrigger, Running,
           PushSkip, PushRunning, Launch, Prepare, Create, Boot, Exec, Flush, Destroy, Settle,
           ReleaseLatch, LogEvent, OthersPersist, Crash, Rest, Persisted
  <1>2. CASE disk' = [ring |-> ring', log |-> log']
    BY <1>2
  <1> QED  BY <1>1, <1>2

\* Every record of a list is a record; what is told of it is told in turn.
LEMMA ListTold ==
  ASSUME BookInv
  PROVE  /\ \A i \in DOMAIN ring : ring[i] \in Record /\ Told(ring[i])
         /\ \A i \in DOMAIN disk.ring : disk.ring[i] \in Record
  BY DEF BookInv, PlainInv, Kept, Written, AllTold, InList

LEMMA RingTold ==
  ASSUME BookInv, [Next]_vars, Distinct
  PROVE  \A rec \in Record : InList(rec, ring') => Told(rec)'
  <1> SUFFICES ASSUME NEW rec \in Record, InList(rec, ring')  PROVE Told(rec)'
    OBVIOUS
  <1>0. JobInv /\ Clocked /\ Ends  BY DEF BookInv, PlainInv, FullInv
  <1>1. ASSUME InList(rec, ring) \/ InList(rec, disk.ring)  PROVE Told(rec)'
    BY <1>1, ToldStays DEF BookInv, AllTold
  <1>2. ASSUME NEW r \in Runs, PushSkip(r) \/ PushRunning(r)  PROVE Told(rec)'
    <2>1. PICK new \in Record :
            /\ new.of = r /\ new.branch = task[r].stamp
            /\ \/ PushSkip(r) /\ new.state = "skipped_locked"
               \/ PushRunning(r) /\ new.state = "running"
            /\ ring' \in Seq(Record)
            /\ ring'[1] = new
            /\ \A i \in 2..Len(ring') : ring'[i] = ring[i - 1] /\ i - 1 \in DOMAIN ring
      BY <1>2, PushShape
    <2>2. rec = new \/ InList(rec, ring)
      BY <2>1 DEF InList
    <2>3. CASE rec = new
      <3>1. PICK pc \in {"logskip", "persist"} : Goto(r, pc)
        BY <1>2 DEF PushSkip, PushRunning
      <3>2. /\ task'[r].pc = pc /\ task'[r].stamp = task[r].stamp
            /\ \A u \in Runs \ {r} : task'[u] = task[u]
        <4>1. pc \in Pcs  BY DEF Pcs, Launching, Refused
        <4> QED  BY <1>0, <3>1, <4>1, GotoShape
      <3>3. /\ Active(r) /\ clock' = clock /\ tick' = tick /\ ended' = ended
        BY <1>2 DEF PushSkip, PushRunning, Active
      <3>4. rec.state = "skipped_locked" => ended[r] = "skipped_locked"
        BY <1>0, <2>1, <2>3 DEF PushSkip, Ends, Refused
      <3>5. rec.state \in {"skipped_locked", "running"}  BY <2>1, <2>3
      <3>6. \A u \in Runs : Active(u)' => (rec.branch = task'[u].stamp <=> rec.of = u)
        BY <1>0, <2>1, <2>3, <3>2, <3>3 DEF Clocked, Active
      <3>7. rec.branch <= clock' /\ rec.branch # tick'
        BY <1>0, <2>1, <2>3, <3>3 DEF Clocked
      <3> QED  BY <2>1, <2>3, <3>2, <3>3, <3>4, <3>5, <3>6, <3>7 DEF Told, Verdicts
    <2> QED  BY <1>1, <2>2, <2>3
  <1>3. ASSUME NEW r \in Runs, Settle(r)  PROVE Told(rec)'
    <2>1. ASSUME NEW i \in DOMAIN ring, ring' \in Seq(Record), Len(ring') = Len(ring),
                 ring[i].of = r, ring'[i].of = r, ring'[i].branch = task[r].stamp,
                 ring'[i].state = task[r].state, ring'[i].missing = task[r].missing,
                 task[r].state \in Verdicts,
                 \A j \in DOMAIN ring \ {i} : ring'[j] = ring[j]
          PROVE  Told(rec)'
      <3>1. rec = ring'[i] \/ InList(rec, ring)
        <4>1. DOMAIN ring' = DOMAIN ring
          <5>1. ring \in Seq(Record)  BY DEF BookInv, PlainInv, Kept, Written
          <5> QED  BY <2>1, <5>1
        <4> QED  BY <2>1, <4>1 DEF InList
      <3>2. CASE rec = ring'[i]
        <4>1. /\ task'[r].pc = "release" /\ task'[r].stamp = task[r].stamp
              /\ task'[r].state = task[r].state /\ task'[r].missing = task[r].missing
              /\ \A u \in Runs \ {r} : task'[u] = task[u]
          BY <1>0, <1>3, GotoShape DEF Settle, Pcs, Launching
        <4>2. Active(r) /\ clock' = clock /\ tick' = tick
          BY <1>3 DEF Settle, Active
        <4>3. \A u \in Runs : Active(u)' => (rec.branch = task'[u].stamp <=> rec.of = u)
          BY <1>0, <2>1, <3>2, <4>1, <4>2 DEF Clocked, Active
        <4>4. rec.branch <= clock' /\ rec.branch # tick'
          BY <1>0, <2>1, <3>2, <4>2 DEF Clocked
        <4>5. rec.of = r /\ rec.state = task'[r].state /\ rec.missing = task'[r].missing
              /\ rec.state \in Verdicts
          BY <2>1, <3>2, <4>1
        <4> QED  BY <4>1, <4>3, <4>4, <4>5 DEF Told, Verdicts
      <3> QED  BY <1>1, <3>1, <3>2
    <2> QED  BY <1>1, <1>3, <2>1, SettleShape
  <1>4. CASE Crash
    <2>1. PICK i \in DOMAIN ring' : ring'[i] = rec  BY DEF InList
    <2>2. disk.ring \in Seq(Record) /\ ring' = Hydrated(disk.ring)
      BY <1>4 DEF Crash, BookInv, PlainInv, Kept, Written
    <2>3. /\ i \in DOMAIN disk.ring
          /\ rec.of = disk.ring[i].of /\ rec.branch = disk.ring[i].branch
          /\ rec.missing = disk.ring[i].missing
          /\ rec.state = IF disk.ring[i].state = "running" THEN "aborted"
                                                           ELSE disk.ring[i].state
      BY <2>1, <2>2, HydratedOK
    <2>4. PICK old \in Record : old = disk.ring[i]  BY <2>2, <2>3
    <2>5. Told(old) /\ Told(old)'
      BY <2>3, <2>4, ToldStays DEF BookInv, AllTold, InList
    <2>6. task'[rec.of].pc = "done"
      <3>1. rec.of \in Runs /\ task[rec.of].pc # "idle"
        BY <2>3, <2>4, <2>5, StampsOK DEF Told
      <3> QED  BY <1>4, <3>1, CrashShape
    <2> QED  BY <2>3, <2>4, <2>5, <2>6 DEF Told, Verdicts
  <1> QED  BY <1>1, <1>2, <1>3, <1>4, RingMoves

LEMMA AllToldOK ==
  ASSUME BookInv, [Next]_vars, Distinct
  PROVE  AllTold'
  <1> SUFFICES ASSUME NEW rec \in Record, InList(rec, ring') \/ InList(rec, disk'.ring)
               PROVE  Told(rec)'
    BY DEF AllTold, InList
  <1>1. InList(rec, ring') \/ InList(rec, disk.ring)
    BY DiskMoves
  <1>2. CASE InList(rec, ring')
    BY <1>2, RingTold
  <1>3. CASE InList(rec, disk.ring)
    BY <1>3, ToldStays DEF BookInv, AllTold
  <1> QED  BY <1>1, <1>2, <1>3

LEMMA AllOverOK ==
  ASSUME BookInv, [Next]_vars
  PROVE  AllOver'
  <1> SUFFICES ASSUME NEW e \in Event, e \in log' \cup disk'.log
               PROVE  task'[e.of].pc = "done" /\ e.state # "running"
    BY DEF AllOver
  <1>1. CASE e \in log \cup disk.log
    <2>1. task[e.of].pc = "done" /\ e.state # "running" /\ e.of \in Runs
      BY <1>1 DEF BookInv, AllOver, Event
    <2> QED  BY <2>1, DoneStays
  <1>2. ASSUME NEW r \in Runs, LogEvent(r), e = [of |-> r, state |-> ended[r]]
        PROVE  task'[e.of].pc = "done" /\ e.state # "running"
    <2>1. e.of = r /\ e.state = ended[r]  BY <1>2
    <2>2. ended[r] # "running"
      BY <1>2 DEF LogEvent, BookInv, PlainInv, Ends, Refused, Verdicts
    <2>3. task'[r].pc = "done"  BY <1>2, LogShape DEF BookInv, PlainInv, FullInv
    <2> QED  BY <2>1, <2>2, <2>3
  <1>3. \/ e \in log \cup disk.log
        \/ \E r \in Runs : LogEvent(r) /\ e = [of |-> r, state |-> ended[r]]
    BY LogMoves, DiskMoves DEF LogEvent, Crash
  <1> QED  BY <1>1, <1>2, <1>3

\* A run writes one record, and only before it is over.
LEMMA RingListed ==
  ASSUME BookInv, [Next]_vars, Distinct
  PROVE  Apart(ring') /\ Match(log', ring')
  <1>0. /\ Apart(ring) /\ Match(log, ring) /\ Apart(disk.ring) /\ Match(disk.log, disk.ring)
        /\ \A e \in log : e.of \in Runs /\ task[e.of].pc = "done"
        /\ \A e \in disk.log : e.state # "running"
        /\ ring \in Seq(Record) /\ disk.ring \in Seq(Record)
    BY DEF BookInv, Lists, AllOver, PlainInv, Kept, Written, Event
  <1>1. ASSUME NEW r \in Runs, PushSkip(r) \/ PushRunning(r)
        PROVE  Apart(ring') /\ Match(log', ring')
    <2>1. PICK new :
            /\ new.of = r
            /\ ring' \in Seq(Record)
            /\ ring'[1] = new
            /\ \A i \in 2..Len(ring') : ring'[i] = ring[i - 1] /\ i - 1 \in DOMAIN ring
      BY <1>1, PushShape
    <2>2. log' = log /\ task[r].pc \in {"push", "skip"}
      BY <1>1 DEF PushSkip, PushRunning
    <2>3. \A i \in DOMAIN ring : ring[i].of # r
      BY <2>2, ListTold DEF Told
    <2>4. DOMAIN ring' = 1..Len(ring') /\ Len(ring') \in Nat  BY <2>1
    <2>5. ASSUME NEW i \in DOMAIN ring', NEW j \in DOMAIN ring', ring'[i].of = ring'[j].of
          PROVE  i = j
      <3>1. CASE i = 1 \/ j = 1
        BY <2>1, <2>3, <2>4, <2>5, <3>1
      <3>2. CASE i # 1 /\ j # 1
        <4>1. i \in 2..Len(ring') /\ j \in 2..Len(ring')  BY <2>4, <3>2
        <4>2. ring[i - 1].of = ring[j - 1].of /\ i - 1 \in DOMAIN ring /\ j - 1 \in DOMAIN ring
          BY <2>1, <2>5, <4>1
        <4>3. i - 1 = j - 1  BY <1>0, <4>2 DEF Apart
        <4> QED  BY <4>1, <4>3
      <3> QED  BY <3>1, <3>2
    <2>6. ASSUME NEW e \in log, NEW i \in DOMAIN ring', ring'[i].of = e.of
          PROVE  ring'[i].state = e.state
      <3>1. e.of # r  BY <1>0, <2>2
      <3>2. i \in 2..Len(ring')  BY <2>1, <2>4, <2>6, <3>1
      <3> QED  BY <1>0, <2>1, <2>6, <3>2 DEF Match
    <2> QED  BY <2>2, <2>5, <2>6 DEF Apart, Match
  <1>2. ASSUME NEW r \in Runs, Settle(r)
        PROVE  Apart(ring') /\ Match(log', ring')
    <2>1. log' = log /\ task[r].pc = "settle"  BY <1>2 DEF Settle
    <2>2. ASSUME NEW i \in DOMAIN ring, ring' \in Seq(Record), Len(ring') = Len(ring),
                 ring[i].of = r, ring'[i].of = r,
                 \A j \in DOMAIN ring \ {i} : ring'[j] = ring[j]
          PROVE  Apart(ring') /\ Match(log', ring')
      <3>1. DOMAIN ring' = DOMAIN ring  BY <1>0, <2>2
      <3>2. \A j \in DOMAIN ring : ring'[j].of = ring[j].of  BY <2>2
      <3>3. Apart(ring')  BY <1>0, <3>1, <3>2 DEF Apart
      <3>4. \A e \in log : e.of # r  BY <1>0, <2>1
      <3>5. Match(log, ring')  BY <1>0, <2>2, <3>1, <3>4 DEF Match
      <3> QED  BY <2>1, <3>3, <3>5
    <2> QED  BY <1>0, <1>2, <2>1, <2>2, SettleShape
  <1>3. CASE Crash
    <2>1. ring' = Hydrated(disk.ring) /\ log' = disk.log  BY <1>3 DEF Crash
    <2>2. /\ DOMAIN ring' = DOMAIN disk.ring
          /\ \A i \in DOMAIN disk.ring :
               /\ ring'[i].of = disk.ring[i].of
               /\ disk.ring[i].state # "running" => ring'[i].state = disk.ring[i].state
      BY <1>0, <2>1, HydratedOK
    <2> QED  BY <1>0, <2>1, <2>2 DEF Apart, Match
  <1>4. ASSUME NEW r \in Runs, LogEvent(r)
        PROVE  Apart(ring') /\ Match(log', ring')
    <2>1. /\ ring' = ring /\ log' = log \cup {[of |-> r, state |-> ended[r]]}
          /\ task[r].pc \in {"log", "logskip"}
      BY <1>4 DEF LogEvent
    <2>2. ASSUME NEW i \in DOMAIN ring, ring[i].of = r  PROVE ring[i].state = ended[r]
      <3>1. ring[i] \in Record /\ Told(ring[i])  BY ListTold
      <3>2. ring[i].state # "running"
        BY <2>1, <2>2 DEF BookInv, Live, Underway, Launching
      <3>3. ring[i].state # "aborted"  BY <2>1, <2>2, <3>1 DEF Told
      <3>4. CASE ring[i].state = "skipped_locked"
        BY <2>2, <3>1, <3>4 DEF Told
      <3>5. CASE ring[i].state \in Verdicts
        BY <2>1, <2>2, <3>1, <3>5 DEF Told, BookInv, PlainInv, Ends
      <3>6. ring[i].state \in States  BY <3>1 DEF Record
      <3> QED  BY <3>2, <3>3, <3>4, <3>5, <3>6 DEF States
    <2>3. Match(log', ring)
      <3> SUFFICES ASSUME NEW e \in log', NEW i \in DOMAIN ring, ring[i].of = e.of
                   PROVE  ring[i].state = e.state
        BY DEF Match
      <3>1. CASE e \in log
        BY <1>0, <3>1 DEF Match
      <3>2. CASE e = [of |-> r, state |-> ended[r]]
        BY <2>2, <3>2
      <3> QED  BY <2>1, <3>1, <3>2
    <2> QED  BY <1>0, <2>1, <2>3
  <1>5. CASE ring' = ring /\ log' = log
    BY <1>0, <1>5
  <1>6. \/ Crash \/ (ring' = ring /\ log' = log)
        \/ \E r \in Runs : PushSkip(r) \/ PushRunning(r) \/ Settle(r) \/ LogEvent(r)
    BY RingMoves, LogMoves
  <1> QED  BY <1>1, <1>2, <1>3, <1>4, <1>5, <1>6

LEMMA ListsOK ==
  ASSUME BookInv, [Next]_vars, Distinct
  PROVE  Lists'
  <1>1. Apart(ring') /\ Match(log', ring')  BY RingListed
  <1>2. Apart(disk'.ring) /\ Match(disk'.log, disk'.ring)
    BY <1>1, DiskMoves DEF BookInv, Lists
  <1> QED  BY <1>1, <1>2 DEF Lists, Apart, Match

\* Whatever stands on the ring as running is under way.
LEMMA LiveOK ==
  ASSUME BookInv, [Next]_vars
  PROVE  Live'
  <1>0. /\ JobInv /\ Live /\ Apart(ring) /\ ring \in Seq(Record)
        /\ \A i \in DOMAIN ring : ring[i].of \in Runs /\ Told(ring[i])
    BY ListTold, StampsOK DEF BookInv, PlainInv, FullInv, Kept, Written, Lists
  <1>1. ASSUME ring' = ring,
               \A u \in Runs : task[u].pc \in Underway => task'[u].pc \in Underway
        PROVE  Live'
    BY <1>0, <1>1 DEF Live
  <1>2. ASSUME NEW r \in Runs, task[r].pc \notin Underway, ring' = ring,
               \A u \in Runs \ {r} : task'[u] = task[u]
        PROVE  Live'
    BY <1>1, <1>2
  <1>3. CASE TickBegin \/ TickEnds \/ OthersPersist \/ Rest \/ UNCHANGED vars
    <2>1. ring' = ring /\ task' = task
      BY <1>3 DEF TickBegin, TickEnds, OthersPersist, Rest, vars
    <2> QED  BY <1>1, <2>1
  <1>4. ASSUME NEW r \in Runs, TickFires(r) \/ ManualTrigger(r)  PROVE Live'
    <2>1. /\ \E stamp, cron : Claim(r, stamp, cron)
          /\ task[r].pc \in {"idle", "checked"} /\ ring' = ring
      BY <1>4 DEF TickFires, ManualTrigger
    <2>2. \A u \in Runs \ {r} : task'[u] = task[u]  BY <1>0, <2>1, ClaimShape
    <2>3. task[r].pc \notin Underway  BY <2>1 DEF Underway, Launching
    <2> QED  BY <1>2, <2>1, <2>2, <2>3
  <1>5. ASSUME NEW r \in Runs, ManualCheck(r) \/ ReleaseLatch(r)  PROVE Live'
    <2>1. \A u \in Runs \ {r} : task'[u] = task[u]
      BY <1>0, <1>5, GotoShape DEF ManualCheck, ReleaseLatch, Pcs
    <2>2. task[r].pc \notin Underway /\ ring' = ring
      BY <1>5 DEF ManualCheck, ReleaseLatch, Underway, Launching
    <2> QED  BY <1>2, <2>1, <2>2
  <1>6. ASSUME NEW r \in Runs, LogEvent(r)  PROVE Live'
    <2>1. \A u \in Runs \ {r} : task'[u] = task[u]  BY <1>0, <1>6, LogShape
    <2>2. task[r].pc \notin Underway /\ ring' = ring
      BY <1>6 DEF LogEvent, Underway, Launching
    <2> QED  BY <1>2, <2>1, <2>2
  <1>7. ASSUME NEW r \in Runs, Flies(r)  PROVE Live'
    <2>1. ring' = ring
      BY <1>7 DEF Flies, Launch, Prepare, Create, Boot, Exec, Flush, Destroy
    <2> QED  BY <1>0, <1>1, <1>7, <2>1, FlightShape
  <1>8. ASSUME NEW r \in Runs, PushSkip(r) \/ PushRunning(r)  PROVE Live'
    <2>1. PICK new :
            /\ new.of = r
            /\ \/ PushSkip(r) /\ new.state = "skipped_locked"
               \/ PushRunning(r) /\ new.state = "running"
            /\ ring' \in Seq(Record)
            /\ ring'[1] = new
            /\ \A i \in 2..Len(ring') : ring'[i] = ring[i - 1] /\ i - 1 \in DOMAIN ring
      BY <1>8, PushShape
    <2>2. task[r].pc \in {"push", "skip"}  BY <1>8 DEF PushSkip, PushRunning
    <2>3. \A i \in DOMAIN ring : ring[i].of # r
      BY <1>0, <2>2 DEF Told
    <2>4. \A u \in Runs \ {r} : task'[u] = task[u]
      BY <1>0, <1>8, GotoShape DEF PushSkip, PushRunning, Pcs, Launching, Refused
    <2>5. PushRunning(r) => task'[r].pc \in Underway
      BY <1>0, GotoShape DEF PushRunning, Pcs, Launching, Underway
    <2>6. DOMAIN ring' = 1..Len(ring') /\ Len(ring') \in Nat  BY <2>1
    <2> SUFFICES ASSUME NEW i \in DOMAIN ring', ring'[i].state = "running"
                 PROVE  task'[ring'[i].of].pc \in Underway
      BY DEF Live
    <2>7. CASE i = 1
      BY <2>1, <2>5, <2>7
    <2>8. CASE i # 1
      <3>1. i \in 2..Len(ring')  BY <2>6, <2>8
      <3>2. ring'[i] = ring[i - 1] /\ i - 1 \in DOMAIN ring  BY <2>1, <3>1
      <3> QED  BY <1>0, <2>3, <2>4, <3>2 DEF Live
    <2> QED  BY <2>7, <2>8
  <1>9. ASSUME NEW r \in Runs, Settle(r)  PROVE Live'
    <2>1. \A u \in Runs \ {r} : task'[u] = task[u]
      BY <1>0, <1>9, GotoShape DEF Settle, Pcs, Launching
    <2>2. CASE ring' = ring /\ \A i \in DOMAIN ring : ring[i].of # r
      BY <1>0, <2>1, <2>2 DEF Live
    <2>3. ASSUME NEW i \in DOMAIN ring, ring' \in Seq(Record), Len(ring') = Len(ring),
                 ring[i].of = r, ring'[i].state = task[r].state, task[r].state \in Verdicts,
                 \A j \in DOMAIN ring \ {i} : ring'[j] = ring[j]
          PROVE  Live'
      <3>1. DOMAIN ring' = DOMAIN ring  BY <1>0, <2>3
      <3>2. \A j \in DOMAIN ring \ {i} : ring[j].of # r  BY <1>0, <2>3 DEF Apart
      <3>3. ring'[i].state # "running"  BY <2>3 DEF Verdicts
      <3> QED  BY <1>0, <2>1, <2>3, <3>1, <3>2, <3>3 DEF Live
    <2> QED  BY <1>9, <2>2, <2>3, SettleShape
  <1>10. CASE Crash
    <2>1. disk.ring \in Seq(Record) /\ ring' = Hydrated(disk.ring)
      BY <1>10 DEF Crash, BookInv, PlainInv, Kept, Written
    <2>2. \A i \in DOMAIN ring' : ring'[i].state # "running"
      BY <2>1, HydratedOK
    <2> QED  BY <2>2 DEF Live
  <1> QED
    BY <1>3, <1>4, <1>5, <1>6, <1>7, <1>8, <1>9, <1>10 DEF Next, Running, Flies

\* Refused triggers push the record of the run in flight down, and at last out.
LEMMA SkipShown ==
  ASSUME BookInv, NEW r \in Runs, PushSkip(r)
  PROVE  Shown'
  <1>0. JobInv /\ Shown /\ ring \in Seq(Record) /\ Len(ring) <= RingSize
    BY DEF BookInv, PlainInv, FullInv, Kept, Written
  <1>1. PICK new :
          /\ new.state = "skipped_locked"
          /\ ring' \in Seq(Record)
          /\ Len(ring') = IF Len(ring) < RingSize THEN Len(ring) + 1 ELSE RingSize
          /\ ring'[1] = new
          /\ \A i \in 2..Len(ring') : ring'[i] = ring[i - 1] /\ i - 1 \in DOMAIN ring
    <2>1. ~PushRunning(r)  BY DEF PushSkip, PushRunning
    <2> QED  BY <2>1, PushShape
  <1>2. /\ task'[r].pc = "logskip" /\ \A u \in Runs \ {r} : task'[u] = task[u]
    BY <1>0, GotoShape DEF PushSkip, Pcs, Refused
  <1>3. DOMAIN ring = 1..Len(ring) /\ Len(ring) \in Nat
        /\ DOMAIN ring' = 1..Len(ring') /\ Len(ring') \in Nat
    BY <1>0, <1>1
  <1> SUFFICES ASSUME NEW v \in Runs, task'[v].pc \in Launching \ {"push"}
               PROVE  \/ \E j \in DOMAIN ring' :
                           /\ ring'[j].of = v
                           /\ \A i \in DOMAIN ring' : i < j => ring'[i].state = "skipped_locked"
                      \/ /\ Len(ring') = RingSize
                         /\ \A i \in DOMAIN ring' : ring'[i].state = "skipped_locked"
    BY DEF Shown
  <1>4. task[v].pc \in Launching \ {"push"}
    BY <1>2 DEF Launching
  <1>5. ASSUME NEW k \in Nat, \A i \in DOMAIN ring : i < k => ring[i].state = "skipped_locked"
        PROVE  \A i \in DOMAIN ring' : i < k + 1 => ring'[i].state = "skipped_locked"
    <2> SUFFICES ASSUME NEW i \in DOMAIN ring', i < k + 1
                 PROVE  ring'[i].state = "skipped_locked"
      OBVIOUS
    <2>1. CASE i = 1
      BY <1>1, <2>1
    <2>2. CASE i # 1
      <3>1. i \in 2..Len(ring') /\ i - 1 < k  BY <1>3, <2>2
      <3> QED  BY <1>1, <1>5, <3>1
    <2> QED  BY <2>1, <2>2
  <1>6. ASSUME NEW j \in DOMAIN ring, ring[j].of = v, j + 1 \in DOMAIN ring',
               \A i \in DOMAIN ring : i < j => ring[i].state = "skipped_locked"
        PROVE  \E k \in DOMAIN ring' :
                 /\ ring'[k].of = v
                 /\ \A i \in DOMAIN ring' : i < k => ring'[i].state = "skipped_locked"
    <2>1. j \in Nat /\ j + 1 \in 2..Len(ring') /\ j + 1 - 1 = j  BY <1>3, <1>6
    <2>2. ring'[j + 1] = ring[j]  BY <1>1, <2>1
    <2>3. \A i \in DOMAIN ring' : i < j + 1 => ring'[i].state = "skipped_locked"
      BY <1>5, <1>6, <2>1
    <2> QED  BY <1>6, <2>2, <2>3
  <1>7. ASSUME Len(ring) = RingSize,
               \A i \in DOMAIN ring : i < RingSize => ring[i].state = "skipped_locked"
        PROVE  /\ Len(ring') = RingSize
               /\ \A i \in DOMAIN ring' : ring'[i].state = "skipped_locked"
    <2>1. RingSize \in Nat /\ Len(ring') = RingSize  BY <1>1, <1>7, JobsAssumption
    <2>2. \A i \in DOMAIN ring' : i < RingSize + 1  BY <1>3, <2>1
    <2> QED  BY <1>5, <1>7, <2>1, <2>2
  <1>8. ASSUME NEW j \in DOMAIN ring, ring[j].of = v,
               \A i \in DOMAIN ring : i < j => ring[i].state = "skipped_locked"
        PROVE  \/ \E k \in DOMAIN ring' :
                           /\ ring'[k].of = v
                           /\ \A i \in DOMAIN ring' : i < k => ring'[i].state = "skipped_locked"
               \/ /\ Len(ring') = RingSize
                  /\ \A i \in DOMAIN ring' : ring'[i].state = "skipped_locked"
    <2>1. CASE j + 1 \in DOMAIN ring'
      BY <1>6, <1>8, <2>1
    <2>2. CASE j + 1 \notin DOMAIN ring'
      <3>1. j = RingSize /\ Len(ring) = RingSize
        <4>1. PICK n \in Nat, m \in Nat :
                /\ n = Len(ring) /\ m = Len(ring')
                /\ j \in 1..n /\ j + 1 \notin 1..m
          BY <1>3, <2>2
        <4>2. n <= RingSize /\ m = IF n < RingSize THEN n + 1 ELSE RingSize
          BY <1>0, <1>1, <4>1
        <4>3. j = RingSize /\ n = RingSize
          BY <4>1, <4>2, JobsAssumption
        <4> QED  BY <4>1, <4>3
      <3> QED  BY <1>7, <1>8, <3>1
    <2> QED  BY <2>1, <2>2
  <1>9. CASE Len(ring) = RingSize /\ \A i \in DOMAIN ring : ring[i].state = "skipped_locked"
    BY <1>7, <1>9
  <1> QED  BY <1>0, <1>4, <1>8, <1>9 DEF Shown

\* The run that settles keeps its place in the list.
LEMMA SettleShown ==
  ASSUME BookInv, NEW r \in Runs, Settle(r)
  PROVE  Shown'
  <1>0. JobInv /\ Shown /\ Apart(ring) /\ ring \in Seq(Record)
        /\ ended[r] = "none" /\ task[r].pc \in Launching \ {"push"}
    BY DEF BookInv, PlainInv, FullInv, HistOK, Kept, Written, Lists, Settle, Launching
  <1>1. \A u \in Runs \ {r} : task'[u].pc \notin Launching
    <2>1. \A u \in Runs \ {r} : task'[u] = task[u]
      BY <1>0, GotoShape DEF Settle, Pcs, Launching
    <2> QED  BY <1>0, <2>1 DEF JobInv, Latched
  <1>2. \A i \in DOMAIN ring : ring[i].of = r => ring[i].state # "skipped_locked"
    BY <1>0, ListTold DEF Told
  <1>3. CASE ring' = ring
    BY <1>0, <1>1, <1>3 DEF Shown
  <1>4. ASSUME NEW i \in DOMAIN ring, ring' \in Seq(Record), Len(ring') = Len(ring),
               ring[i].of = r, ring'[i].of = r,
               \A j \in DOMAIN ring \ {i} : ring'[j] = ring[j]
        PROVE  Shown'
    <2>1. DOMAIN ring' = DOMAIN ring  BY <1>0, <1>4
    <2>2. PICK j \in DOMAIN ring :
            ring[j].of = r /\ \A k \in DOMAIN ring : k < j => ring[k].state = "skipped_locked"
      BY <1>0, <1>2, <1>4 DEF Shown
    <2>3. j = i  BY <1>0, <1>4, <2>2 DEF Apart
    <2>4. \A k \in DOMAIN ring' : k < i => ring'[k].state = "skipped_locked"
      <3>1. DOMAIN ring = 1..Len(ring)  BY <1>0
      <3>2. \A k \in DOMAIN ring' : k < i => k # i  BY <2>1, <3>1
      <3> QED  BY <1>4, <2>1, <2>2, <2>3, <3>2
    <2> QED  BY <1>1, <1>4, <2>1, <2>4 DEF Shown
  <1> QED  BY <1>3, <1>4, SettleShape

LEMMA ShownOK ==
  ASSUME BookInv, [Next]_vars
  PROVE  Shown'
  <1>0. JobInv /\ Shown  BY DEF BookInv, PlainInv, FullInv
  <1>1. ASSUME ring' = ring,
               \A u \in Runs : task'[u].pc \in Launching \ {"push"} =>
                                 task[u].pc \in Launching \ {"push"}
        PROVE  Shown'
    BY <1>0, <1>1 DEF Shown
  <1>2. ASSUME NEW r \in Runs, ring' = ring, \A u \in Runs \ {r} : task'[u] = task[u],
               \/ task'[r].pc \notin Launching \ {"push"}
               \/ task[r].pc \in Launching \ {"push"}
        PROVE  Shown'
    BY <1>1, <1>2
  <1>3. CASE TickBegin \/ TickEnds \/ OthersPersist \/ Rest \/ UNCHANGED vars
    <2>1. ring' = ring /\ task' = task
      BY <1>3 DEF TickBegin, TickEnds, OthersPersist, Rest, vars
    <2> QED  BY <1>1, <2>1
  <1>4. ASSUME NEW r \in Runs, TickFires(r) \/ ManualTrigger(r)  PROVE Shown'
    <2>1. /\ \E stamp, cron : Claim(r, stamp, cron)
          /\ ring' = ring
      BY <1>4 DEF TickFires, ManualTrigger
    <2>2. /\ task'[r].pc \in {"push", "skip"}
          /\ \A u \in Runs \ {r} : task'[u] = task[u]
      BY <1>0, <2>1, ClaimShape
    <2>3. task'[r].pc \notin Launching \ {"push"}  BY <2>2 DEF Launching
    <2> QED  BY <1>2, <2>1, <2>2, <2>3
  <1>5. ASSUME NEW r \in Runs, ManualCheck(r) \/ ReleaseLatch(r)  PROVE Shown'
    <2>1. /\ task'[r].pc \in {"checked", "log"}
          /\ \A u \in Runs \ {r} : task'[u] = task[u]
      BY <1>0, <1>5, GotoShape DEF ManualCheck, ReleaseLatch, Pcs
    <2>2. task'[r].pc \notin Launching \ {"push"} /\ ring' = ring
      BY <1>5, <2>1 DEF ManualCheck, ReleaseLatch, Launching
    <2> QED  BY <1>2, <2>1, <2>2
  <1>6. ASSUME NEW r \in Runs, LogEvent(r)  PROVE Shown'
    <2>1. /\ task'[r].pc = "done" /\ \A u \in Runs \ {r} : task'[u] = task[u]
      BY <1>0, <1>6, LogShape
    <2>2. task'[r].pc \notin Launching \ {"push"} /\ ring' = ring
      BY <1>6, <2>1 DEF LogEvent, Launching
    <2> QED  BY <1>2, <2>1, <2>2
  <1>7. ASSUME NEW r \in Runs, Flies(r)  PROVE Shown'
    <2>1. ring' = ring
      BY <1>7 DEF Flies, Launch, Prepare, Create, Boot, Exec, Flush, Destroy
    <2>2. task[r].pc \in Launching \ {"push"} /\ \A u \in Runs \ {r} : task'[u] = task[u]
      BY <1>0, <1>7, FlightShape DEF Underway
    <2> QED  BY <1>2, <2>1, <2>2
  <1>8. ASSUME NEW r \in Runs, PushRunning(r)  PROVE Shown'
    <2>1. \A u \in Runs \ {r} : task'[u].pc \notin Launching
      <3>1. \A u \in Runs \ {r} : task'[u] = task[u]
        BY <1>0, <1>8, GotoShape DEF PushRunning, Pcs, Launching
      <3>2. task[r].pc \in Launching  BY <1>8 DEF PushRunning, Launching
      <3> QED  BY <1>0, <3>1, <3>2 DEF JobInv, Latched
    <2>2. PICK new :
            /\ new.of = r /\ ring'[1] = new /\ ring' \in Seq(Record)
            /\ Len(ring') = IF Len(ring) < RingSize THEN Len(ring) + 1 ELSE RingSize
      BY <1>8, PushShape
    <2>3. Len(ring) \in Nat  BY DEF BookInv, PlainInv, Kept, Written
    <2>4. 1 \in DOMAIN ring' /\ \A i \in DOMAIN ring' : ~(i < 1)
      BY <2>2, <2>3, JobsAssumption
    <2> QED  BY <2>1, <2>2, <2>4 DEF Shown
  <1>9. CASE Crash
    <2>1. \A u \in Runs : task'[u].pc \notin Launching
      BY <1>9, CrashShape DEF Launching
    <2> QED  BY <2>1 DEF Shown
  <1> QED
    BY <1>3, <1>4, <1>5, <1>6, <1>7, <1>8, <1>9, SkipShown, SettleShown DEF Next, Running, Flies

LEMMA BookNext == Distinct /\ BookInv /\ [Next]_vars => BookInv'
  <1> SUFFICES ASSUME Distinct, BookInv, [Next]_vars  PROVE BookInv'
    OBVIOUS
  <1>1. PlainInv'  BY PlainNext DEF BookInv
  <1> QED  BY <1>1, ClockedOK, AllToldOK, AllOverOK, ListsOK, LiveOK, ShownOK DEF BookInv

LEMMA BookInvariance ==
  ASSUME Distinct
  PROVE  Spec => []BookInv
  <1>1. BookInv /\ [Next]_vars => BookInv'  BY BookNext
  <1> QED  BY <1>1, BookInit, PTL DEF Spec

\* With one trigger a second, a record is about the run that wrote it: "running"
\* while that run is in flight, else what it came to; after any crash, too.
THEOREM RecordsTrue ==
  ASSUME Distinct
  PROVE  Spec => []RecordsTellTheTruth
  <1>1. BookInv => RecordsTellTheTruth
    <2> SUFFICES ASSUME BookInv, NEW i \in DOMAIN ring
                 PROVE  LET rec == ring[i]
                        IN  /\ rec.state = "running" => task[rec.of].pc \in Launching
                            /\ rec.state = "skipped_locked" => ended[rec.of] = "skipped_locked"
                            /\ rec.state \in Verdicts => /\ rec.state = task[rec.of].state
                                                         /\ rec.missing = task[rec.of].missing
      BY DEF RecordsTellTheTruth
    <2> QED  BY ListTold DEF BookInv, Live, Told, Underway
  <1> QED  BY <1>1, BookInvariance, PTL

\* With one trigger a second, log and records tell one story, whatever snapshot a
\* crash leaves of them.
THEOREM LogAgrees ==
  ASSUME Distinct
  PROVE  Spec => []LogAgreesWithRecords
  <1>1. BookInv => LogAgreesWithRecords
    BY DEF BookInv, Lists, Match, LogAgreesWithRecords
  <1> QED  BY <1>1, BookInvariance, PTL

\* With one trigger a second, the run in flight is listed until refused triggers
\* alone fill the ring, however long the ring is.
THEOREM FlightListed ==
  ASSUME Distinct
  PROVE  Spec => []InFlightListed
  <1>1. BookInv => InFlightListed
    BY DEF BookInv, Shown, InFlightListed
  <1> QED  BY <1>1, BookInvariance, PTL

=============================================================================
