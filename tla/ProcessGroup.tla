---------------------------- MODULE ProcessGroup ----------------------------
(***************************************************************************)
(* One bounded subprocess: a command in a process group of its own, read   *)
(* until it ends or the deadline passes, then killed, scanned until quiet  *)
(* and only then reaped.                                                   *)
(*                                                                         *)
(* Code: shared/bounded_process.rs, and the editor's group of              *)
(* ide-agent/process.rs, which uses the same scan. Processes and /proc are *)
(* external; a process that leaves the group is not followed.              *)
(***************************************************************************)
EXTENDS Naturals

CONSTANTS
  Leader,    \* the direct child: its pid names the group
  Children   \* what it may fork, the leader apart

ASSUME ProcessAssumption == Leader \notin Children

VARIABLES
  proc,      \* external: each process of the group
  stage,     \* what output_until_observed is doing
  visited,   \* the processes the running scan of /proc has passed as dead
  quiet      \* consecutive quiet passes

processVars == <<proc, stage, visited, quiet>>

-----------------------------------------------------------------------------
Procs == {Leader} \cup Children

\* A process that was sent SIGKILL is dying: it forks no more, but may still write.
ProcState == {"none", "live", "dying", "zombie", "gone"}
Stage     == {"reading", "kill", "scan", "reap", "returned"}

Alive(p) == proc[p] \in {"live", "dying"}

ProcessInit ==
  /\ proc = [p \in Procs |-> IF p = Leader THEN "live" ELSE "none"]
  /\ stage = "reading"
  /\ visited = {}
  /\ quiet = 0

-----------------------------------------------------------------------------
(* External: the group *)

Fork(p, q) ==
  /\ proc[p] = "live"
  /\ proc[q] = "none"
  /\ proc' = [proc EXCEPT ![q] = "live"]
  /\ UNCHANGED <<stage, visited, quiet>>

\* The leader stays a zombie until it is reaped, others are reaped by init.
Exit(p) ==
  /\ Alive(p)
  /\ proc' = [proc EXCEPT ![p] = IF p = Leader THEN "zombie" ELSE "gone"]
  /\ UNCHANGED <<stage, visited, quiet>>

-----------------------------------------------------------------------------
(* output_until_observed *)

\* Both pipes closed and the leader exited, or the deadline, an error, too much
\* output: either way finish runs, in Drop if nowhere else.
ReadEnds ==
  /\ stage = "reading"
  /\ stage' = "kill"
  /\ UNCHANGED <<proc, visited, quiet>>

\* Mutant: only the leader is killed.
KillLeader ==
  /\ stage = "kill"
  /\ proc' = [proc EXCEPT ![Leader] = IF @ = "live" THEN "dying" ELSE @]
  /\ stage' = "scan"
  /\ visited' = {}
  /\ UNCHANGED quiet

\* A pass of finish: whoever is in the group is sent SIGKILL, then the scan begins.
KillGroup ==
  /\ stage = "kill"
  /\ proc' = [p \in Procs |-> IF proc[p] = "live" THEN "dying" ELSE proc[p]]
  /\ stage' = "scan"
  /\ visited' = {}
  /\ UNCHANGED quiet

\* waitid, kill, /proc or wait failed: nothing is known, the passes start over.
PassFails ==
  /\ stage \in {"kill", "scan", "reap"}
  /\ stage' = "kill"
  /\ quiet' = 0
  /\ UNCHANGED <<proc, visited>>

\* group_quiet_filtered looks at one entry after the other; processes come and go
\* in between, and an entry not yet there when its number came is missed.
ScanPasses(p) ==
  /\ stage = "scan"
  /\ p \notin visited
  /\ ~Alive(p)
  /\ visited' = visited \cup {p}
  /\ UNCHANGED <<proc, stage, quiet>>

ScanFinds(p) ==
  /\ stage = "scan"
  /\ p \notin visited
  /\ Alive(p)
  /\ stage' = "kill"
  /\ quiet' = 0
  /\ UNCHANGED <<proc, visited>>

\* The whole inventory was quiet, the leader among it: twice in a row to reap.
ScanQuiet ==
  /\ stage = "scan"
  /\ visited = Procs
  /\ quiet' = quiet + 1
  /\ stage' = IF quiet + 1 >= 2 THEN "reap" ELSE "kill"
  /\ UNCHANGED <<proc, visited>>

\* wait: the leader's number, and with it the group's, may be used again.
Reap ==
  /\ stage = "reap"
  /\ proc' = [proc EXCEPT ![Leader] = "gone"]
  /\ stage' = "returned"
  /\ UNCHANGED <<visited, quiet>>

Supervisor ==
  \/ ReadEnds \/ KillGroup \/ PassFails \/ ScanQuiet \/ Reap
  \/ \E p \in Procs : ScanPasses(p) \/ ScanFinds(p)

ProcessNext ==
  \/ ReadEnds \/ KillGroup \/ PassFails \/ ScanQuiet \/ Reap
  \/ \E p \in Procs : ScanPasses(p) \/ ScanFinds(p) \/ Exit(p)
  \/ \E p, q \in Procs : Fork(p, q)

ProcessSpec == ProcessInit /\ [][ProcessNext]_processVars

-----------------------------------------------------------------------------
(* Properties *)

ProcessTypeOK ==
  /\ proc \in [Procs -> ProcState]
  /\ stage \in Stage
  /\ visited \subseteq Procs
  /\ quiet \in 0..2

\* Once the call returned, and the lock on the repository with it, nothing of the
\* group is left that could write: not a child forked while the group was killed or
\* scanned, nor one still dying.
NothingOutlivesItsCall ==
  stage = "returned" => \A p \in Procs : proc[p] \in {"none", "gone"}

\* Why it holds: past the first kill nobody is left to fork, and what the scan passed
\* as dead stays dead.
QuietIsKept ==
  /\ stage \in {"scan", "reap"} => \A p \in Procs : proc[p] # "live"
  /\ stage \in {"scan", "reap"} => \A p \in visited : ~Alive(p)
  /\ stage = "reap" => visited = Procs

=============================================================================
