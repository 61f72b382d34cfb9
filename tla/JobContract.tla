----------------------------- MODULE JobContract -----------------------------
(***************************************************************************)
(* What the owner of a job is promised (docs/sigiled-contract.md, section  *)
(* 7): its runs never overlap, each one ends in exactly one way, and a run *)
(* that succeeded without a complaint left its output on its branch.       *)
(***************************************************************************)
CONSTANTS Runs, None

VARIABLES
  current,    \* the run in flight
  published,  \* the runs whose output reached their branch
  ended,      \* how each run ended
  complained  \* the runs whose record says that the output is missing

vars == <<current, published, ended, complained>>

Endings == {"succeeded", "failed", "error"}

Init ==
  /\ current = None
  /\ published = {}
  /\ ended = [r \in Runs |-> "none"]
  /\ complained = {}

Begin(r) ==
  /\ current = None
  /\ ended[r] = "none"
  /\ current' = r
  /\ UNCHANGED <<published, ended, complained>>

\* A held latch at fire time is recorded, not silent.
Skip(r) ==
  /\ current # None
  /\ r # current
  /\ ended[r] = "none"
  /\ ended' = [ended EXCEPT ![r] = "skipped_locked"]
  /\ UNCHANGED <<current, published, complained>>

Publish ==
  /\ current # None
  /\ published' = published \cup {current}
  /\ UNCHANGED <<current, ended, complained>>

End(how) ==
  /\ current # None
  /\ \/ how = "error" /\ UNCHANGED complained
     \/ current \in published /\ UNCHANGED complained
     \/ complained' = complained \cup {current}
  /\ ended' = [ended EXCEPT ![current] = how]
  /\ current' = None
  /\ UNCHANGED published

Abort ==
  /\ current # None
  /\ ended' = [ended EXCEPT ![current] = "aborted"]
  /\ current' = None
  /\ UNCHANGED <<published, complained>>

Next ==
  \/ \E r \in Runs : Begin(r) \/ Skip(r)
  \/ Publish
  \/ \E how \in Endings : End(how)
  \/ Abort

Spec == Init /\ [][Next]_vars

=============================================================================
