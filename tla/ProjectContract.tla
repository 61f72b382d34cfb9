-------------------------- MODULE ProjectContract ---------------------------
(***************************************************************************)
(* What the control plane promises the people who work on one project:     *)
(* sessions produce work, master only ever gains work some session         *)
(* produced, and a session ends once, with a word that is true: "merged"   *)
(* only when everything it produced is in master. Ended, it produces no    *)
(* more. SessionLifecycle implements this.                                 *)
(***************************************************************************)
CONSTANTS Sessions, Work, None

VARIABLES
  author,   \* the session that produced a unit of work, None before
  master,   \* the work in master
  outcome   \* how a session ended, "none" while it has not

vars == <<author, master, outcome>>

Produced == {w \in Work : author[w] # None}
Of(s)    == {w \in Work : author[w] = s}

Init ==
  /\ author = [w \in Work |-> None]
  /\ master = {}
  /\ outcome = [s \in Sessions |-> "none"]

Produce(s, w) ==
  /\ outcome[s] = "none"
  /\ author[w] = None
  /\ author' = [author EXCEPT ![w] = s]
  /\ UNCHANGED <<master, outcome>>

Land ==
  /\ \E W \in SUBSET Produced : master' = master \cup W
  /\ UNCHANGED <<author, outcome>>

End(s, how) ==
  /\ outcome[s] = "none"
  /\ how = "merged" => Of(s) \subseteq master
  /\ outcome' = [outcome EXCEPT ![s] = how]
  /\ UNCHANGED <<author, master>>

Next ==
  \/ \E s \in Sessions, w \in Work : Produce(s, w)
  \/ Land
  \/ \E s \in Sessions, how \in {"merged", "debt", "reaped"} : End(s, how)

Spec == Init /\ [][Next]_vars

-----------------------------------------------------------------------------

TypeOK ==
  /\ author \in [Work -> Sessions \cup {None}]
  /\ master \subseteq Work
  /\ outcome \in [Sessions -> {"none", "merged", "debt", "reaped"}]

\* A session that ended as merged has all its work in master, for ever, and
\* master holds nothing but work that was produced.
MergedIsInMaster ==
  /\ \A s \in Sessions : outcome[s] = "merged" => Of(s) \subseteq master
  /\ master \subseteq Produced

=============================================================================
