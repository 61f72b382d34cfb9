----------------------------- MODULE Enrollment -----------------------------
(***************************************************************************)
(* One project's enrollment in Memory: revisions of what is to be indexed, *)
(* reconciliations that overlap, the external service that asks back and   *)
(* accepts some time after the answer, even when its caller is gone,       *)
(* refused snapshots, restarts, and the correction of a namespace somebody *)
(* else owns.                                                              *)
(*                                                                         *)
(* Code: sigiledd/src/enrollment.rs, with the observation it gets from     *)
(* ecosystem.rs and the repair of main.rs. Memory is external.             *)
(***************************************************************************)
EXTENDS Naturals

CONSTANTS
  Reconcilers,  \* calls of reconcile, with a caller's token
  LastCommit,   \* bound on the commits master moves through
  Disabling,    \* commits whose manifest switches memory off
  LastRevision, \* bound on the revisions of the enrollment
  TakenByOther  \* is the project's own namespace owned by somebody else?

ASSUME EnrollmentAssumption ==
  /\ LastCommit \in Nat \ {0}
  /\ Disabling \subseteq 1..LastCommit
  /\ LastRevision \in Nat \ {0}
  /\ TakenByOther \subseteq BOOLEAN

VARIABLES
  head,       \* the accepted commit: master of the mirror
  enrolled,   \* Descriptor.memory_enrollment
  enrollDisk, \* the enrollment of the last snapshot
  reconciler, \* the calls, and what Memory does about the POST of each
  index,      \* external: what Memory holds for each namespace
  claimed     \* external: the project's own namespace belongs to another

enrollmentVars == <<head, enrolled, enrollDisk, reconciler, index, claimed>>

-----------------------------------------------------------------------------
Commits0   == 0..LastCommit
Namespaces == {"project", "separate"}
Phases == {"awaiting", "disabled", "pending", "indexed", "projection_pending",
           "uncertain", "failed", "conflict", "update_required", "unavailable"}

\* Snapshot: the documents are those of its commit. Revision 0 is none.
Snapshot   == [revision: Nat, commit: Commits0]
NoSnapshot == [revision |-> 0, commit |-> 0]

Enrolled == [phase: Phases, revision: Nat, desired: Commits0, snapshot: Snapshot,
             confirmed: Snapshot, namespace: Namespaces]

\* Mutant: the phase does not tell of a refused snapshot.
UpdatedSilently(e) ==
  enrolled' = e /\ enrollDisk' \in {enrollDisk, e}

\* update: in memory, then the snapshot; if that is refused the phase says so. In
\* between another component's snapshot may have taken the change along.
Updated(e) ==
  \/ enrolled' = e /\ enrollDisk' = e
  \/ enrolled' = [e EXCEPT !.phase = "uncertain"] /\ enrollDisk' \in {enrollDisk, e}

\* Enrollment::observe: a new commit is a new revision; nothing happens to an
\* enrollment whose last change may be lost.
Observe(e, commit) ==
  IF e.phase = "uncertain" THEN e
  ELSE LET seen == IF e.desired = commit THEN e
                   ELSE [e EXCEPT !.revision = @ + 1, !.desired = commit,
                                  !.snapshot = NoSnapshot, !.phase = "awaiting"]
       IN  IF commit \in Disabling THEN [seen EXCEPT !.phase = "disabled"] ELSE seen

ReconcilerPcs == {"idle", "collect", "refused", "named", "posted", "answered", "over"}
Answers0      == {"none", "indexed", "pending", "unauthorized", "conflict", "update", "error"}

\* "memory" is external: the POST is with Memory, which may have asked back by now. It
\* goes on whether or not the caller still waits.
Reconciler == [pc: ReconcilerPcs, snapshot: Snapshot, namespace: Namespaces,
               answer: Answers0, memory: {"none", "asked", "validated"}]
NoReconciler == [pc |-> "idle", snapshot |-> NoSnapshot, namespace |-> "project",
                 answer |-> "none", memory |-> "none"]

EnrollmentInit ==
  /\ head = 1
  /\ enrolled = [phase |-> "awaiting", revision |-> 0, desired |-> 0,
                 snapshot |-> NoSnapshot, confirmed |-> NoSnapshot, namespace |-> "project"]
  /\ enrollDisk = enrolled
  /\ reconciler = [r \in Reconcilers |-> NoReconciler]
  /\ index = [n \in Namespaces |-> NoSnapshot]
  /\ claimed \in TakenByOther

To(r, pc) == reconciler' = [reconciler EXCEPT ![r].pc = pc]

\* The call is over; of it remains what Memory may still do.
Over(c) == IF c.memory = "none" THEN [NoReconciler EXCEPT !.pc = "over"]
                                ELSE [c EXCEPT !.pc = "over", !.answer = "none"]
Ended(r) == reconciler' = [reconciler EXCEPT ![r] = Over(@)]

-----------------------------------------------------------------------------
\* A refresh of the descriptor, by the repair loop or as reconcile's first step,
\* observes the head under the project lock. Its refused snapshot is the
\* descriptor's error, not the enrollment's.
Observes ==
  /\ enrolled' = Observe(enrolled, head)
  /\ enrolled'.revision <= LastRevision
  /\ enrollDisk' \in {enrolled', enrollDisk}

RefreshObserves ==
  /\ Observes
  /\ UNCHANGED <<head, reconciler, index, claimed>>

ReconcileBegin(r) ==
  /\ reconciler[r].pc = "idle"
  /\ Observes
  /\ To(r, "collect")
  /\ UNCHANGED <<head, index, claimed>>

\* Under the lock: nothing to do without memory, an authorization still needed, or a
\* last change that may be lost.
ReconcileNotNow(r) ==
  /\ reconciler[r].pc = "collect"
  /\ \/ /\ enrolled.phase = "uncertain" \/ enrolled.desired \in Disabling
        /\ UNCHANGED <<enrolled, enrollDisk>>
     \/ /\ enrolled.phase # "uncertain"
        /\ Updated([enrolled EXCEPT !.phase = "awaiting"])
  /\ Ended(r)
  /\ UNCHANGED <<head, index, claimed>>

\* collect: the documents of the desired commit, which must still be master's, saved
\* with the actor before Memory is called; all under the project lock. A refused
\* snapshot ends it like a document that cannot be taken.
Collect(r) ==
  /\ reconciler[r].pc = "collect"
  /\ enrolled.phase # "uncertain"
  /\ enrolled.desired \notin Disabling
  /\ head = enrolled.desired
  /\ LET s == [revision |-> enrolled.revision, commit |-> enrolled.desired]
     IN  /\ Updated([enrolled EXCEPT !.snapshot = s, !.phase = "pending"])
         /\ reconciler' = [reconciler EXCEPT
              ![r].pc = IF enrolled'.phase = "pending" THEN "named" ELSE "refused",
              ![r].snapshot = s]
  /\ UNCHANGED <<head, index, claimed>>

\* fail: only the revision that failed is marked; the write itself may be refused.
Fail(revision, phase) ==
  Updated(IF enrolled.revision = revision THEN [enrolled EXCEPT !.phase = phase] ELSE enrolled)

CollectRefuses(r) ==
  /\ reconciler[r].pc = "collect"
  /\ enrolled.phase # "uncertain"
  /\ enrolled.desired \notin Disabling
  /\ reconciler' = [reconciler EXCEPT
       ![r].pc = "refused",
       ![r].snapshot = [revision |-> enrolled.revision, commit |-> enrolled.desired]]
  /\ UNCHANGED <<head, enrolled, enrollDisk, index, claimed>>

\* The lock is free by then, and the revision may be another.
CollectFails(r) ==
  /\ reconciler[r].pc = "refused"
  /\ Fail(reconciler[r].snapshot.revision, "failed")
  /\ Ended(r)
  /\ UNCHANGED <<head, index, claimed>>

\* The namespace is read and the snapshot sent, no lock is held from here on.
Named(r) ==
  /\ reconciler[r].pc = "named"
  /\ reconciler' = [reconciler EXCEPT ![r].pc = "posted", ![r].memory = "asked",
                                      ![r].namespace = enrolled.namespace]
  /\ UNCHANGED <<head, enrolled, enrollDisk, index, claimed>>

\* validate: Memory asks back, with the caller's token and no memory of its own of
\* what it was sent; every part of the intent must be the current one.
Valid(n, s) ==
  /\ enrolled.phase # "uncertain"
  /\ enrolled.snapshot = s /\ s # NoSnapshot
  /\ enrolled.namespace = n
  /\ head = s.commit /\ head \notin Disabling

\* External: Memory asks back; validate answers under the project lock and lets go of it.
MemoryValidates(r) ==
  /\ reconciler[r].memory = "asked"
  /\ Valid(reconciler[r].namespace, reconciler[r].snapshot)
  /\ reconciler' = [reconciler EXCEPT ![r].memory = "validated"]
  /\ UNCHANGED <<head, enrolled, enrollDisk, index, claimed>>

\* External: some time later Memory takes the validated revision, of the index's owner
\* and not older than what it holds, and projects it now or later. The head, the
\* enrollment or the process may be others by then. A caller that still waits is
\* answered, unless the answer is lost.
MemoryAccepts(r) ==
  LET n == reconciler[r].namespace
      s == reconciler[r].snapshot
      c == [reconciler[r] EXCEPT !.memory = "none"]
  IN  /\ reconciler[r].memory = "validated"
      /\ ~(claimed /\ n = "project")
      /\ s.revision >= index[n].revision
      /\ index' = [index EXCEPT ![n] = s]
      /\ \/ /\ c.pc = "posted"
            /\ \E answer \in {"indexed", "pending", "error"} :
                 reconciler' = [reconciler EXCEPT
                   ![r] = [c EXCEPT !.pc = "answered", !.answer = answer]]
         \/ /\ c.pc # "posted"
            /\ reconciler' = [reconciler EXCEPT ![r] = IF c.pc = "over" THEN Over(c) ELSE c]
      /\ UNCHANGED <<head, enrolled, enrollDisk, claimed>>

\* External: it refuses, or its answer does not come in time: then it may go on.
MemoryRefuses(r) ==
  /\ reconciler[r].pc = "posted"
  /\ \E answer \in {"unauthorized", "update", "conflict", "error"},
        memory \in {"none", reconciler[r].memory} :
       /\ memory = "none" \/ answer = "error"
       /\ reconciler' = [reconciler EXCEPT ![r].pc = "answered", ![r].answer = answer,
                                           ![r].memory = memory]
  /\ UNCHANGED <<head, enrolled, enrollDisk, index, claimed>>

\* Mutant: the receipt is taken for the revision the enrollment has by now.
ReceiptForAnyRevision(r) ==
  LET s == reconciler[r].snapshot
  IN  /\ reconciler[r].pc = "answered"
      /\ reconciler[r].answer \in {"indexed", "pending"}
      /\ Updated([enrolled EXCEPT !.confirmed = s, !.phase =
                    IF reconciler[r].answer = "indexed" THEN "indexed" ELSE "projection_pending"])
      /\ Ended(r)
      /\ UNCHANGED <<head, index, claimed>>

\* A verified receipt confirms the revision it is about, if that is still the one.
Receipt(r) ==
  LET s == reconciler[r].snapshot
  IN  /\ reconciler[r].pc = "answered"
      /\ reconciler[r].answer \in {"indexed", "pending"}
      /\ Updated(IF enrolled.revision # s.revision THEN enrolled
                 ELSE [enrolled EXCEPT !.confirmed = s, !.phase =
                         IF reconciler[r].answer = "indexed" THEN "indexed"
                                                             ELSE "projection_pending"])
      /\ Ended(r)
      /\ UNCHANGED <<head, index, claimed>>

Refusal(r) ==
  /\ reconciler[r].pc = "answered"
  /\ \E o \in {<<"unauthorized", "awaiting">>, <<"conflict", "conflict">>,
               <<"update", "update_required">>, <<"error", "unavailable">>} :
       /\ reconciler[r].answer = o[1]
       /\ Fail(reconciler[r].snapshot.revision, o[2])
  /\ Ended(r)
  /\ UNCHANGED <<head, index, claimed>>

\* The request of retry is cancelled while it awaits its lock, its worker or Memory.
ReconcilerDropped(r) ==
  /\ reconciler[r].pc \in {"collect", "refused", "named", "posted"}
  /\ Ended(r)
  /\ UNCHANGED <<head, enrolled, enrollDisk, index, claimed>>

\* separate_namespace: only out of a conflict, only if nothing was ever confirmed.
SeparateNamespace ==
  /\ enrolled.phase = "conflict"
  /\ enrolled.confirmed = NoSnapshot
  /\ enrolled.namespace = "project"
  /\ enrolled.revision < LastRevision
  /\ Updated([enrolled EXCEPT !.namespace = "separate", !.revision = @ + 1,
                              !.snapshot = NoSnapshot, !.phase = "awaiting"])
  /\ UNCHANGED <<head, reconciler, index, claimed>>

\* A close or an update moves master on.
HeadMoves ==
  /\ head < LastCommit
  /\ head' = head + 1
  /\ UNCHANGED <<enrolled, enrollDisk, reconciler, index, claimed>>

EnrollmentByOthers ==
  /\ enrollDisk' = enrolled
  /\ UNCHANGED <<head, enrolled, reconciler, index, claimed>>

\* A restart: calls are gone, but not what they sent; unfinished phases wait for an
\* authorization again.
EnrollmentRestart ==
  /\ enrolled' = IF enrollDisk.phase \in {"pending", "unavailable", "projection_pending"}
                   THEN [enrollDisk EXCEPT !.phase = "awaiting"] ELSE enrollDisk
  /\ reconciler' = [r \in Reconcilers |-> IF reconciler[r].pc = "idle" THEN NoReconciler
                                                                    ELSE Over(reconciler[r])]
  /\ UNCHANGED <<head, enrollDisk, index, claimed>>

ReconcilerRuns(r) ==
  \/ ReconcileBegin(r) \/ ReconcileNotNow(r) \/ Collect(r)
  \/ CollectRefuses(r) \/ CollectFails(r) \/ Named(r)
  \/ MemoryValidates(r) \/ MemoryAccepts(r) \/ MemoryRefuses(r)
  \/ Receipt(r) \/ Refusal(r) \/ ReconcilerDropped(r)

EnrollmentNext ==
  \/ \E r \in Reconcilers : ReconcilerRuns(r)
  \/ RefreshObserves \/ SeparateNamespace \/ HeadMoves
  \/ EnrollmentByOthers \/ EnrollmentRestart

EnrollmentSpec == EnrollmentInit /\ [][EnrollmentNext]_enrollmentVars

-----------------------------------------------------------------------------
(* Properties *)

EnrollmentTypeOK ==
  /\ head \in Commits0 \ {0}
  /\ enrolled \in Enrolled /\ enrollDisk \in Enrolled
  /\ reconciler \in [Reconcilers -> Reconciler]
  /\ index \in [Namespaces -> Snapshot]
  /\ claimed \in BOOLEAN

\* A project shown as indexed is: what Memory confirmed is the revision and the commit
\* now desired, however late receipts and failures of older revisions came in, and
\* Memory holds it in the project's namespace.
IndexedIsCurrent ==
  \A e \in {enrolled, enrollDisk} :
    e.phase = "indexed" =>
      /\ e.confirmed = [revision |-> e.revision, commit |-> e.desired]
      /\ index[e.namespace].revision >= e.revision

\* "The exact bounded payload is durable before any Memory call": Memory is never ahead
\* of the disk. Whatever becomes of the revision between validate's answer and Memory's
\* acceptance, of the caller or of the process, what Memory holds in any namespace is the
\* snapshot on disk, to retry with after a restart, or of a revision the disk is past.
DurableBeforeMemory ==
  \A n \in Namespaces :
    \/ index[n] = NoSnapshot
    \/ index[n] = enrollDisk.snapshot
    \/ index[n].revision < enrollDisk.revision

=============================================================================
