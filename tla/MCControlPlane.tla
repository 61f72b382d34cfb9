--------------------------- MODULE MCControlPlane ---------------------------
(* The components of the control plane that share no state, checked in one *)
(* run: an execution moves the component in focus, the others stay.        *)
EXTENDS Approvals, Apps, WorkItems, ProjectCreation, ProcessGroup, Refresh, Enrollment,
        Companion

VARIABLE focus

Components == {"approvals", "apps", "workitems", "creation", "process", "refresh",
               "enrollment", "companion"}

MCInit ==
  /\ focus \in Components
  /\ ApprovalsInit /\ AppsInit /\ WorkItemsInit /\ CreationInit /\ ProcessInit
  /\ RefreshInit /\ EnrollmentInit /\ CompanionInit
  /\ registry.registered => focus = "creation"
  /\ claimed => focus = "enrollment"

Rest(component) ==
  /\ focus = component
  /\ UNCHANGED focus
  /\ component # "approvals"  => UNCHANGED approvalVars
  /\ component # "apps"       => UNCHANGED appVars
  /\ component # "workitems"  => UNCHANGED workItemVars
  /\ component # "creation"   => UNCHANGED creationVars
  /\ component # "process"    => UNCHANGED processVars
  /\ component # "refresh"    => UNCHANGED refreshVars
  /\ component # "enrollment" => UNCHANGED enrollmentVars
  /\ component # "companion"  => UNCHANGED companionVars

First(some) == CHOOSE x \in some : TRUE

\* Approvals does not tell the names of flows or drivers apart, nor Companion those of
\* its calls: they are used in one order.
FlowsInOrder ==
  \A f \in Flows :
    flow'[f].pc # "idle" => flow'[First(Flows)].driver = First(Drivers)

CallsInOrder ==
  LET second == First(Calls \ {First(Calls)})
      later(c) == {First(Calls)} \cup IF c = second THEN {} ELSE {second}
  IN  \A c \in Calls \ {First(Calls)} :
        operation'[c].pc # "idle" => \A d \in later(c) : operation'[d].pc # "idle"

MCNext ==
  \/ Rest("approvals") /\ ApprovalsNext /\ FlowsInOrder
  \/ Rest("apps") /\ AppsNext
  \/ Rest("workitems") /\ WorkItemsNext
  \/ Rest("creation") /\ CreationNext
  \/ Rest("process") /\ ProcessNext
  \/ Rest("refresh") /\ RefreshNext
  \/ Rest("enrollment") /\ EnrollmentNext
  \/ Rest("companion") /\ CompanionNext /\ CallsInOrder

MCVars == <<focus, approvalVars, appVars, workItemVars, creationVars, processVars,
            refreshVars, enrollmentVars, companionVars>>

MCSpec == MCInit /\ [][MCNext]_MCVars /\ \A c \in Refreshes : RefreshFair(c)

MCTypeOK ==
  /\ ApprovalsTypeOK /\ AppsTypeOK /\ WorkItemsTypeOK /\ CreationTypeOK /\ ProcessTypeOK
  /\ RefreshTypeOK /\ EnrollmentTypeOK /\ CompanionTypeOK
=============================================================================
