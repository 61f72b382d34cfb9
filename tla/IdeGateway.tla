----------------------------- MODULE IdeGateway -----------------------------
(***************************************************************************)
(* The browser's way into a workspace: a launch under an idempotency key,  *)
(* the one-use ticket it answers with, the grant a ticket is traded for,   *)
(* and the editor streams a grant opens, while users log out, workspaces   *)
(* are recycled, closed or lose their editor, and the control plane        *)
(* restarts. One human, one project.                                       *)
(*                                                                         *)
(* Code: sigiledd/src/browser/ide_gateway. It composes with the sessions   *)
(* of BrowserSessions; of a workspace's life (SessionLifecycle) it sees    *)
(* the record. authorize resolves the parent session (as any request of    *)
(* BrowserSessions does) and then, in one step, looks at both.             *)
(***************************************************************************)
EXTENDS BrowserSessions

CONSTANTS
  Launches,    \* launch requests; a ticket and a grant have their launch's name
  Keys,        \* idempotency keys
  Workspaces,  \* session ids that may be reserved
  MaxEpochs,   \* bound on the generations of a workspace
  MaxTickets   \* grants at a time (4096 in the code)

ASSUME GatewayAssumption ==
  /\ Nothing \notin Launches \cup Workspaces /\ Keys # {}
  /\ MaxEpochs \in Nat \ {0} /\ MaxTickets \in Nat

VARIABLES
  workspace,   \* the session records, as far as the gateway looks at them
  intents,     \* browser_allocations: key to session id
  intentDisk,  \* the intents of the last snapshot
  launch,      \* the launches, spawned tasks of their own
  serial,      \* who owns the lock of this human and project
  ticket,      \* tickets, grants and streams, by launch
  opened       \* history: the workspaces opened under each key

gatewayVars == <<workspace, intents, intentDisk, launch, serial, ticket, opened>>

-----------------------------------------------------------------------------
\* "bad" is any lifecycle but active; ready says the editor of this generation runs.
Workspace0 == [life: {"none", "active", "bad", "closed"}, generation: 0..MaxEpochs,
               ready: BOOLEAN]

LaunchPcs == {"idle", "serial", "open", "look", "start", "ticket", "over"}
Launch0   == [pc: LaunchPcs, key: Keys, parent: Logins \cup {Nothing},
              on: Workspaces \cup {Nothing}, generation: 0..MaxEpochs]

\* A binding is what launch says of parent, workspace and generation.
TicketState == {"none", "issued", "consuming", "granted", "connecting", "answered",
                "streaming", "gone"}

\* reserve_id: never used before.
Reservable == {w \in Workspaces : /\ workspace[w].life = "none"
                                  /\ \A k \in Keys : intents[k] # w
                                  /\ \A l \in Launches : launch[l].on # w}

Owned == {w \in Workspaces : workspace[w].life \in {"active", "bad"}}

\* record: the workspace is still the one of the binding.
Current(l) ==
  LET w == launch[l].on
  IN  /\ w \in Workspaces
      /\ workspace[w].life = "active"
      /\ workspace[w].generation = launch[l].generation
      /\ workspace[w].ready

\* live, and the last step of authorize.
BindingLive(l) == There(launch[l].parent) /\ Current(l)

Moves(l, pc)   == launch' = [launch EXCEPT ![l].pc = pc]
LaunchEnds(l)  == Moves(l, "over") /\ serial' = IF serial = l THEN Nothing ELSE serial
TicketIs(l, s) == ticket' = [ticket EXCEPT ![l] = s]

GatewayInit ==
  /\ workspace = [w \in Workspaces |-> [life |-> "none", generation |-> 0, ready |-> FALSE]]
  /\ intents = [k \in Keys |-> Nothing]
  /\ intentDisk = intents
  /\ launch = [l \in Launches |-> [pc |-> "idle", key |-> CHOOSE k \in Keys : TRUE,
                                   parent |-> Nothing, on |-> Nothing, generation |-> 0]]
  /\ serial = Nothing
  /\ ticket = [l \in Launches |-> "none"]
  /\ opened = [k \in Keys |-> {}]

-----------------------------------------------------------------------------
(* launch_owned *)

\* The request is authenticated, then a task of its own runs to the end.
LaunchBegins(l, k, s) ==
  /\ launch[l].pc = "idle"
  /\ There(s)
  /\ launch' = [launch EXCEPT ![l].pc = "serial", ![l].key = k, ![l].parent = s]
  /\ UNCHANGED <<workspace, intents, intentDisk, serial, ticket, opened>>

\* The key was seen before: its workspace, whatever became of it.
LaunchKnown(l) ==
  LET k == launch[l].key
  IN  /\ launch[l].pc = "serial"
      /\ serial = Nothing
      /\ intents[k] # Nothing
      /\ launch' = [launch EXCEPT ![l].pc = "look", ![l].on = intents[k]]
      /\ serial' = l
      /\ UNCHANGED <<workspace, intents, intentDisk, ticket, opened>>

\* A new key: the human's one workspace is resumed, or an id is reserved; either way
\* the intent is saved before anything is opened. A refused save ends the launch.
LaunchIntends(l) ==
  LET k == launch[l].key
  IN  /\ launch[l].pc = "serial"
      /\ serial = Nothing
      /\ intents[k] = Nothing
      /\ Cardinality(Owned) <= 1
      /\ \E w \in IF Owned # {} THEN Owned ELSE Reservable :
           /\ intents' = [intents EXCEPT ![k] = w]
           /\ launch' = [launch EXCEPT ![l].pc = IF Owned # {} THEN "look" ELSE "open",
                                       ![l].on = w]
      /\ intentDisk' = intents'
      /\ serial' = l
      /\ UNCHANGED <<workspace, ticket, opened>>

\* Mutant: what could not be saved is opened nonetheless.
LaunchUnsavedOpens(l) ==
  LET k == launch[l].key
  IN  /\ launch[l].pc = "serial"
      /\ serial = Nothing
      /\ intents[k] = Nothing
      /\ \E w \in IF Owned # {} THEN Owned ELSE Reservable :
           /\ intents' = [intents EXCEPT ![k] = w]
           /\ launch' = [launch EXCEPT ![l].pc = IF Owned # {} THEN "look" ELSE "open",
                                       ![l].on = w]
      /\ serial' = l
      /\ UNCHANGED <<workspace, intentDisk, ticket, opened>>

LaunchUnsaved(l) ==
  LET k == launch[l].key
  IN  /\ launch[l].pc = "serial"
      /\ serial = Nothing
      /\ intents[k] = Nothing
      /\ Cardinality(Owned) <= 1
      /\ \E w \in IF Owned # {} THEN Owned ELSE Reservable :
           intents' = [intents EXCEPT ![k] = w]
      /\ Moves(l, "over")
      /\ UNCHANGED <<workspace, intentDisk, serial, ticket, opened>>

\* open_human: SessionLifecycle's open under the reserved id, which may fail before or
\* after there is a record. Whatever it answers, the record decides.
LaunchOpens(l) ==
  LET w == launch[l].on
  IN  /\ launch[l].pc = "open"
      /\ \E life \in {"none", "active", "bad"} :
           workspace' = [workspace EXCEPT ![w] =
             [life |-> life, generation |-> IF life = "none" THEN 0 ELSE 1, ready |-> FALSE]]
      /\ opened' = [opened EXCEPT ![launch[l].key] = @ \cup {w}]
      /\ Moves(l, "look")
      /\ UNCHANGED <<intents, intentDisk, serial, ticket>>

\* No record, or one that is not active, is for the user to recover.
LaunchLooks(l) ==
  LET w == workspace[launch[l].on]
  IN  /\ launch[l].pc = "look"
      /\ IF w.life = "active"
           THEN /\ launch' = [launch EXCEPT ![l].pc = IF w.ready THEN "ticket" ELSE "start",
                                            ![l].generation = w.generation]
                /\ UNCHANGED serial
           ELSE LaunchEnds(l)
      /\ UNCHANGED <<workspace, intents, intentDisk, ticket, opened>>

\* ide::operation refuses a generation that is not current.
LaunchStarts(l) ==
  LET w == launch[l].on
  IN  /\ launch[l].pc = "start"
      /\ \/ /\ workspace[w].life = "active"
            /\ workspace[w].generation = launch[l].generation
            /\ workspace' = [workspace EXCEPT ![w].ready = TRUE]
            /\ Moves(l, "ticket")
            /\ UNCHANGED serial
         \/ LaunchEnds(l) /\ UNCHANGED workspace
      /\ UNCHANGED <<intents, intentDisk, ticket, opened>>

\* After the record was read again and the target probed: authorize, then issue.
LaunchTickets(l) ==
  /\ launch[l].pc = "ticket"
  /\ \/ BindingLive(l) /\ TicketIs(l, "issued")
     \/ UNCHANGED ticket
  /\ LaunchEnds(l)
  /\ UNCHANGED <<workspace, intents, intentDisk, opened>>

-----------------------------------------------------------------------------
(* access and proxy *)

\* consume: the ticket is taken out before anything else is asked.
Consume(l) ==
  /\ ticket[l] = "issued"
  /\ TicketIs(l, "consuming")
  /\ UNCHANGED <<workspace, intents, intentDisk, launch, serial, opened>>

\* ... expired, not authorized, no answer from the probe, too many grants.
TicketWasted(l) ==
  /\ ticket[l] \in {"issued", "consuming"}
  /\ TicketIs(l, "gone")
  /\ UNCHANGED <<workspace, intents, intentDisk, launch, serial, opened>>

\* ... else a grant. It was authorized before the probe; what is past keeping is
\* pruned, the grant itself is looked at when it is used.
GrantIssued(l) ==
  /\ ticket[l] = "consuming"
  /\ Cardinality({m \in Launches : /\ ticket[m] \in {"granted", "connecting", "answered",
                                                      "streaming"}
                                   /\ BindingLive(m)}) < MaxTickets
  /\ ticket' = [m \in Launches |->
       IF m = l THEN "granted"
       ELSE IF ticket[m] = "granted" /\ ~BindingLive(m) THEN "gone" ELSE ticket[m]]
  /\ UNCHANGED <<workspace, intents, intentDisk, launch, serial, opened>>

\* grant: authorized at every use; then the editor is connected to and asked.
Connect(l) ==
  /\ ticket[l] = "granted"
  /\ BindingLive(l)
  /\ TicketIs(l, "connecting")
  /\ UNCHANGED <<workspace, intents, intentDisk, launch, serial, opened>>

\* The editor answered: is the binding still live?
Answered(l) ==
  /\ ticket[l] = "connecting"
  /\ TicketIs(l, IF BindingLive(l) THEN "answered" ELSE "granted")
  /\ UNCHANGED <<workspace, intents, intentDisk, launch, serial, opened>>

ConnectFails(l) ==
  /\ ticket[l] \in {"connecting", "answered"}
  /\ TicketIs(l, "granted")
  /\ UNCHANGED <<workspace, intents, intentDisk, launch, serial, opened>>

\* Both sides upgraded: bytes are copied.
StreamOpens(l) ==
  /\ ticket[l] = "answered"
  /\ TicketIs(l, "streaming")
  /\ UNCHANGED <<workspace, intents, intentDisk, launch, serial, opened>>

\* Mutant: the stream looks only at the workspace.
StreamPollsRecord(l) ==
  /\ ticket[l] = "streaming"
  /\ ~Current(l)
  /\ TicketIs(l, "granted")
  /\ UNCHANGED <<workspace, intents, intentDisk, launch, serial, opened>>

\* Every 250 ms: live; every second: authorize.
StreamPolls(l) ==
  /\ ticket[l] = "streaming"
  /\ ~BindingLive(l)
  /\ TicketIs(l, "granted")
  /\ UNCHANGED <<workspace, intents, intentDisk, launch, serial, opened>>

\* Either side hangs up.
StreamEnds(l) ==
  /\ ticket[l] = "streaming"
  /\ TicketIs(l, "granted")
  /\ UNCHANGED <<workspace, intents, intentDisk, launch, serial, opened>>

-----------------------------------------------------------------------------
(* What SessionLifecycle does to the records *)

WorkspaceFails(w) ==
  /\ workspace[w].life = "active"
  /\ \/ workspace' = [workspace EXCEPT ![w].ready = FALSE]
     \/ workspace' = [workspace EXCEPT ![w].life = "bad", ![w].ready = FALSE]
  /\ UNCHANGED <<intents, intentDisk, launch, serial, ticket, opened>>

Recycled(w) ==
  /\ w \in Owned
  /\ workspace[w].generation < MaxEpochs
  /\ workspace' = [workspace EXCEPT
       ![w] = [life |-> "active", generation |-> @.generation + 1, ready |-> FALSE]]
  /\ UNCHANGED <<intents, intentDisk, launch, serial, ticket, opened>>

Closed(w) ==
  /\ w \in Owned
  /\ workspace' = [workspace EXCEPT ![w].life = "closed", ![w].ready = FALSE]
  /\ UNCHANGED <<intents, intentDisk, launch, serial, ticket, opened>>

IntentsByOthers ==
  /\ intentDisk' = intents
  /\ UNCHANGED <<workspace, intents, launch, serial, ticket, opened>>

\* A restart: BrowserSessions' and, with it, launches, tickets, grants, streams.
GatewayRestart ==
  /\ BrowserRestart
  /\ intents' = intentDisk
  /\ launch' = [l \in Launches |-> IF launch[l].pc = "idle" THEN launch[l]
                                   ELSE [launch[l] EXCEPT !.pc = "over"]]
  /\ serial' = Nothing
  /\ ticket' = [l \in Launches |-> IF ticket[l] = "none" THEN "none" ELSE "gone"]
  /\ UNCHANGED <<workspace, intentDisk, opened>>

LaunchRuns(l) ==
  \/ LaunchKnown(l) \/ LaunchIntends(l) \/ LaunchUnsaved(l) \/ LaunchOpens(l)
  \/ LaunchLooks(l) \/ LaunchStarts(l) \/ LaunchTickets(l)

TicketRuns(l) ==
  \/ Consume(l) \/ TicketWasted(l) \/ GrantIssued(l) \/ Connect(l) \/ Answered(l)
  \/ ConnectFails(l) \/ StreamOpens(l) \/ StreamPolls(l) \/ StreamEnds(l)

GatewaySteps ==
  \/ \E l \in Launches : \/ LaunchRuns(l) \/ TicketRuns(l)
                         \/ \E k \in Keys, s \in Logins : LaunchBegins(l, k, s)
  \/ \E w \in Workspaces : WorkspaceFails(w) \/ Recycled(w) \/ Closed(w)
  \/ IntentsByOthers

\* The gateway beside its sessions; nothing of a session changes in a step of the
\* gateway but in a restart.
GatewayNext ==
  \/ GatewaySteps /\ UNCHANGED browserVars
  \/ BrowserSteps /\ UNCHANGED gatewayVars
  \/ GatewayRestart

\* A stream's polls are timers of a task that does nothing else.
GatewayFair == \A l \in Launches : WF_gatewayVars(StreamPolls(l))

GatewaySpec ==
  GatewayInit /\ BrowserInit /\ [][GatewayNext]_<<gatewayVars, browserVars>> /\ GatewayFair

-----------------------------------------------------------------------------
(* Properties *)

GatewayTypeOK ==
  /\ workspace \in [Workspaces -> Workspace0]
  /\ intents \in [Keys -> Workspaces \cup {Nothing}]
  /\ intentDisk \in [Keys -> Workspaces \cup {Nothing}]
  /\ launch \in [Launches -> Launch0]
  /\ serial \in Launches \cup {Nothing}
  /\ ticket \in [Launches -> TicketState]
  /\ opened \in [Keys -> SUBSET Workspaces]

\* "retry same key": however often a key is sent again, at once, after a failure, a
\* restart or a close, it opens one workspace at most; and no human ever owns two.
OneWorkspacePerKey ==
  /\ \A k \in Keys : Cardinality(opened[k]) <= 1
  /\ Cardinality(Owned) <= 1

\* A stream does not survive what it was granted for: none stays open for ever once
\* the user is logged out or the generation is superseded.
Outlived(l) ==
  /\ ticket[l] = "streaming"
  /\ \/ ~There(launch[l].parent)
     \/ workspace[launch[l].on].generation # launch[l].generation

StreamsClose == \A l \in Launches : []<>~Outlived(l)

=============================================================================
