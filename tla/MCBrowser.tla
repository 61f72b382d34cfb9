------------------------------ MODULE MCBrowser ------------------------------
(* The browser's gateway with its sessions, research and its handoff, and  *)
(* the agent in the workspace, checked in one run: an execution moves the  *)
(* component in focus, the others stay. "sessions" lets several logins and *)
(* requests race; "gateway" has one session at a time, which comes and goes.*)
EXTENDS IdeGateway, Handoff, Research, Activity, IdeAgent

VARIABLE focus

Components == {"sessions", "gateway", "handoff", "research", "activity", "agent"}

MCInit ==
  /\ focus \in Components
  /\ BrowserInit /\ GatewayInit /\ HandoffInit /\ ResearchInit /\ ActivityInit /\ AgentInit

Rest(component) ==
  /\ focus = component
  /\ UNCHANGED focus
  /\ component \notin {"sessions", "gateway"} => UNCHANGED browserVars
  /\ component # "gateway"  => UNCHANGED gatewayVars
  /\ component # "handoff"  => UNCHANGED handoffVars
  /\ component # "research" => UNCHANGED researchVars
  /\ component # "activity" => UNCHANGED activityVars
  /\ component # "agent"    => UNCHANGED agentVars

\* Logins, launches, keys, requests and bundles are used in one order: the modules do
\* not tell their names apart.
First(some) == CHOOSE x \in some : TRUE

LoginsInOrder   == login'[First(Logins)].state = "unused" => login' = login
LaunchesInOrder == /\ launch'[First(Launches)].pc = "idle" => launch' = launch
                   /\ launch'[First(Launches)].key = First(Keys)
AppliesInOrder  == /\ apply'[First(Applies)].pc = "idle" => apply' = apply
                   /\ apply'[First(Applies)].op \in {First(Bundles), Nobody0}
PostsInOrder    == post'[First(Posts)].pc = "idle" => post' = post

\* In focus "gateway" the user has one session at a time, each login succeeds, and a
\* session expires: a logout or a failed refresh does the same to the gateway. One grant
\* is used, as streams do not look at each other.
OneSession ==
  /\ \A r \in Requests : request'[r].pc = "idle"
  /\ \A l \in Logins : ~session'[l].stale
  /\ \A l \in Logins : login'[l].state = "gone" => session'[l] # NoSession
  /\ left' = {}
  /\ Cardinality((Open \cup Present)') <= 1
  /\ \A l \in Launches \ {First(Launches)} :
       ticket'[l] \notin {"connecting", "answered", "streaming"}

MCNext ==
  \/ Rest("sessions") /\ BrowserNext /\ LoginsInOrder
  \/ Rest("gateway") /\ GatewayNext /\ LoginsInOrder /\ LaunchesInOrder /\ OneSession
  \/ Rest("handoff") /\ HandoffNext /\ AppliesInOrder
  \/ Rest("research") /\ ResearchNext /\ PostsInOrder
  \/ Rest("activity") /\ ActivityNext
  \/ Rest("agent") /\ AgentNext

MCVars == <<focus, browserVars, gatewayVars, handoffVars, researchVars, activityVars,
            agentVars>>

MCSpec == MCInit /\ [][MCNext]_MCVars /\ GatewayFair

MCTypeOK ==
  /\ BrowserTypeOK /\ GatewayTypeOK /\ HandoffTypeOK /\ ResearchTypeOK /\ ActivityTypeOK
  /\ AgentTypeOK

\* What the agent says of the editor, its commands and the work is so.
AgentTruthful == IdleWasObserved /\ AgentSound
=============================================================================
