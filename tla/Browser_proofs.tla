---------------------------- MODULE Browser_proofs ----------------------------
(***************************************************************************)
(* What is proved of the browser's side of the control plane: its research *)
(* operations, its sessions, the workspaces its gateway opens, the handoff *)
(* of a research bundle into one, what the agent in there says of editor,  *)
(* commands and work, and the types and limits of them all in one run.     *)
(***************************************************************************)
EXTENDS MCBrowser, SequenceTheorems, FiniteSetTheorems, TLAPS

-----------------------------------------------------------------------------
(* Research: an operation has one key for ever *)

PostRecord == [pc: PostPcs, op: Operations, intent: Intent0]

ResearchTyped ==
  /\ intent \in [Operations -> Intent0]
  /\ post \in [Posts -> PostRecord]
  /\ keys \in 0..MaxKey
  /\ runs \subseteq [key: 1..MaxKey, op: Operations, payload: Payloads]

\* A request on its way carries the key and the payload that are on file.
OnFile(r) ==
  post[r].pc \in {"submit", "accept"} =>
    /\ post[r].intent.key # 0
    /\ intent[post[r].op].key = post[r].intent.key
    /\ intent[post[r].op].payload = post[r].intent.payload

RunsOnFile ==
  \A x \in runs : intent[x.op].key = x.key /\ intent[x.op].payload = x.payload

ResearchInv ==
  /\ ResearchTyped
  /\ \A r \in Posts : OnFile(r)
  /\ RunsOnFile
  /\ \A o \in Operations : intent[o].run \in {0, intent[o].key}

\* An intent once on file keeps its key and payload, and a request moves on.
LEMMA PostMoves ==
  ASSUME ResearchInv, NEW r \in Posts, NEW p \in PostRecord, post' = [post EXCEPT ![r] = p],
         NEW o \in Operations, NEW i \in Intent0,
         intent' \in {intent, [intent EXCEPT ![o] = i]},
         intent[o].key # 0 => i.key = intent[o].key /\ i.payload = intent[o].payload,
         i.run \in {0, i.key}, UNCHANGED runs, keys' \in 0..MaxKey,
         p.pc \in {"submit", "accept"} =>
           /\ p.intent.key # 0 /\ intent'[p.op].key = p.intent.key
           /\ intent'[p.op].payload = p.intent.payload
  PROVE  ResearchInv'
  <1>1. intent' \in [Operations -> Intent0] /\ post' \in [Posts -> PostRecord]
    BY DEF ResearchInv, ResearchTyped
  <1>2. \A q \in Operations :
          /\ intent[q].key # 0 => /\ intent'[q].key = intent[q].key
                                  /\ intent'[q].payload = intent[q].payload
          /\ intent'[q].run \in {0, intent'[q].key}
    BY DEF ResearchInv, ResearchTyped
  <1>3. post'[r] = p /\ \A q \in Posts \ {r} : post'[q] = post[q]
    BY DEF ResearchInv, ResearchTyped
  <1>4. ASSUME NEW q \in Posts  PROVE OnFile(q)'
    <2>1. CASE q = r  BY <1>3, <2>1 DEF OnFile
    <2>2. CASE q # r
      <3>1. post'[q] = post[q] /\ post[q].op \in Operations
        BY <1>3, <2>2 DEF ResearchInv, ResearchTyped, PostRecord
      <3> QED  BY <1>2, <3>1 DEF OnFile, ResearchInv
    <2> QED  BY <2>1, <2>2
  <1>5. RunsOnFile'
    <2>1. \A x \in runs : x.op \in Operations /\ x.key # 0
      BY DEF ResearchInv, ResearchTyped
    <2> QED  BY <1>2, <2>1 DEF RunsOnFile, ResearchInv
  <1> QED  BY <1>1, <1>2, <1>4, <1>5 DEF ResearchInv, ResearchTyped

LEMMA PostShapes ==
  ASSUME ResearchTyped, NEW r \in Posts
  PROVE  /\ post[r] \in PostRecord
         /\ [post[r] EXCEPT !.pc = "over"] \in PostRecord
         /\ \A pc \in PostPcs, o \in Operations, i \in Intent0 :
              [pc |-> pc, op |-> o, intent |-> i] \in PostRecord
  BY DEF ResearchTyped, PostRecord, PostPcs

\* A request that ends, with what a save that failed may have left.
LEMMA PostGoes ==
  ASSUME ResearchInv, NEW r \in Posts, PostEnds(r), UNCHANGED runs, keys' \in 0..MaxKey,
         NEW o \in Operations, NEW i \in Intent0,
         intent' \in {intent, [intent EXCEPT ![o] = i]},
         intent[o].key # 0 => i.key = intent[o].key /\ i.payload = intent[o].payload,
         i.run \in {0, i.key}
  PROVE  ResearchInv'
  <1> DEFINE p == [post[r] EXCEPT !.pc = "over"]
  <1>1. p \in PostRecord /\ p.pc = "over" /\ post' = [post EXCEPT ![r] = p]
    BY PostShapes DEF ResearchInv, ResearchTyped, PostRecord, PostEnds
  <1>2. PICK c \in PostRecord : c = p  BY <1>1
  <1> HIDE DEF p
  <1> QED  BY <1>1, <1>2, PostMoves

\* A save and what follows it.
LEMMA StoresKeeps ==
  ASSUME ResearchInv, NEW r \in Posts, NEW o \in Operations, NEW i \in Intent0,
         NEW pc \in {"submit", "over"}, Stores(r, o, i, pc), UNCHANGED runs, keys' \in 0..MaxKey,
         intent[o].key # 0 => i.key = intent[o].key /\ i.payload = intent[o].payload,
         i.run \in {0, i.key}, i.key # 0
  PROVE  ResearchInv'
  <1>1. CASE PostEnds(r) /\ intent' \in {intent, [intent EXCEPT ![o] = i]}
    BY <1>1, PostGoes
  <1>2. CASE PostIs(r, pc, o, i) /\ intent' = [intent EXCEPT ![o] = i]
    <2> DEFINE p == [pc |-> pc, op |-> o, intent |-> i]
    <2>1. p \in PostRecord  BY PostShapes DEF ResearchInv, PostPcs
    <2>2. intent'[o] = i  BY <1>2 DEF ResearchInv, ResearchTyped
    <2>3. post' = [post EXCEPT ![r] = p]  BY <1>2 DEF PostIs
    <2> QED  BY <1>2, <2>1, <2>2, <2>3, PostMoves
  <1> QED  BY <1>1, <1>2 DEF Stores

LEMMA ResearchStep ==
  ASSUME ResearchInv, [ResearchNext]_researchVars
  PROVE  ResearchInv'
  <1>0. /\ intent \in [Operations -> Intent0] /\ post \in [Posts -> PostRecord]
        /\ keys \in 0..MaxKey /\ MaxKey \in Nat
        /\ \A o \in Operations : intent[o] \in Intent0 /\ intent[o].run \in {0, intent[o].key}
    BY ResearchAssumption DEF ResearchInv, ResearchTyped
  <1>1. ASSUME NEW r \in Posts, NEW o \in Operations, NEW p \in Payloads, CreateNew(r, o, p)
        PROVE  ResearchInv'
    <2> DEFINE i == [key |-> keys + 1, payload |-> p, run |-> 0]
    <2>1. keys' = keys + 1 /\ keys < MaxKey /\ intent[o].key = 0 /\ Stores(r, o, i, "submit")
          /\ UNCHANGED runs
      BY <1>1 DEF CreateNew
    <2>2. keys' \in 0..MaxKey /\ keys + 1 \in 0..MaxKey /\ keys + 1 # 0  BY <1>0, <2>1
    <2>3. i \in Intent0 /\ i.key # 0 /\ i.run = 0  BY <1>0, <2>2 DEF Intent0
    <2>4. PICK c \in Intent0 : c = i  BY <2>3
    <2> HIDE DEF i
    <2> QED  BY <2>1, <2>2, <2>3, <2>4, StoresKeeps
  <1>2. ASSUME NEW r \in Posts, NEW o \in Operations, NEW p \in Payloads, CreateSame(r, o, p)
        PROVE  ResearchInv'
    <2>1. PICK i \in Intent0 : i = intent[o]  BY <1>0
    <2> QED  BY <1>0, <1>2, <2>1, StoresKeeps DEF CreateSame
  <1>3. ASSUME NEW r \in Posts, NEW o \in Operations, NEW p \in Payloads, CreateConflict(r, o, p)
        PROVE  ResearchInv'
    <2>1. PICK i \in Intent0 : i = intent[o]  BY <1>0
    <2> QED  BY <1>0, <1>3, <2>1, PostGoes DEF CreateConflict
  <1>4. ASSUME NEW r \in Posts, NEW o \in Operations, Recover(r, o)  PROVE ResearchInv'
    <2>1. PICK i \in Intent0 : i = intent[o]  BY <1>0
    <2> DEFINE p == [pc |-> "submit", op |-> o, intent |-> i]
    <2>2. p \in PostRecord  BY PostShapes DEF ResearchInv, PostPcs
    <2>3. post' = [post EXCEPT ![r] = p] /\ intent[o].key # 0
          /\ UNCHANGED <<intent, keys, runs>>
      BY <1>4, <2>1 DEF Recover, PostIs
    <2> QED  BY <1>0, <2>1, <2>2, <2>3, PostMoves
  <1>5. ASSUME NEW r \in Posts, Submit(r)  PROVE ResearchInv'
    <2> DEFINE i == post[r].intent
               o == post[r].op
               x == [key |-> i.key, op |-> o, payload |-> i.payload]
    <2>1. /\ o \in Operations /\ i \in Intent0 /\ i.key # 0
          /\ intent[o].key = i.key /\ intent[o].payload = i.payload
          /\ UNCHANGED <<intent, frozen, keys>>
      BY <1>0, <1>5 DEF Submit, ResearchInv, OnFile, PostRecord
    <2>2. runs' \in {runs, runs \cup {x}}  BY <1>5 DEF Submit
    <2>3. x \in [key: 1..MaxKey, op: Operations, payload: Payloads]
      BY <1>0, <2>1 DEF Intent0
    <2>4. post' = [post EXCEPT ![r] = [pc |-> "accept", op |-> o, intent |-> i]] \/ PostEnds(r)
      BY <1>5 DEF Submit, PostIs
    <2>5. post' \in [Posts -> PostRecord]
      <3> DEFINE a == [pc |-> "accept", op |-> o, intent |-> i]
                 b == [post[r] EXCEPT !.pc = "over"]
      <3>1. post \in [Posts -> PostRecord] /\ "accept" \in PostPcs
        BY DEF ResearchInv, ResearchTyped, PostPcs
      <3>2. a \in PostRecord /\ b \in PostRecord
        BY <2>1, <3>1, PostShapes DEF ResearchInv
      <3>3. post' = [post EXCEPT ![r] = a] \/ post' = [post EXCEPT ![r] = b]
        BY <2>4 DEF PostEnds
      <3> HIDE DEF a, b
      <3> QED  BY <3>1, <3>2, <3>3
    <2>6. \A q \in Posts : OnFile(q)'
      BY <1>0, <2>1, <2>4 DEF PostEnds, OnFile, ResearchInv, PostRecord
    <2>7. RunsOnFile'  BY <2>1, <2>2 DEF RunsOnFile, ResearchInv
    <2> QED  BY <2>1, <2>2, <2>3, <2>5, <2>6, <2>7 DEF ResearchInv, ResearchTyped
  <1>6. ASSUME NEW r \in Posts, Accept(r)  PROVE ResearchInv'
    <2> DEFINE o == post[r].op
               k == post[r].intent.key
               i == [intent[o] EXCEPT !.run = k]
    <2>1. o \in Operations /\ k # 0 /\ intent[o].key = k /\ k \in 0..MaxKey
          /\ UNCHANGED <<keys, runs>>
      BY <1>0, <1>6 DEF Accept, ResearchInv, OnFile, PostRecord, Intent0
    <2>2. i \in Intent0 /\ i.key = intent[o].key /\ i.payload = intent[o].payload /\ i.run = k
      BY <1>0, <2>1 DEF Intent0
    <2>3. CASE Stores(r, o, i, "over")
      <3>1. PICK c \in Intent0 : c = i  BY <2>2
      <3>2. PICK d \in Operations : d = o  BY <2>1
      <3> HIDE DEF i
      <3> QED  BY <1>0, <2>1, <2>2, <2>3, <3>1, <3>2, StoresKeeps
    <2>4. CASE PostEnds(r) /\ UNCHANGED intent
      <3>1. PICK c \in Intent0 : c = intent[o]  BY <1>0, <2>1
      <3>2. PICK d \in Operations : d = o  BY <2>1
      <3> QED  BY <1>0, <2>1, <2>4, <3>1, <3>2, PostGoes
    <2> QED  BY <1>6, <2>3, <2>4 DEF Accept
  <1>7. CASE ResearchRestart
    <2>1. \A r \in Posts : post'[r] \in PostRecord /\ post'[r].pc \in {"idle", "over"}
      BY <1>0, <1>7, PostShapes DEF ResearchRestart, PostRecord, ResearchInv
    <2>2. post' \in [Posts -> PostRecord]  BY <1>7, <2>1 DEF ResearchRestart
    <2> QED  BY <1>7, <2>1, <2>2
             DEF ResearchRestart, ResearchInv, ResearchTyped, OnFile, RunsOnFile
  <1>8. CASE UNCHANGED researchVars
    BY <1>8 DEF researchVars, ResearchInv, ResearchTyped, OnFile, RunsOnFile
  <1> QED  BY <1>1, <1>2, <1>3, <1>4, <1>5, <1>6, <1>7, <1>8 DEF ResearchNext

LEMMA ResearchInitOK == ResearchInit => ResearchInv
  <1> SUFFICES ASSUME ResearchInit PROVE ResearchInv
    OBVIOUS
  <1>1. NoIntent0 \in Intent0 /\ NoIntent0.key = 0 /\ NoIntent0.run = 0
    BY ResearchAssumption DEF NoIntent0, Intent0
  <1>2. \A r \in Posts : post[r] \in PostRecord /\ post[r].pc = "idle"
    BY <1>1, ResearchAssumption DEF ResearchInit, PostRecord, PostPcs
  <1> QED  BY <1>1, <1>2, ResearchAssumption
           DEF ResearchInit, ResearchInv, ResearchTyped, OnFile, RunsOnFile

LEMMA FrozenTyped == frozen \in BOOLEAN /\ [ResearchNext]_researchVars => frozen' \in BOOLEAN
  <1>1. ASSUME NEW r, NEW o, NEW i, NEW pc, Stores(r, o, i, pc)
        PROVE  frozen' = frozen \/ frozen' = TRUE
    BY <1>1 DEF Stores
  <1>2. ASSUME ResearchNext
        PROVE  frozen' = frozen \/ frozen' \in BOOLEAN
    BY Zenon, <1>1, <1>2
       DEF ResearchNext, CreateNew, CreateSame, CreateConflict, Recover, Submit, Accept,
           ResearchRestart
  <1> QED  BY <1>2 DEF researchVars

\* However often an operation is sent again, recovered, or cut off by a failed save or a
\* restart: the service runs it once, for the request on file, under its first key.
THEOREM RunsOnce == ResearchSpec => []OneRunPerOperation
  <1>1. ResearchInv => OneRunPerOperation
    BY DEF ResearchInv, ResearchTyped, RunsOnFile, OneRunPerOperation
  <1> QED  BY <1>1, ResearchInitOK, ResearchStep, PTL DEF ResearchSpec

-----------------------------------------------------------------------------
(* Browser sessions: who left stays out, and a credential is in one pair of *)
(* hands                                                                    *)

SessionsTyped ==
  /\ login \in [Logins -> Transaction0]
  /\ session \in [Logins -> Session]
  /\ request \in [Requests -> Request]
  /\ left \subseteq Logins

\* A session comes with the end of its login, once; what a login is to replace, and
\* what a session replaced, is over for good and was not left.
Succession ==
  /\ \A l \in Logins : login[l].state # "gone" => ~session[l].there /\ l \notin left
  /\ \A l \in Open : /\ login[l].replaces \notin left
                     /\ login[l].replaces # Nothing => login[login[l].replaces].state = "gone"
  /\ \A s \in Logins : session[s].there =>
       /\ s \notin left /\ session[s].replaced \notin left
       /\ session[s].replaced # Nothing =>
            /\ ~session[session[s].replaced].there
            /\ login[session[s].replaced].state = "gone"

\* Credentials are numbered as they are issued: the next one was never in doubt.
Numbered ==
  /\ \A s \in Logins :
       /\ session[s].refresh <= session[s].issued
       /\ session[s].there /\ session[s].refresh # 0 => <<s, session[s].refresh>> \notin doubt
  /\ \A s \in Logins, n \in 0..MaxRefresh :
       <<s, n>> \in doubt => n <= session[s].issued /\ login[s].state = "gone"

Awaits(r) ==
  request[r].pc \in {"credentials", "exchange"} =>
    request[r].of \in Logins /\ login[request[r].of].state = "gone"

Exchanges(r) ==
  request[r].pc = "exchange" =>
    LET s == request[r].of
    IN  /\ request[r].credential <= session[s].issued
        /\ <<s, request[r].credential>> \notin doubt
        /\ session[s].holder = r /\ session[s].refresh = 0

InHand == Numbered /\ \A r \in Requests : Awaits(r) /\ Exchanges(r)

SessionsInv == SessionsTyped /\ Succession /\ InHand

-----------------------------------------------------------------------------

LEMMA RemovedIs ==
  ASSUME SessionsTyped, NEW some
  PROVE  /\ Removed(some) \in [Logins -> Session]
         /\ \A x \in Logins :
              /\ Removed(some)[x].there = (x \notin some /\ session[x].there)
              /\ Removed(some)[x].stale = session[x].stale
              /\ Removed(some)[x].refresh = session[x].refresh
              /\ Removed(some)[x].issued = session[x].issued
              /\ Removed(some)[x].holder = session[x].holder
              /\ Removed(some)[x].replaced = session[x].replaced
<1>1. ASSUME NEW x \in Logins, x \in some
      PROVE  /\ [session[x] EXCEPT !.there = FALSE] \in Session
             /\ [session[x] EXCEPT !.there = FALSE].there = FALSE
             /\ [session[x] EXCEPT !.there = FALSE].stale = session[x].stale
             /\ [session[x] EXCEPT !.there = FALSE].refresh = session[x].refresh
             /\ [session[x] EXCEPT !.there = FALSE].issued = session[x].issued
             /\ [session[x] EXCEPT !.there = FALSE].holder = session[x].holder
             /\ [session[x] EXCEPT !.there = FALSE].replaced = session[x].replaced
  BY DEF SessionsTyped, Session
<1>2. \A x \in Logins : session[x] \in Session /\ session[x].there \in BOOLEAN
  BY DEF SessionsTyped, Session
<1>3. ASSUME NEW x \in Logins
      PROVE  /\ Removed(some)[x] \in Session
             /\ Removed(some)[x].there = (x \notin some /\ session[x].there)
             /\ Removed(some)[x].stale = session[x].stale
             /\ Removed(some)[x].refresh = session[x].refresh
             /\ Removed(some)[x].issued = session[x].issued
             /\ Removed(some)[x].holder = session[x].holder
             /\ Removed(some)[x].replaced = session[x].replaced
  <2>1. CASE x \in some
    <3>1. Removed(some)[x] = [session[x] EXCEPT !.there = FALSE]
      BY <2>1 DEF Removed
    <3> QED BY <1>1, <2>1, <3>1
  <2>2. CASE x \notin some
    <3>1. Removed(some)[x] = session[x]
      BY <2>2 DEF Removed
    <3> QED BY <1>2, <2>2, <3>1
  <2> QED BY <2>1, <2>2
<1>4. Removed(some) \in [Logins -> Session]
  BY <1>3 DEF Removed
<1> QED BY <1>3, <1>4

LEMMA WithoutIs ==
  ASSUME SessionsTyped, NEW some
  PROVE  /\ Without(some) \in [Logins -> Transaction0]
         /\ \A x \in Logins :
              /\ Without(some)[x].replaces = login[x].replaces
              /\ Without(some)[x].state = IF x \in some /\ x \in Open THEN "gone"
                                          ELSE login[x].state
<1>1. ASSUME NEW x \in Logins
      PROVE  /\ [login[x] EXCEPT !.state = "gone"] \in Transaction0
             /\ [login[x] EXCEPT !.state = "gone"].state = "gone"
             /\ [login[x] EXCEPT !.state = "gone"].replaces = login[x].replaces
             /\ login[x] \in Transaction0
  BY DEF SessionsTyped, Transaction0
<1>2. ASSUME NEW x \in Logins
      PROVE  /\ Without(some)[x] \in Transaction0
             /\ Without(some)[x].replaces = login[x].replaces
             /\ Without(some)[x].state = IF x \in some /\ x \in Open THEN "gone"
                                         ELSE login[x].state
  BY <1>1 DEF Without
<1>3. Without(some) \in [Logins -> Transaction0]
  BY <1>2 DEF Without
<1> QED BY <1>2, <1>3

\* What only ends logins and sessions.
Ending0 ==
  /\ \A x \in Logins :
       /\ login'[x].replaces = login[x].replaces
       /\ login[x].state = "gone" => login'[x].state = "gone"
       /\ login'[x].state # "gone" => login[x].state # "gone"
       /\ x \in Open' => x \in Open
       /\ session'[x].there => session[x].there
       /\ session'[x].replaced = session[x].replaced
  /\ left' = left

LEMMA EndingKeeps ==
  ASSUME SessionsInv, SessionsTyped', Ending0
  PROVE  Succession'
<1>1. \A s \in Logins : /\ session[s].replaced \in Logins \cup {Nothing}
                        /\ login[s].replaces \in Logins \cup {Nothing}
  BY DEF SessionsInv, SessionsTyped, Session, Transaction0
<1> QED BY <1>1 DEF SessionsInv, Succession, Ending0, Open

\* What leaves credentials where they are.
Untouched ==
  /\ \A x \in Logins :
       /\ login[x].state = "gone" => login'[x].state = "gone"
       /\ session'[x].there => session[x].there
       /\ session'[x].refresh = session[x].refresh
       /\ session'[x].issued = session[x].issued
       /\ session'[x].holder = session[x].holder
  /\ UNCHANGED <<request, doubt>>

LEMMA UntouchedKeeps ==
  ASSUME SessionsInv, Untouched
  PROVE  InHand'
<1>1. Numbered'
  BY DEF SessionsInv, InHand, Numbered, Untouched
<1>2. ASSUME NEW r \in Requests
      PROVE  Awaits(r)' /\ Exchanges(r)'
  <2>1. request'[r] = request[r] /\ Awaits(r) /\ Exchanges(r)
    BY DEF SessionsInv, InHand, Untouched
  <2>2. Awaits(r)'
    BY <2>1 DEF Awaits, Untouched
  <2>3. CASE request[r].pc = "exchange"
    <3>1. request[r].of \in Logins
      BY <2>1, <2>3 DEF Awaits
    <3> QED BY <2>1, <2>2, <2>3, <3>1 DEF Exchanges, Untouched
  <2> QED BY <2>1, <2>2, <2>3 DEF Exchanges
<1> QED BY <1>1, <1>2 DEF InHand


-----------------------------------------------------------------------------
(* Logins *)

LEMMA LoginBeginsKeeps ==
  ASSUME SessionsInv, NEW l \in Logins, NEW s \in Logins \cup {Nothing},
         NEW earlier \in Logins \cup {Nothing}, LoginBegins(l, s, earlier)
  PROVE  SessionsInv'
<1> DEFINE o == [state |-> "open", replaces |-> IF There(s) THEN s ELSE Nothing]
           others == Without({earlier})
<1>1. /\ others \in [Logins -> Transaction0]
      /\ \A x \in Logins : /\ others[x].replaces = login[x].replaces
                           /\ others[x].state = IF x = earlier /\ x \in Open THEN "gone"
                                                ELSE login[x].state
  BY WithoutIs DEF SessionsInv
<1>2. o \in Transaction0 /\ o.state = "open" /\ o.replaces = IF There(s) THEN s ELSE Nothing
  BY DEF Transaction0, There
<1>3. /\ login' = [others EXCEPT ![l] = o] /\ login[l].state = "unused"
      /\ UNCHANGED <<session, request, left, doubt>>
  BY DEF LoginBegins
<1> HIDE DEF o, others
<1>4. /\ login' \in [Logins -> Transaction0] /\ login'[l] = o
      /\ \A x \in Logins : x # l => login'[x] = others[x]
  BY <1>1, <1>2, <1>3
<1>5. SessionsTyped'
  BY <1>3, <1>4 DEF SessionsInv, SessionsTyped
<1>6. /\ \A x \in Logins : login[x].state = "gone" => login'[x].state = "gone"
      /\ \A x \in Logins : x # l /\ x \in Open' => x \in Open
      /\ \A x \in Logins : x # l /\ login'[x].state # "gone" => login[x].state # "gone"
  BY <1>1, <1>3, <1>4 DEF Open
<1>7. InHand'
  BY <1>3, <1>6, UntouchedKeeps DEF Untouched
<1>8. o.replaces \notin left /\ (o.replaces # Nothing => login[o.replaces].state = "gone")
  BY <1>2, BrowserAssumption DEF SessionsInv, SessionsTyped, Succession, There
<1>9. Succession'
  <2>1. \A x \in Logins : login'[x].state # "gone" => ~session'[x].there /\ x \notin left'
    BY <1>3, <1>6 DEF SessionsInv, Succession
  <2>2. ASSUME NEW x \in Open'
        PROVE  /\ login'[x].replaces \notin left'
               /\ login'[x].replaces # Nothing => login'[login'[x].replaces].state = "gone"
    <3>1. CASE x = l
      <4>1. login'[x].replaces = o.replaces /\ o.replaces \in Logins \cup {Nothing}
        BY <1>2, <1>4, <3>1 DEF There
      <4> QED BY <1>3, <1>6, <1>8, <4>1
    <3>2. CASE x # l
      <4>1. x \in Open /\ login'[x].replaces = login[x].replaces
        BY <1>1, <1>4, <1>6, <3>2 DEF Open
      <4>2. login[x].replaces \in Logins \cup {Nothing}
        BY <4>1 DEF SessionsInv, SessionsTyped, Transaction0, Open
      <4> QED BY <1>3, <1>6, <4>1, <4>2 DEF SessionsInv, Succession
    <3> QED BY <3>1, <3>2
  <2>3. ASSUME NEW x \in Logins, session'[x].there
        PROVE  /\ x \notin left' /\ session'[x].replaced \notin left'
               /\ session'[x].replaced # Nothing =>
                    /\ ~session'[session'[x].replaced].there
                    /\ login'[session'[x].replaced].state = "gone"
    <3>1. session[x].replaced \in Logins \cup {Nothing}
      BY DEF SessionsInv, SessionsTyped, Session
    <3> QED BY <1>3, <1>6, <2>3, <3>1 DEF SessionsInv, Succession
  <2> QED BY <2>1, <2>2, <2>3 DEF Succession
<1> QED BY <1>5, <1>7, <1>9 DEF SessionsInv

\* Its end takes a session along, or only the attempt.
LEMMA LoginMovesKeeps ==
  ASSUME SessionsInv, NEW l \in Logins, CallbackBegins(l) \/ LoginEnds(l)
  PROVE  SessionsInv'
<1>1. UNCHANGED <<session, request, left, doubt>>
  BY DEF CallbackBegins, LoginEnds
<1>2. /\ login' \in [Logins -> Transaction0]
      /\ \A x \in Logins : /\ login'[x].replaces = login[x].replaces
                           /\ login[x].state = "gone" => login'[x].state = "gone"
                           /\ login'[x].state # "gone" => login[x].state # "gone"
                           /\ x \in Open' => x \in Open
  <2>1. CASE CallbackBegins(l)
    <3>1. /\ login[l].state = "open" /\ login \in [Logins -> Transaction0]
          /\ login' = [login EXCEPT ![l] = [login[l] EXCEPT !.state = "in_flight"]]
      BY <2>1 DEF CallbackBegins, SessionsInv, SessionsTyped
    <3>2. /\ [login[l] EXCEPT !.state = "in_flight"] \in Transaction0
          /\ [login[l] EXCEPT !.state = "in_flight"].replaces = login[l].replaces
          /\ [login[l] EXCEPT !.state = "in_flight"].state = "in_flight"
      BY <3>1 DEF Transaction0
    <3> QED BY <3>1, <3>2 DEF Open
  <2>2. CASE LoginEnds(l)
    <3>1. login' = Without({l})
      BY <2>2 DEF LoginEnds
    <3> QED BY <3>1, WithoutIs DEF SessionsInv, Open
  <2> QED BY <2>1, <2>2
<1>3. SessionsTyped' /\ Ending0 /\ Untouched
  BY <1>1, <1>2 DEF SessionsInv, SessionsTyped, Ending0, Untouched
<1> QED BY <1>3, EndingKeeps, UntouchedKeeps DEF SessionsInv

LEMMA CallbackEndsKeeps ==
  ASSUME SessionsInv, NEW l \in Logins, CallbackEnds(l)
  PROVE  SessionsInv'
<1> DEFINE old    == login[l].replaces
           others == Removed({old})
           new    == [NoSession EXCEPT !.there = TRUE, !.refresh = 1, !.issued = 1,
                                       !.replaced = old]
<1>1. /\ login[l].state = "in_flight" /\ l \in Open
      /\ ~session[l].there /\ l \notin left /\ old \notin left
      /\ old \in Logins \cup {Nothing}
      /\ old # Nothing => login[old].state = "gone" /\ old # l
  BY DEF CallbackEnds, Open, SessionsInv, SessionsTyped, Transaction0, Succession
<1>2. /\ new \in Session /\ new.there /\ new.refresh = 1 /\ new.issued = 1
      /\ new.holder = Nothing /\ new.replaced = old
  <2> DEFINE n1 == [NoSession EXCEPT !.there = TRUE]
             n2 == [n1 EXCEPT !.refresh = 1]
             n3 == [n2 EXCEPT !.issued = 1]
             n4 == [n3 EXCEPT !.replaced = old]
  <2>1. 1 \in 0..MaxRefresh /\ 0 \in 0..MaxRefresh
    BY BrowserAssumption
  <2>2. n1 \in Session /\ n1.there /\ n1.holder = Nothing
    BY <2>1 DEF NoSession, Session
  <2>3. n2 \in Session /\ n2.there /\ n2.refresh = 1 /\ n2.holder = Nothing
    <3> HIDE DEF n1
    <3> QED BY <2>1, <2>2 DEF Session
  <2>4. n3 \in Session /\ n3.there /\ n3.refresh = 1 /\ n3.issued = 1 /\ n3.holder = Nothing
    <3> HIDE DEF n2
    <3> QED BY <2>1, <2>3 DEF Session
  <2>5. /\ n4 \in Session /\ n4.there /\ n4.refresh = 1 /\ n4.issued = 1
        /\ n4.holder = Nothing /\ n4.replaced = old
    <3> HIDE DEF n3
    <3> QED BY <1>1, <2>4 DEF Session
  <2>6. n4 = new
    BY DEF NoSession
  <2> HIDE DEF n4, new
  <2> QED BY <2>5, <2>6
<1>3. login' = Without({l}) /\ session' = [others EXCEPT ![l] = new]
  BY <1>2 DEF CallbackEnds
<1>4. /\ login' \in [Logins -> Transaction0]
      /\ \A x \in Logins : /\ login'[x].replaces = login[x].replaces
                           /\ login'[x].state = IF x = l THEN "gone" ELSE login[x].state
  BY <1>1, <1>3, WithoutIs DEF SessionsInv
<1>5. /\ others \in [Logins -> Session]
      /\ \A x \in Logins : /\ others[x].there = (x # old /\ session[x].there)
                           /\ others[x].refresh = session[x].refresh
                           /\ others[x].issued = session[x].issued
                           /\ others[x].holder = session[x].holder
                           /\ others[x].replaced = session[x].replaced
  BY RemovedIs DEF SessionsInv
<1> HIDE DEF others
<1>6. /\ session' \in [Logins -> Session] /\ session'[l] = new
      /\ \A x \in Logins : x # l => session'[x] = others[x]
  BY <1>2, <1>3, <1>5
<1> HIDE DEF new
<1>7. UNCHANGED <<request, left, doubt>>
  BY DEF CallbackEnds
<1>8. SessionsTyped'
  BY <1>4, <1>6, <1>7 DEF SessionsInv, SessionsTyped
<1>9. Succession'
  <2>1. \A x \in Logins : login'[x].state # "gone" => ~session'[x].there /\ x \notin left'
    BY <1>4, <1>5, <1>6, <1>7 DEF SessionsInv, Succession
  <2>2. ASSUME NEW x \in Open'
        PROVE  /\ login'[x].replaces \notin left'
               /\ login'[x].replaces # Nothing => login'[login'[x].replaces].state = "gone"
    <3>1. x \in Open /\ login'[x].replaces = login[x].replaces
      BY <1>4 DEF Open
    <3>2. login[x].replaces \in Logins \cup {Nothing}
      BY <3>1 DEF SessionsInv, SessionsTyped, Transaction0, Open
    <3> QED BY <1>4, <1>7, <3>1, <3>2 DEF SessionsInv, Succession
  <2>3. ASSUME NEW x \in Logins, session'[x].there
        PROVE  /\ x \notin left' /\ session'[x].replaced \notin left'
               /\ session'[x].replaced # Nothing =>
                    /\ ~session'[session'[x].replaced].there
                    /\ login'[session'[x].replaced].state = "gone"
    <3>1. CASE x = l
      <4>1. session'[x].replaced = old /\ x \notin left' /\ old \notin left'
        BY <1>1, <1>2, <1>6, <1>7, <3>1
      <4>2. CASE old # Nothing
        <5>1. old \in Logins /\ old # l /\ login[old].state = "gone"
          BY <1>1, <4>2
        <5>2. session'[old] = others[old] /\ ~others[old].there
          BY <1>5, <1>6, <5>1
        <5> QED BY <1>4, <4>1, <5>1, <5>2
      <4> QED BY <4>1, <4>2
    <3>2. CASE x # l
      <4>1. session[x].there /\ session'[x].replaced = session[x].replaced
        BY <1>5, <1>6, <2>3, <3>2
      <4>2. session[x].replaced \in Logins \cup {Nothing}
        BY DEF SessionsInv, SessionsTyped, Session
      <4>3. session[x].replaced # Nothing => session[x].replaced # l
        BY <1>1, <4>1 DEF SessionsInv, Succession
      <4>4. /\ x \notin left /\ session[x].replaced \notin left
            /\ session[x].replaced # Nothing =>
                 /\ ~session[session[x].replaced].there
                 /\ login[session[x].replaced].state = "gone"
        BY <4>1 DEF SessionsInv, Succession
      <4>5. CASE session[x].replaced # Nothing
        <5>1. session[x].replaced \in Logins /\ session[x].replaced # l
          BY <4>2, <4>3, <4>5
        <5>2. ~session'[session[x].replaced].there
          BY <1>5, <1>6, <4>4, <4>5, <5>1
        <5> QED BY <1>4, <1>7, <4>1, <4>4, <4>5, <5>1, <5>2
      <4> QED BY <1>7, <4>1, <4>4, <4>5
    <3> QED BY <3>1, <3>2
  <2> QED BY <2>1, <2>2, <2>3 DEF Succession
<1>10. Numbered'
  <2>1. \A n \in 0..MaxRefresh : <<l, n>> \notin doubt
    BY <1>1 DEF SessionsInv, InHand, Numbered
  <2>2. 1 \in 0..MaxRefresh
    BY BrowserAssumption
  <2>3. ASSUME NEW x \in Logins
        PROVE  /\ session'[x].refresh <= session'[x].issued
               /\ session'[x].there /\ session'[x].refresh # 0 =>
                    <<x, session'[x].refresh>> \notin doubt'
    <3>1. CASE x = l
      BY <1>2, <1>6, <1>7, <2>1, <2>2, <3>1
    <3>2. CASE x # l
      BY <1>5, <1>6, <1>7, <3>2 DEF SessionsInv, InHand, Numbered
    <3> QED BY <3>1, <3>2
  <2>4. ASSUME NEW x \in Logins, NEW n \in 0..MaxRefresh, <<x, n>> \in doubt'
        PROVE  n <= session'[x].issued /\ login'[x].state = "gone"
    <3>1. x # l
      BY <1>7, <2>1, <2>4
    <3> QED BY <1>4, <1>5, <1>6, <1>7, <2>4, <3>1 DEF SessionsInv, InHand, Numbered
  <2> QED BY <2>3, <2>4 DEF Numbered
<1>11. ASSUME NEW r \in Requests
       PROVE  Awaits(r)' /\ Exchanges(r)'
  <2>1. request'[r] = request[r] /\ Awaits(r) /\ Exchanges(r)
    BY <1>7 DEF SessionsInv, InHand
  <2>2. CASE request[r].pc \in {"credentials", "exchange"}
    <3>1. request[r].of \in Logins /\ request[r].of # l
      BY <1>1, <2>1, <2>2 DEF Awaits
    <3>2. Awaits(r)'
      BY <1>4, <2>1, <2>2, <3>1 DEF Awaits
    <3> QED BY <1>5, <1>6, <1>7, <2>1, <3>1, <3>2 DEF Exchanges
  <2>3. CASE request[r].pc \notin {"credentials", "exchange"}
    BY <2>1, <2>3 DEF Awaits, Exchanges
  <2> QED BY <2>2, <2>3
<1> QED BY <1>8, <1>9, <1>10, <1>11 DEF SessionsInv, InHand


-----------------------------------------------------------------------------
(* Requests *)

LEMMA ThereSet ==
  ASSUME NEW x \in Session
  PROVE  LET y == [x EXCEPT !.there = FALSE]
         IN  /\ y \in Session /\ ~y.there /\ y.refresh = x.refresh /\ y.issued = x.issued
             /\ y.holder = x.holder /\ y.replaced = x.replaced
  BY DEF Session

LEMMA StaleSet ==
  ASSUME NEW x \in Session, NEW t \in BOOLEAN
  PROVE  LET y == [x EXCEPT !.stale = t]
         IN  /\ y \in Session /\ y.there = x.there /\ y.refresh = x.refresh
             /\ y.issued = x.issued /\ y.holder = x.holder /\ y.replaced = x.replaced
  BY DEF Session

LEMMA HolderSet ==
  ASSUME NEW x \in Session, NEW h \in Requests \cup {Nothing}
  PROVE  LET y == [x EXCEPT !.holder = h]
         IN  /\ y \in Session /\ y.there = x.there /\ y.refresh = x.refresh
             /\ y.issued = x.issued /\ y.holder = h /\ y.replaced = x.replaced
  BY DEF Session

LEMMA RefreshSet ==
  ASSUME NEW x \in Session, NEW n \in 0..MaxRefresh
  PROVE  LET y == [x EXCEPT !.refresh = n]
         IN  /\ y \in Session /\ y.there = x.there /\ y.refresh = n
             /\ y.issued = x.issued /\ y.holder = x.holder /\ y.replaced = x.replaced
  BY DEF Session

LEMMA IssuedSet ==
  ASSUME NEW x \in Session, NEW n \in 0..MaxRefresh
  PROVE  LET y == [x EXCEPT !.issued = n]
         IN  /\ y \in Session /\ y.there = x.there /\ y.refresh = x.refresh
             /\ y.issued = n /\ y.holder = x.holder /\ y.replaced = x.replaced
  BY DEF Session

LEMMA RequestSet ==
  ASSUME NEW x \in Request, NEW pc \in RequestPcs
  PROVE  LET q == [x EXCEPT !.pc = pc]
         IN  q \in Request /\ q.pc = pc /\ q.of = x.of
  BY DEF Request

LEMMA CredentialSet ==
  ASSUME NEW x \in Request, NEW n \in 0..MaxRefresh
  PROVE  LET q == [x EXCEPT !.credential = n]
         IN  q \in Request /\ q.pc = x.pc /\ q.of = x.of /\ q.credential = n
  BY DEF Request

\* What is known of the session a waiting or exchanging request is about.
LEMMA HeldSession ==
  ASSUME SessionsInv, NEW r \in Requests, request[r].pc \in {"credentials", "exchange"},
         NEW s, s = request[r].of
  PROVE  /\ s \in Logins /\ login[s].state = "gone"
         /\ session[s] \in Session /\ request[r] \in Request
         /\ session \in [Logins -> Session] /\ request \in [Requests -> Request]
         /\ session[s].refresh \in 0..MaxRefresh /\ session[s].issued \in 0..MaxRefresh
         /\ session[s].refresh <= session[s].issued
         /\ request[r].credential \in 0..MaxRefresh
         /\ session[s].there /\ session[s].refresh # 0 =>
              <<s, session[s].refresh>> \notin doubt
         /\ \A n \in 0..MaxRefresh : <<s, n>> \in doubt => n <= session[s].issued
         /\ request[r].pc = "exchange" =>
              /\ request[r].credential <= session[s].issued
              /\ <<s, request[r].credential>> \notin doubt
              /\ session[s].holder = r /\ session[s].refresh = 0
<1>1. session \in [Logins -> Session] /\ request \in [Requests -> Request]
  BY DEF SessionsInv, SessionsTyped
<1>2. s \in Logins /\ login[s].state = "gone"
  BY DEF SessionsInv, InHand, Awaits
<1>3. session[s] \in Session /\ request[r] \in Request
  BY <1>1, <1>2
<1>4. /\ session[s].refresh \in 0..MaxRefresh /\ session[s].issued \in 0..MaxRefresh
      /\ request[r].credential \in 0..MaxRefresh
  BY <1>3 DEF Session, Request
<1>5. /\ session[s].refresh <= session[s].issued
      /\ session[s].there /\ session[s].refresh # 0 => <<s, session[s].refresh>> \notin doubt
      /\ \A n \in 0..MaxRefresh : <<s, n>> \in doubt => n <= session[s].issued
  BY <1>2 DEF SessionsInv, InHand, Numbered
<1>6. request[r].pc = "exchange" =>
        /\ request[r].credential <= session[s].issued
        /\ <<s, request[r].credential>> \notin doubt
        /\ session[s].holder = r /\ session[s].refresh = 0
  BY DEF SessionsInv, InHand, Exchanges
<1> QED BY <1>1, <1>2, <1>3, <1>4, <1>5, <1>6

\* One request moves, and the one session it holds or is first to hold. Of a session one
\* request holds, no other is in an exchange.
LEMMA RequestMovesKeeps ==
  ASSUME SessionsInv, NEW r \in Requests, NEW s \in Logins, NEW n \in 0..MaxRefresh,
         NEW y \in Session, NEW q \in Request,
         session' = [session EXCEPT ![s] = y], request' = [request EXCEPT ![r] = q],
         UNCHANGED <<login, left>>, doubt' \in {doubt, doubt \cup {<<s, n>>}},
         login[s].state = "gone", session[s].holder \in {Nothing, r}, n <= session[s].issued,
         y.there => session[s].there, y.replaced = session[s].replaced,
         y.issued >= session[s].issued, y.refresh <= y.issued,
         y.there /\ y.refresh # 0 => <<s, y.refresh>> \notin doubt',
         q.pc # "credentials",
         q.pc = "exchange" => /\ q.of = s /\ q.credential <= y.issued
                              /\ <<s, q.credential>> \notin doubt'
                              /\ y.holder = r /\ y.refresh = 0
  PROVE  SessionsInv'
<1>1. /\ session \in [Logins -> Session] /\ request \in [Requests -> Request]
      /\ login \in [Logins -> Transaction0] /\ left \subseteq Logins
  BY DEF SessionsInv, SessionsTyped
<1>2. /\ session' \in [Logins -> Session] /\ session'[s] = y
      /\ \A x \in Logins : x # s => session'[x] = session[x]
  BY <1>1
<1>3. /\ request' \in [Requests -> Request] /\ request'[r] = q
      /\ \A p \in Requests : p # r => request'[p] = request[p]
  BY <1>1
<1>4. SessionsTyped'
  BY <1>1, <1>2, <1>3 DEF SessionsTyped
<1>5. Succession'
  <2>1. \A x \in Logins : /\ session'[x].there => session[x].there
                          /\ session'[x].replaced = session[x].replaced
    BY <1>2
  <2>2. Ending0
    BY <2>1 DEF Ending0, Open
  <2> QED BY <1>4, <2>2, EndingKeeps
<1>6. Numbered'
  <2>1. session[s].issued \in Nat /\ y.issued \in Nat /\ MaxRefresh \in Nat
    BY <1>1, BrowserAssumption DEF Session
  <2>2. ASSUME NEW x \in Logins
        PROVE  /\ session'[x].refresh <= session'[x].issued
               /\ session'[x].there /\ session'[x].refresh # 0 =>
                    <<x, session'[x].refresh>> \notin doubt'
    <3>1. CASE x = s
      BY <1>2, <3>1
    <3>2. CASE x # s
      <4>1. session'[x] = session[x]
        BY <1>2, <3>2
      <4>2. /\ session[x].refresh <= session[x].issued
            /\ session[x].there /\ session[x].refresh # 0 =>
                 <<x, session[x].refresh>> \notin doubt
        BY DEF SessionsInv, InHand, Numbered
      <4>3. <<x, session[x].refresh>> # <<s, n>>
        BY <3>2
      <4> QED BY <4>1, <4>2, <4>3
    <3> QED BY <3>1, <3>2
  <2>3. ASSUME NEW x \in Logins, NEW m \in 0..MaxRefresh, <<x, m>> \in doubt'
        PROVE  m <= session'[x].issued /\ login'[x].state = "gone"
    <3>1. CASE <<x, m>> \in doubt
      <4>1. m <= session[x].issued /\ login[x].state = "gone"
        BY <3>1 DEF SessionsInv, InHand, Numbered
      <4>2. CASE x = s
        BY <1>2, <2>1, <4>1, <4>2
      <4>3. CASE x # s
        BY <1>2, <4>1, <4>3
      <4> QED BY <4>2, <4>3
    <3>2. CASE <<x, m>> = <<s, n>>
      <4>1. x = s /\ m = n
        BY <3>2
      <4> QED BY <1>2, <2>1, <4>1
    <3> QED BY <2>3, <3>1, <3>2
  <2> QED BY <2>2, <2>3 DEF Numbered
<1>7. ASSUME NEW p \in Requests
      PROVE  Awaits(p)' /\ Exchanges(p)'
  <2>1. CASE p = r
    BY <1>2, <1>3, <2>1 DEF Awaits, Exchanges
  <2>2. CASE p # r
    <3>1. request'[p] = request[p] /\ Awaits(p) /\ Exchanges(p)
      BY <1>3, <2>2 DEF SessionsInv, InHand
    <3>2. Awaits(p)'
      BY <3>1 DEF Awaits
    <3>3. CASE request[p].pc = "exchange"
      <4>1. /\ request[p].of \in Logins /\ session[request[p].of].holder = p /\ p # Nothing
            /\ <<request[p].of, request[p].credential>> \notin doubt
            /\ request[p].credential <= session[request[p].of].issued
            /\ session[request[p].of].refresh = 0
        BY <3>1, <3>3, BrowserAssumption DEF Awaits, Exchanges
      <4>2. request[p].of # s
        BY <2>2, <4>1
      <4>3. session'[request[p].of] = session[request[p].of]
        BY <1>2, <4>1, <4>2
      <4>4. <<request[p].of, request[p].credential>> # <<s, n>>
        BY <4>2
      <4>5. <<request[p].of, request[p].credential>> \notin doubt'
        BY <4>1, <4>4
      <4> QED BY <3>1, <3>2, <4>1, <4>3, <4>5 DEF Exchanges
    <3> QED BY <3>1, <3>2, <3>3 DEF Exchanges
  <2> QED BY <2>1, <2>2
<1> QED BY <1>4, <1>5, <1>6, <1>7 DEF SessionsInv, InHand

\* The same, of a step that leaves no credential in doubt.
LEMMA RequestMovesSurely ==
  ASSUME SessionsInv, NEW r \in Requests, NEW s \in Logins,
         NEW y \in Session, NEW q \in Request,
         session' = [session EXCEPT ![s] = y], request' = [request EXCEPT ![r] = q],
         UNCHANGED <<login, left, doubt>>,
         login[s].state = "gone", session[s].holder \in {Nothing, r},
         y.there => session[s].there, y.replaced = session[s].replaced,
         y.issued >= session[s].issued, y.refresh <= y.issued,
         y.there /\ y.refresh # 0 => <<s, y.refresh>> \notin doubt,
         q.pc # "credentials",
         q.pc = "exchange" => /\ q.of = s /\ q.credential <= y.issued
                              /\ <<s, q.credential>> \notin doubt
                              /\ y.holder = r /\ y.refresh = 0
  PROVE  SessionsInv'
<1>1. PICK n \in 0..MaxRefresh : n <= session[s].issued
  <2>1. session[s].issued \in 0..MaxRefresh
    BY DEF SessionsInv, SessionsTyped, Session
  <2> QED BY <2>1, BrowserAssumption
<1>2. doubt' \in {doubt, doubt \cup {<<s, n>>}}
  OBVIOUS
<1> QED BY <1>1, <1>2, RequestMovesKeeps

\* Requests that only begin, wait or end.
LEMMA QuietRequestKeeps ==
  ASSUME SessionsInv, NEW r \in Requests, NEW q \in Request,
         request' = [request EXCEPT ![r] = q], UNCHANGED <<login, session, left, doubt>>,
         q.pc # "exchange",
         q.pc = "credentials" => q.of \in Logins /\ login[q.of].state = "gone"
  PROVE  SessionsInv'
<1>1. request \in [Requests -> Request]
  BY DEF SessionsInv, SessionsTyped
<1>2. /\ request' \in [Requests -> Request] /\ request'[r] = q
      /\ \A p \in Requests : p # r => request'[p] = request[p]
  BY <1>1
<1>3. SessionsTyped' /\ Succession' /\ Numbered'
  <2>1. SessionsTyped'
    BY <1>2 DEF SessionsInv, SessionsTyped
  <2>2. Ending0
    BY DEF Ending0, Open
  <2>3. Numbered'
    BY DEF SessionsInv, InHand, Numbered
  <2> QED BY <2>1, <2>2, <2>3, EndingKeeps
<1>4. ASSUME NEW p \in Requests
      PROVE  Awaits(p)' /\ Exchanges(p)'
  <2>1. CASE p = r
    BY <1>2, <2>1 DEF Awaits, Exchanges
  <2>2. CASE p # r
    <3>1. request'[p] = request[p] /\ Awaits(p) /\ Exchanges(p)
      BY <1>2, <2>2 DEF SessionsInv, InHand
    <3> QED BY <3>1 DEF Awaits, Exchanges
  <2> QED BY <2>1, <2>2
<1> QED BY <1>3, <1>4 DEF SessionsInv, InHand

LEMMA RequestBeginsKeeps ==
  ASSUME SessionsInv, NEW r \in Requests, NEW s \in Logins, RequestBegins(r, s)
  PROVE  SessionsInv'
<1> DEFINE q == [pc |-> "credentials", of |-> s, credential |-> 0]
<1>1. q \in Request
  BY BrowserAssumption DEF Request, RequestPcs
<1>2. login[s].state = "gone"
  BY DEF RequestBegins, There, SessionsInv, Succession
<1> QED BY <1>1, <1>2, QuietRequestKeeps DEF RequestBegins

LEMMA RequestEndsKeeps ==
  ASSUME SessionsInv, NEW r \in Requests, RequestEnds(r)
  PROVE  SessionsInv'
<1> DEFINE q == [pc |-> "idle", of |-> Nothing, credential |-> 0]
<1>1. q \in Request
  BY BrowserAssumption DEF Request, RequestPcs
<1> QED BY <1>1, QuietRequestKeeps DEF RequestEnds

LEMMA RequestResolvesKeeps ==
  ASSUME SessionsInv, NEW r \in Requests, RequestResolves(r)
  PROVE  SessionsInv'
<1>1. PICK pc \in {"resolved", "refused"} : request' = [request EXCEPT ![r].pc = pc]
  BY DEF RequestResolves
<1>2. request[r] \in Request /\ request \in [Requests -> Request] /\ 0 \in 0..MaxRefresh
  BY BrowserAssumption DEF SessionsInv, SessionsTyped
<1> DEFINE q == [request[r] EXCEPT !.pc = pc]
<1>3. q \in Request /\ q.pc = pc
  <2>1. pc \in RequestPcs
    BY DEF RequestPcs
  <2> QED BY <1>2, <2>1, RequestSet
<1>4. request' = [request EXCEPT ![r] = q]
  BY <1>1, <1>2
<1> HIDE DEF q
<1>5. UNCHANGED <<login, session, left, doubt>> /\ q.pc # "exchange" /\ q.pc # "credentials"
  BY <1>3 DEF RequestResolves
<1> QED BY <1>3, <1>4, <1>5, QuietRequestKeeps

LEMMA RefreshBeginsKeeps ==
  ASSUME SessionsInv, NEW r \in Requests, RefreshBegins(r)
  PROVE  SessionsInv'
<1>1. PICK s : s = request[r].of
  OBVIOUS
<1>2. request[r].pc = "credentials"
  BY DEF RefreshBegins
<1>3. /\ s \in Logins /\ login[s].state = "gone"
      /\ session[s] \in Session /\ request[r] \in Request
      /\ session \in [Logins -> Session] /\ request \in [Requests -> Request]
      /\ session[s].refresh \in 0..MaxRefresh /\ session[s].issued \in 0..MaxRefresh
      /\ session[s].refresh <= session[s].issued
      /\ session[s].there /\ session[s].refresh # 0 =>
           <<s, session[s].refresh>> \notin doubt
  BY <1>1, <1>2, HeldSession
<1>4. /\ session[s].holder = Nothing /\ session[s].there
      /\ UNCHANGED <<login, left, doubt>>
  BY <1>1 DEF RefreshBegins
<1>5. /\ 0 \in 0..MaxRefresh /\ 0 <= session[s].issued
      /\ session[s].issued >= session[s].issued
  BY <1>3, BrowserAssumption
<1>6. CASE session[s].refresh = 0
  <2> DEFINE y == [session[s] EXCEPT !.there = FALSE]
             q == [request[r] EXCEPT !.pc = "refused"]
  <2>1. /\ y \in Session /\ ~y.there /\ y.refresh = session[s].refresh
        /\ y.issued = session[s].issued /\ y.replaced = session[s].replaced
    BY <1>3, ThereSet
  <2>2. q \in Request /\ q.pc = "refused"
    BY <1>3, <1>5, RequestSet DEF RequestPcs
  <2>3. session' = [session EXCEPT ![s] = y] /\ request' = [request EXCEPT ![r] = q]
    BY <1>1, <1>3, <1>6 DEF RefreshBegins, Removed
  <2> HIDE DEF y, q
  <2> QED BY <1>3, <1>4, <1>5, <2>1, <2>2, <2>3, RequestMovesSurely
<1>7. CASE session[s].refresh # 0
  <2> DEFINE y1 == [session[s] EXCEPT !.holder = r]
             y  == [y1 EXCEPT !.refresh = 0]
             q1 == [request[r] EXCEPT !.pc = "exchange"]
             q  == [q1 EXCEPT !.credential = session[s].refresh]
  <2>1. /\ y1 \in Session /\ y1.there = session[s].there /\ y1.holder = r
        /\ y1.issued = session[s].issued /\ y1.replaced = session[s].replaced
    BY <1>3, HolderSet
  <2>2. /\ y \in Session /\ y.there = session[s].there /\ y.holder = r /\ y.refresh = 0
        /\ y.issued = session[s].issued /\ y.replaced = session[s].replaced
    <3> HIDE DEF y1
    <3> QED BY <1>5, <2>1, RefreshSet
  <2>3. /\ q \in Request /\ q.pc = "exchange" /\ q.of = s
        /\ q.credential = session[s].refresh
    <3>1. q1 \in Request /\ q1.pc = "exchange" /\ q1.of = s
      BY <1>1, <1>3, RequestSet DEF RequestPcs
    <3> HIDE DEF q1
    <3> QED BY <1>3, <3>1, CredentialSet
  <2>4. session' = [session EXCEPT ![s] = y] /\ request' = [request EXCEPT ![r] = q]
    BY <1>1, <1>3, <1>7 DEF RefreshBegins
  <2> HIDE DEF y, q
  <2>5. <<s, q.credential>> \notin doubt /\ q.credential <= y.issued
    BY <1>3, <1>4, <1>7, <2>2, <2>3
  <2> QED BY <1>3, <1>4, <1>5, <2>2, <2>3, <2>4, <2>5, RequestMovesSurely
<1> QED BY <1>6, <1>7

LEMMA RefreshFailsKeeps ==
  ASSUME SessionsInv, NEW r \in Requests, RefreshFails(r)
  PROVE  SessionsInv'
<1>1. PICK s : s = request[r].of
  OBVIOUS
<1>2. PICK n : n = request[r].credential
  OBVIOUS
<1>3. request[r].pc = "exchange"
  BY DEF RefreshFails
<1>4. /\ s \in Logins /\ login[s].state = "gone"
      /\ session[s] \in Session /\ request[r] \in Request
      /\ session \in [Logins -> Session] /\ request \in [Requests -> Request]
      /\ session[s].issued \in 0..MaxRefresh /\ n \in 0..MaxRefresh
      /\ n <= session[s].issued /\ session[s].holder = r /\ session[s].refresh = 0
  BY <1>1, <1>2, <1>3, HeldSession
<1>5. UNCHANGED <<login, left>> /\ doubt' = doubt \cup {<<s, n>>}
  BY <1>1, <1>2 DEF RefreshFails
<1> DEFINE y1 == [session[s] EXCEPT !.there = FALSE]
           y  == [y1 EXCEPT !.holder = Nothing]
           q  == [request[r] EXCEPT !.pc = "refused"]
<1>6. /\ y1 \in Session /\ ~y1.there /\ y1.refresh = 0
      /\ y1.issued = session[s].issued /\ y1.replaced = session[s].replaced
  BY <1>4, ThereSet
<1>7. /\ y \in Session /\ ~y.there /\ y.refresh = 0
      /\ y.issued = session[s].issued /\ y.replaced = session[s].replaced
  <2> HIDE DEF y1
  <2> QED BY <1>6, HolderSet
<1>8. q \in Request /\ q.pc = "refused"
  BY <1>4, RequestSet DEF RequestPcs
<1>9. session' = [session EXCEPT ![s] = y] /\ request' = [request EXCEPT ![r] = q]
  <2>1. Removed({s}) = [session EXCEPT ![s] = y1]
    BY <1>4 DEF Removed
  <2>2. session' = [Removed({s}) EXCEPT ![s].holder = Nothing]
    BY <1>1 DEF RefreshFails
  <2>3. request' = [request EXCEPT ![r] = q]
    BY <1>4 DEF RefreshFails
  <2> HIDE DEF y1
  <2> QED BY <1>4, <1>6, <2>1, <2>2, <2>3
<1> HIDE DEF y, q
<1>10. session[s].issued >= session[s].issued /\ 0 <= session[s].issued
  BY <1>4, BrowserAssumption
<1> QED BY <1>4, <1>5, <1>7, <1>8, <1>9, <1>10, RequestMovesKeeps

LEMMA RefreshEndsKeeps ==
  ASSUME SessionsInv, NEW r \in Requests, RefreshEnds(r)
  PROVE  SessionsInv'
<1>1. PICK s : s = request[r].of
  OBVIOUS
<1>2. request[r].pc = "exchange" /\ UNCHANGED <<login, left, doubt>>
  BY DEF RefreshEnds
<1>3. /\ s \in Logins /\ login[s].state = "gone"
      /\ session[s] \in Session /\ request[r] \in Request
      /\ session \in [Logins -> Session] /\ request \in [Requests -> Request]
      /\ session[s].issued \in 0..MaxRefresh
      /\ \A n \in 0..MaxRefresh : <<s, n>> \in doubt => n <= session[s].issued
      /\ request[r].credential \in 0..MaxRefresh
      /\ request[r].credential <= session[s].issued
      /\ <<s, request[r].credential>> \notin doubt
      /\ session[s].holder = r /\ session[s].refresh = 0
  BY <1>1, <1>2, HeldSession
<1>4. /\ 0 \in 0..MaxRefresh /\ 0 <= session[s].issued
      /\ session[s].issued >= session[s].issued
  BY <1>3, BrowserAssumption
<1> DEFINE y1 == [session[s] EXCEPT !.holder = Nothing]
<1>5. /\ y1 \in Session /\ y1.there = session[s].there /\ y1.refresh = 0
      /\ y1.issued = session[s].issued /\ y1.replaced = session[s].replaced
  BY <1>3, HolderSet
<1>6. CASE session[s].there
  <2>1. PICK n \in {request[r].credential, session[s].issued + 1} :
          /\ n <= MaxRefresh
          /\ session' = [session EXCEPT
               ![s].holder = Nothing, ![s].stale = FALSE, ![s].refresh = n,
               ![s].issued = IF n > @ THEN n ELSE @]
    <3>1. session[request[r].of].there
      BY <1>1, <1>6
    <3>2. \E n \in {request[r].credential, session[request[r].of].issued + 1} :
            /\ n <= MaxRefresh
            /\ session' = [session EXCEPT
                 ![request[r].of].holder = Nothing, ![request[r].of].stale = FALSE,
                 ![request[r].of].refresh = n,
                 ![request[r].of].issued = IF n > @ THEN n ELSE @]
      BY <3>1, Zenon DEF RefreshEnds
    <3>3. PICK n \in {request[r].credential, session[request[r].of].issued + 1} :
            /\ n <= MaxRefresh
            /\ session' = [session EXCEPT
                 ![request[r].of].holder = Nothing, ![request[r].of].stale = FALSE,
                 ![request[r].of].refresh = n,
                 ![request[r].of].issued = IF n > @ THEN n ELSE @]
      BY <3>2, Zenon
    <3>4. n \in {request[r].credential, session[s].issued + 1}
      BY <1>1, <3>3
    <3>5. session' = [session EXCEPT
             ![s].holder = Nothing, ![s].stale = FALSE, ![s].refresh = n,
             ![s].issued = IF n > @ THEN n ELSE @]
      BY <1>1, <3>3
    <3> QED BY <3>3, <3>4, <3>5, Zenon
  <2>2. n \in 0..MaxRefresh /\ <<s, n>> \notin doubt
    <3>1. CASE n = request[r].credential
      BY <1>3, <3>1
    <3>2. CASE n = session[s].issued + 1
      <4>1. n \in 0..MaxRefresh /\ ~(n <= session[s].issued)
        BY <1>3, <2>1, <3>2, BrowserAssumption
      <4> QED BY <1>3, <4>1
    <3> QED BY <2>1, <3>1, <3>2
  <2>3. PICK m \in 0..MaxRefresh : /\ m = IF n > session[s].issued THEN n ELSE session[s].issued
                                   /\ n <= m /\ m >= session[s].issued
    BY <1>3, <2>2, BrowserAssumption
  <2> DEFINE y2 == [y1 EXCEPT !.stale = FALSE]
             y3 == [y2 EXCEPT !.refresh = n]
             y  == [y3 EXCEPT !.issued = m]
             q  == [request[r] EXCEPT !.pc = "resolved"]
  <2>4. /\ y2 \in Session /\ y2.there = session[s].there
        /\ y2.replaced = session[s].replaced /\ y2.issued = session[s].issued
    <3> HIDE DEF y1
    <3> QED BY <1>5, StaleSet
  <2>5. /\ y3 \in Session /\ y3.there = session[s].there /\ y3.refresh = n
        /\ y3.replaced = session[s].replaced /\ y3.issued = session[s].issued
    <3> HIDE DEF y2
    <3> QED BY <2>2, <2>4, RefreshSet
  <2>6. /\ y \in Session /\ y.there = session[s].there /\ y.refresh = n /\ y.issued = m
        /\ y.replaced = session[s].replaced
    <3> HIDE DEF y3
    <3> QED BY <2>3, <2>5, IssuedSet
  <2>7. q \in Request /\ q.pc = "resolved"
    BY <1>3, RequestSet DEF RequestPcs
  <2>8. request' = [request EXCEPT ![r] = q]
    BY <1>1, <1>3, <1>6 DEF RefreshEnds
  <2>9. session' = [session EXCEPT ![s] = y]
    <3>1. session' = [session EXCEPT ![s] =
            [session[s] EXCEPT !.holder = Nothing, !.stale = FALSE, !.refresh = n,
                               !.issued = m]]
      BY <1>3, <2>1, <2>3 DEF Session
    <3> QED BY <3>1
  <2> HIDE DEF y, q
  <2> QED BY <1>2, <1>3, <1>4, <2>2, <2>3, <2>6, <2>7, <2>8, <2>9, RequestMovesSurely
<1>7. CASE ~session[s].there
  <2> DEFINE q == [request[r] EXCEPT !.pc = "refused"]
  <2>1. q \in Request /\ q.pc = "refused"
    BY <1>3, RequestSet DEF RequestPcs
  <2>2. session' = [session EXCEPT ![s] = y1] /\ request' = [request EXCEPT ![r] = q]
    BY <1>1, <1>3, <1>7 DEF RefreshEnds
  <2> HIDE DEF y1, q
  <2> QED BY <1>2, <1>3, <1>4, <1>5, <1>7, <2>1, <2>2, RequestMovesSurely
<1> QED BY <1>6, <1>7

-----------------------------------------------------------------------------
(* Logout, time, restart *)

LEMMA LogoutKeeps ==
  ASSUME SessionsInv, NEW s \in Logins, NEW binding \in Logins \cup {Nothing},
         Logout(s, binding)
  PROVE  SessionsInv'
<1> DEFINE some == {binding} \cup {l \in Logins : login[l].replaces = s}
<1>1. /\ session[s].there /\ login[s].state = "gone"
      /\ session' = Removed({s}) /\ login' = Without(some) /\ left' = left \cup {s}
      /\ UNCHANGED <<request, doubt>>
  BY DEF Logout, There, SessionsInv, Succession
<1>2. /\ session' \in [Logins -> Session]
      /\ \A x \in Logins : /\ session'[x].there = (x # s /\ session[x].there)
                           /\ session'[x].refresh = session[x].refresh
                           /\ session'[x].issued = session[x].issued
                           /\ session'[x].holder = session[x].holder
                           /\ session'[x].replaced = session[x].replaced
  BY <1>1, RemovedIs DEF SessionsInv
<1>3. /\ login' \in [Logins -> Transaction0]
      /\ \A x \in Logins : /\ login'[x].replaces = login[x].replaces
                           /\ login'[x].state = IF x \in some /\ x \in Open THEN "gone"
                                                ELSE login[x].state
  <2> HIDE DEF some
  <2> QED BY <1>1, WithoutIs DEF SessionsInv
<1>4. \A x \in Logins : /\ login[x].state = "gone" => login'[x].state = "gone"
                        /\ login'[x].state # "gone" => login[x].state # "gone"
                        /\ x \in Open' => x \in Open /\ login[x].replaces # s
  BY <1>3 DEF Open
<1>5. SessionsTyped'
  BY <1>1, <1>2, <1>3 DEF SessionsInv, SessionsTyped
<1>6. InHand'
  <2>1. Untouched
    BY <1>1, <1>2, <1>4 DEF Untouched
  <2> QED BY <2>1, UntouchedKeeps
<1>7. Succession'
  <2>1. \A x \in Logins : login'[x].state # "gone" => ~session'[x].there /\ x \notin left'
    BY <1>1, <1>2, <1>4 DEF SessionsInv, Succession
  <2>2. ASSUME NEW x \in Open'
        PROVE  /\ login'[x].replaces \notin left'
               /\ login'[x].replaces # Nothing => login'[login'[x].replaces].state = "gone"
    <3>1. x \in Open /\ login'[x].replaces = login[x].replaces /\ login[x].replaces # s
      BY <1>3, <1>4 DEF Open
    <3>2. login[x].replaces \in Logins \cup {Nothing}
      BY <3>1 DEF SessionsInv, SessionsTyped, Transaction0, Open
    <3> QED BY <1>1, <1>4, <3>1, <3>2 DEF SessionsInv, Succession
  <2>3. ASSUME NEW x \in Logins, session'[x].there
        PROVE  /\ x \notin left' /\ session'[x].replaced \notin left'
               /\ session'[x].replaced # Nothing =>
                    /\ ~session'[session'[x].replaced].there
                    /\ login'[session'[x].replaced].state = "gone"
    <3>1. session[x].there /\ x # s /\ session'[x].replaced = session[x].replaced
      BY <1>2, <2>3
    <3>2. session[x].replaced \in Logins \cup {Nothing}
      BY DEF SessionsInv, SessionsTyped, Session
    <3>3. /\ x \notin left /\ session[x].replaced \notin left
          /\ session[x].replaced # Nothing =>
               /\ ~session[session[x].replaced].there
               /\ login[session[x].replaced].state = "gone"
      BY <3>1 DEF SessionsInv, Succession
    <3>4. session[x].replaced # s
      BY <1>1, <3>3, BrowserAssumption
    <3>5. x \notin left' /\ session'[x].replaced \notin left'
      BY <1>1, <3>1, <3>3, <3>4
    <3>6. CASE session[x].replaced # Nothing
      <4>1. session[x].replaced \in Logins
        BY <3>2, <3>6
      <4>2. ~session'[session[x].replaced].there /\ login'[session[x].replaced].state = "gone"
        BY <1>2, <1>4, <3>3, <3>6, <4>1
      <4> QED BY <3>1, <3>5, <4>2
    <3> QED BY <3>1, <3>5, <3>6
  <2> QED BY <2>1, <2>2, <2>3 DEF Succession
<1> QED BY <1>5, <1>6, <1>7 DEF SessionsInv

LEMMA TimeKeeps ==
  ASSUME SessionsInv, NEW s \in Logins, SessionExpires(s) \/ TokenAges(s)
  PROVE  SessionsInv'
<1>1. UNCHANGED <<login, request, left, doubt>> /\ session \in [Logins -> Session]
  BY DEF SessionExpires, TokenAges, SessionsInv, SessionsTyped
<1>2. /\ session' \in [Logins -> Session]
      /\ \A x \in Logins : /\ session'[x].there => session[x].there
                           /\ session'[x].refresh = session[x].refresh
                           /\ session'[x].issued = session[x].issued
                           /\ session'[x].holder = session[x].holder
                           /\ session'[x].replaced = session[x].replaced
  <2>1. CASE SessionExpires(s)
    <3>1. session' = Removed({s})
      BY <2>1 DEF SessionExpires
    <3> QED BY <3>1, RemovedIs DEF SessionsInv
  <2>2. CASE TokenAges(s)
    <3> DEFINE y == [session[s] EXCEPT !.stale = TRUE]
    <3>1. session' = [session EXCEPT ![s] = y]
      BY <1>1, <2>2 DEF TokenAges
    <3>2. /\ y \in Session /\ y.there = session[s].there /\ y.refresh = session[s].refresh
          /\ y.issued = session[s].issued /\ y.holder = session[s].holder
          /\ y.replaced = session[s].replaced
      BY <1>1, StaleSet
    <3> HIDE DEF y
    <3> QED BY <1>1, <3>1, <3>2
  <2> QED BY <2>1, <2>2
<1>3. SessionsTyped' /\ Ending0 /\ Untouched
  BY <1>1, <1>2 DEF SessionsInv, SessionsTyped, Ending0, Untouched, Open
<1> QED BY <1>3, EndingKeeps, UntouchedKeeps DEF SessionsInv

LEMMA BrowserRestartKeeps ==
  ASSUME SessionsInv, BrowserRestart
  PROVE  SessionsInv'
<1> DEFINE none == [pc |-> "idle", of |-> Nothing, credential |-> 0]
<1>1. session \in [Logins -> Session] /\ request \in [Requests -> Request]
  BY DEF SessionsInv, SessionsTyped
<1>2. /\ session' = [x \in Logins |-> [session[x] EXCEPT !.there = FALSE, !.holder = Nothing]]
      /\ login' = Without(Logins) /\ request' = [r \in Requests |-> none] /\ UNCHANGED left
      /\ doubt' = doubt \cup {<<request[r].of, request[r].credential>> :
                                r \in {q \in Requests : request[q].pc = "exchange"}}
  BY DEF BrowserRestart
<1>3. ASSUME NEW x \in Logins
      PROVE  /\ session'[x] \in Session /\ ~session'[x].there
             /\ session'[x].refresh = session[x].refresh
             /\ session'[x].issued = session[x].issued
             /\ session'[x].replaced = session[x].replaced
  <2> DEFINE y1 == [session[x] EXCEPT !.there = FALSE]
             y  == [y1 EXCEPT !.holder = Nothing]
  <2>1. /\ y1 \in Session /\ ~y1.there /\ y1.refresh = session[x].refresh
        /\ y1.issued = session[x].issued /\ y1.replaced = session[x].replaced
    BY <1>1, ThereSet
  <2>2. /\ y \in Session /\ ~y.there /\ y.refresh = session[x].refresh
        /\ y.issued = session[x].issued /\ y.replaced = session[x].replaced
    <3> HIDE DEF y1
    <3> QED BY <2>1, HolderSet
  <2>3. session'[x] = y
    BY <1>2
  <2> HIDE DEF y
  <2> QED BY <2>2, <2>3
<1>4. session' \in [Logins -> Session]
  <2>1. session' = [x \in Logins |-> session'[x]]
    BY <1>2
  <2> QED BY <1>3, <2>1
<1>5. /\ login' \in [Logins -> Transaction0]
      /\ \A x \in Logins : /\ login'[x].replaces = login[x].replaces
                           /\ login'[x].state = IF x \in Open THEN "gone" ELSE login[x].state
  BY <1>2, WithoutIs DEF SessionsInv
<1>6. none \in Request
  BY BrowserAssumption DEF Request, RequestPcs
<1>7. request' \in [Requests -> Request] /\ \A r \in Requests : request'[r].pc = "idle"
  BY <1>2, <1>6
<1>8. SessionsTyped'
  BY <1>2, <1>4, <1>5, <1>7 DEF SessionsInv, SessionsTyped
<1>9. Succession'
  <2>1. Ending0
    BY <1>2, <1>3, <1>5 DEF Ending0, Open
  <2> QED BY <1>8, <2>1, EndingKeeps
<1>10. Numbered'
  <2>1. ASSUME NEW x \in Logins
        PROVE  session'[x].refresh <= session'[x].issued /\ ~session'[x].there
    BY <1>3 DEF SessionsInv, InHand, Numbered
  <2>2. ASSUME NEW x \in Logins, NEW m \in 0..MaxRefresh, <<x, m>> \in doubt'
        PROVE  m <= session'[x].issued /\ login'[x].state = "gone"
    <3>1. CASE <<x, m>> \in doubt
      <4>1. m <= session[x].issued /\ login[x].state = "gone"
        BY <3>1 DEF SessionsInv, InHand, Numbered
      <4> QED BY <1>3, <1>5, <4>1
    <3>2. CASE <<x, m>> \notin doubt
      <4>1. PICK r \in Requests : /\ request[r].pc = "exchange"
                                  /\ <<x, m>> = <<request[r].of, request[r].credential>>
        BY <1>2, <2>2, <3>2
      <4>2. x = request[r].of /\ m = request[r].credential
        BY <4>1
      <4>3. m <= session[x].issued /\ login[x].state = "gone"
        BY <4>1, <4>2, HeldSession
      <4> QED BY <1>3, <1>5, <4>3
    <3> QED BY <3>1, <3>2
  <2> QED BY <2>1, <2>2 DEF Numbered
<1>11. \A r \in Requests : Awaits(r)' /\ Exchanges(r)'
  BY <1>7 DEF Awaits, Exchanges
<1> QED BY <1>8, <1>9, <1>10, <1>11 DEF SessionsInv, InHand

LEMMA BrowserInitInv == BrowserInit => SessionsInv
<1> SUFFICES ASSUME BrowserInit PROVE SessionsInv
  OBVIOUS
<1>1. 0 \in 0..MaxRefresh
  BY BrowserAssumption
<1>2. /\ NoSession \in Session /\ ~NoSession.there /\ NoSession.refresh = 0
      /\ NoSession.issued = 0
  BY <1>1 DEF NoSession, Session
<1>3. /\ \A x \in Logins : session[x] = NoSession /\ login[x].state = "unused"
      /\ \A r \in Requests : request[r].pc = "idle"
      /\ left = {} /\ doubt = {}
  BY DEF BrowserInit
<1>4. SessionsTyped
  BY <1>1, <1>2 DEF BrowserInit, SessionsTyped, Transaction0, Request, RequestPcs
<1>5. Succession
  BY <1>2, <1>3 DEF Succession, Open
<1>6. InHand
  BY <1>2, <1>3 DEF InHand, Numbered, Awaits, Exchanges
<1> QED BY <1>4, <1>5, <1>6 DEF SessionsInv

LEMMA BrowserStepKeeps ==
  ASSUME SessionsInv, BrowserNext
  PROVE  SessionsInv'
<1>1. CASE \E l \in Logins : LoginRuns(l)
  BY <1>1, LoginMovesKeeps, CallbackEndsKeeps DEF LoginRuns
<1>2. CASE \E l \in Logins, s, b \in Logins \cup {Nothing} : LoginBegins(l, s, b)
  BY <1>2, LoginBeginsKeeps
<1>3. CASE \E r \in Requests : RequestRuns(r)
  BY <1>3, RequestResolvesKeeps, RefreshBeginsKeeps, RefreshFailsKeeps, RefreshEndsKeeps,
     RequestEndsKeeps DEF RequestRuns
<1>4. CASE \E r \in Requests, s \in Logins : RequestBegins(r, s)
  BY <1>4, RequestBeginsKeeps
<1>5. CASE \E s \in Logins : SessionExpires(s) \/ TokenAges(s)
  BY <1>5, TimeKeeps
<1>6. CASE \E s \in Logins, b \in Logins \cup {Nothing} : Logout(s, b)
  BY <1>6, LogoutKeeps
<1>7. CASE BrowserRestart
  BY <1>7, BrowserRestartKeeps
<1> QED BY <1>1, <1>2, <1>3, <1>4, <1>5, <1>6, <1>7 DEF BrowserNext, BrowserSteps

\* BrowserSound, for any number of logins, sessions, requests and credentials: who logged
\* out stays out, whatever refresh or callback was under way, and a credential sent to no
\* known effect is never sent again.
THEOREM LeftForGood == BrowserSpec => []BrowserSound
<1>1. SessionsInv /\ [BrowserNext]_browserVars => SessionsInv'
  <2>1. ASSUME SessionsInv, UNCHANGED browserVars PROVE SessionsInv'
    BY <2>1 DEF browserVars, SessionsInv, SessionsTyped, Succession, InHand, Numbered,
                Awaits, Exchanges, Open
  <2> QED BY <2>1, BrowserStepKeeps
<1>2. SessionsInv => BrowserSound
  <2> SUFFICES ASSUME SessionsInv PROVE BrowserSound
    OBVIOUS
  <2>1. LogoutIsFinal
    BY DEF SessionsInv, Succession, LogoutIsFinal, There
  <2>2. CredentialNotRetried
    BY DEF SessionsInv, InHand, Numbered, Exchanges, CredentialNotRetried
  <2> QED BY <2>1, <2>2 DEF BrowserSound
<1> QED BY <1>1, <1>2, BrowserInitInv, PTL DEF BrowserSpec

-----------------------------------------------------------------------------
(* The gateway. *)

\* The launch that holds the lock of this human and project.
Locked == {"open", "look", "start", "ticket"}

\* A workspace that was opened under a key is the key's intent, on disk as well.
Intended ==
  \A k \in Keys, w \in Workspaces :
    w \in opened[k] => intents[k] = w /\ intentDisk[k] = w

\* A launch that opens a workspace is alone, has saved its intent, and nothing is
\* owned meanwhile.
Alone ==
  \A l \in Launches :
    /\ launch[l].pc \in Locked => serial = l /\ launch[l].on \in Workspaces
    /\ launch[l].pc = "open" => /\ Owned = {}
                                /\ intents[launch[l].key] = launch[l].on
                                /\ intentDisk[launch[l].key] = launch[l].on

OneOwned == \A v, w \in Owned : v = w

GatewayInv == GatewayTypeOK /\ Intended /\ Alone /\ OneOwned

LEMMA GatewayInitOK == GatewayInit => GatewayInv
  <1> SUFFICES ASSUME GatewayInit  PROVE GatewayInv
    OBVIOUS
  <1>1. (CHOOSE k \in Keys : TRUE) \in Keys  BY GatewayAssumption
  <1>2. GatewayTypeOK
    BY <1>1, GatewayAssumption
    DEF GatewayInit, GatewayTypeOK, Workspace0, Launch0, LaunchPcs, TicketState
  <1>3. Intended /\ OneOwned
    BY DEF GatewayInit, Intended, OneOwned, Owned
  <1>4. Alone  BY DEF GatewayInit, Alone, Locked
  <1> QED  BY <1>2, <1>3, <1>4 DEF GatewayInv

\* A launch moves on or ends.
LEMMA MovesShape ==
  ASSUME GatewayTypeOK, NEW l \in Launches, NEW pc \in LaunchPcs, Moves(l, pc)
  PROVE  /\ launch' \in [Launches -> Launch0]
         /\ launch'[l].pc = pc /\ launch'[l].on = launch[l].on /\ launch'[l].key = launch[l].key
         /\ \A m \in Launches \ {l} : launch'[m] = launch[m]
  <1>1. launch[l] \in Launch0  BY DEF GatewayTypeOK
  <1>2. /\ launch'[l] = [launch[l] EXCEPT !.pc = pc]
        /\ launch' = [launch EXCEPT ![l] = [launch[l] EXCEPT !.pc = pc]]
        /\ \A m \in Launches \ {l} : launch'[m] = launch[m]
    BY DEF Moves, GatewayTypeOK
  <1>3. /\ launch'[l] \in Launch0 /\ launch'[l].pc = pc
        /\ launch'[l].on = launch[l].on /\ launch'[l].key = launch[l].key
    BY <1>1, <1>2 DEF Launch0
  <1> QED  BY <1>2, <1>3 DEF GatewayTypeOK

LEMMA OwnedOK ==
  ASSUME GatewayTypeOK
  PROVE  /\ Owned \subseteq Workspaces
         /\ \A l \in Launches : launch[l] \in Launch0
         /\ \A w \in Workspaces : workspace[w] \in Workspace0
  BY DEF GatewayTypeOK, Owned

\* A step that saves no new intent and opens nothing.
LEMMA GatewayQuiet ==
  ASSUME GatewayInv, opened' = opened,
         intents' \in {intents, intentDisk}, intentDisk' \in {intents, intentDisk},
         launch' \in [Launches -> Launch0], serial' \in Launches \cup {Nothing},
         \A m \in Launches : launch'[m].pc \in Locked =>
           /\ serial' = m /\ launch'[m].on \in Workspaces
           /\ launch'[m].pc = "open" => launch'[m] = launch[m],
         workspace' \in [Workspaces -> Workspace0], Owned' \subseteq Owned,
         ticket' \in [Launches -> TicketState]
  PROVE  GatewayInv'
  <1>1. GatewayTypeOK'
    BY DEF GatewayInv, GatewayTypeOK
  <1>2. Intended' /\ OneOwned'
    BY DEF GatewayInv, Intended, OneOwned
  <1>3. Alone'
    <2> SUFFICES ASSUME NEW m \in Launches
                 PROVE  /\ launch'[m].pc \in Locked => serial' = m /\ launch'[m].on \in Workspaces
                        /\ launch'[m].pc = "open" => /\ Owned' = {}
                                                     /\ intents'[launch'[m].key] = launch'[m].on
                                                     /\ intentDisk'[launch'[m].key] = launch'[m].on
      BY DEF Alone
    <2>1. ASSUME launch'[m].pc = "open"
          PROVE  /\ Owned' = {}
                 /\ intents'[launch'[m].key] = launch'[m].on
                 /\ intentDisk'[launch'[m].key] = launch'[m].on
      <3>1. launch'[m] = launch[m] /\ launch[m].pc = "open"  BY <2>1 DEF Locked
      <3> QED  BY <3>1 DEF GatewayInv, Alone
    <2> QED  BY <2>1
  <1> QED  BY <1>1, <1>2, <1>3 DEF GatewayInv

\* Steps of tickets, streams and other parts of the control plane.
LEMMA AsideOK ==
  ASSUME GatewayInv, launch' = launch, serial' = serial, opened' = opened, intents' = intents,
         intentDisk' \in {intents, intentDisk},
         workspace' \in [Workspaces -> Workspace0], Owned' \subseteq Owned,
         ticket' \in [Launches -> TicketState]
  PROVE  GatewayInv'
  BY GatewayQuiet DEF GatewayInv, GatewayTypeOK, Alone

LEMMA TicketOK ==
  ASSUME GatewayInv, NEW l \in Launches, TicketRuns(l)
  PROVE  GatewayInv'
  <1>1. UNCHANGED <<workspace, intents, intentDisk, launch, serial, opened>>
    BY DEF TicketRuns, Consume, TicketWasted, GrantIssued, Connect, Answered, ConnectFails,
           StreamOpens, StreamPolls, StreamEnds
  <1>2. ticket' \in [Launches -> TicketState]
    BY DEF TicketRuns, Consume, TicketWasted, GrantIssued, Connect, Answered, ConnectFails,
           StreamOpens, StreamPolls, StreamEnds, TicketIs, TicketState, GatewayInv, GatewayTypeOK
  <1>3. Owned' = Owned  BY <1>1 DEF Owned
  <1> QED  BY <1>1, <1>2, <1>3, AsideOK DEF GatewayInv, GatewayTypeOK

LEMMA WorkspaceOK ==
  ASSUME GatewayInv, NEW w \in Workspaces, WorkspaceFails(w) \/ Recycled(w) \/ Closed(w)
  PROVE  GatewayInv'
  <1>1. UNCHANGED <<intents, intentDisk, launch, serial, ticket, opened>>
    BY DEF WorkspaceFails, Recycled, Closed
  <1>2. workspace[w] \in Workspace0 /\ w \in Owned
    BY OwnedOK DEF WorkspaceFails, Recycled, Closed, GatewayInv, Owned
  <1>3. PICK x \in Workspace0 : workspace' = [workspace EXCEPT ![w] = x]
    <2>1. CASE WorkspaceFails(w)
      <3>1. PICK x \in {[workspace[w] EXCEPT !.ready = FALSE],
                        [workspace[w] EXCEPT !.life = "bad", !.ready = FALSE]} :
              workspace' = [workspace EXCEPT ![w] = x]
        BY <2>1 DEF WorkspaceFails, GatewayInv, GatewayTypeOK
      <3>2. x \in Workspace0  BY <1>2, <3>1 DEF Workspace0
      <3> QED  BY <3>1, <3>2
    <2>2. CASE Recycled(w)
      <3> DEFINE x == [life |-> "active", generation |-> workspace[w].generation + 1,
                       ready |-> FALSE]
      <3>1. x \in Workspace0
        BY <1>2, <2>2, GatewayAssumption DEF Recycled, Workspace0
      <3>2. workspace' = [workspace EXCEPT ![w] = x]
        BY <2>2 DEF Recycled, GatewayInv, GatewayTypeOK
      <3> QED  BY <3>1, <3>2
    <2>3. CASE Closed(w)
      <3> DEFINE x == [workspace[w] EXCEPT !.life = "closed", !.ready = FALSE]
      <3>1. x \in Workspace0  BY <1>2 DEF Workspace0
      <3>2. workspace' = [workspace EXCEPT ![w] = x]
        BY <2>3 DEF Closed, GatewayInv, GatewayTypeOK
      <3> QED  BY <3>1, <3>2
    <2> QED  BY <2>1, <2>2, <2>3
  <1>4. workspace' \in [Workspaces -> Workspace0] /\ Owned' \subseteq Owned
    BY <1>2, <1>3 DEF GatewayInv, GatewayTypeOK, Owned
  <1> QED  BY <1>1, <1>4, AsideOK DEF GatewayInv, GatewayTypeOK

-----------------------------------------------------------------------------
(* A launch *)

LEMMA LaunchBeginsOK ==
  ASSUME GatewayInv, NEW l \in Launches, NEW k \in Keys, NEW s \in Logins, LaunchBegins(l, k, s)
  PROVE  GatewayInv'
  <1>1. UNCHANGED <<workspace, intents, intentDisk, serial, ticket, opened>> /\ Owned' = Owned
    BY DEF LaunchBegins, Owned
  <1>2. launch[l] \in Launch0  BY OwnedOK DEF GatewayInv
  <1> DEFINE x == [launch[l] EXCEPT !.pc = "serial", !.key = k, !.parent = s]
  <1>3. x \in Launch0 /\ x.pc = "serial"
    BY <1>2 DEF Launch0, LaunchPcs
  <1>4. launch' = [launch EXCEPT ![l] = x]
    BY DEF LaunchBegins, GatewayInv, GatewayTypeOK
  <1> HIDE DEF x
  <1>5. /\ launch' \in [Launches -> Launch0] /\ launch'[l].pc = "serial"
        /\ \A m \in Launches \ {l} : launch'[m] = launch[m]
    BY <1>3, <1>4 DEF GatewayInv, GatewayTypeOK
  <1>6. \A m \in Launches : launch'[m].pc \in Locked =>
           /\ serial' = m /\ launch'[m].on \in Workspaces
           /\ launch'[m].pc = "open" => launch'[m] = launch[m]
    BY <1>1, <1>5 DEF Locked, GatewayInv, Alone
  <1> QED  BY <1>1, <1>5, <1>6, GatewayQuiet DEF GatewayInv, GatewayTypeOK

\* Nobody is at the lock that nobody holds.
LEMMA Unlocked ==
  ASSUME GatewayInv, serial = Nothing, NEW m \in Launches
  PROVE  launch[m].pc \notin Locked
  BY GatewayAssumption DEF GatewayInv, Alone

LEMMA LaunchKnownOK ==
  ASSUME GatewayInv, NEW l \in Launches, LaunchKnown(l)
  PROVE  GatewayInv'
  <1> DEFINE w == intents[launch[l].key]
             x == [launch[l] EXCEPT !.pc = "look", !.on = w]
  <1>1. UNCHANGED <<workspace, intents, intentDisk, ticket, opened>> /\ Owned' = Owned
        /\ serial = Nothing /\ serial' = l
    BY DEF LaunchKnown, Owned
  <1>2. launch[l] \in Launch0  BY OwnedOK DEF GatewayInv
  <1>3. w \in Workspaces
    BY <1>2 DEF LaunchKnown, GatewayInv, GatewayTypeOK, Launch0
  <1>4. x \in Launch0 /\ x.pc = "look" /\ x.on = w
    BY <1>2, <1>3 DEF Launch0, LaunchPcs
  <1>5. launch' = [launch EXCEPT ![l] = x]
    BY DEF LaunchKnown, GatewayInv, GatewayTypeOK
  <1> HIDE DEF x
  <1>6. /\ launch' \in [Launches -> Launch0] /\ launch'[l] = x
        /\ \A m \in Launches \ {l} : launch'[m] = launch[m]
    BY <1>4, <1>5 DEF GatewayInv, GatewayTypeOK
  <1>7. \A m \in Launches : launch'[m].pc \in Locked =>
           /\ serial' = m /\ launch'[m].on \in Workspaces
           /\ launch'[m].pc = "open" => launch'[m] = launch[m]
    BY <1>1, <1>3, <1>4, <1>6, Unlocked
  <1> QED  BY <1>1, <1>6, <1>7, GatewayQuiet DEF GatewayInv, GatewayTypeOK

\* A saved intent: the one workspace, or a fresh one that nothing else is owned beside.
LEMMA LaunchIntendsOK ==
  ASSUME GatewayInv, NEW l \in Launches, LaunchIntends(l)
  PROVE  GatewayInv'
  <1> DEFINE k == launch[l].key
  <1>1. UNCHANGED <<workspace, ticket, opened>> /\ Owned' = Owned
        /\ serial = Nothing /\ serial' = l /\ intents[k] = Nothing
    BY DEF LaunchIntends, Owned
  <1>2. launch[l] \in Launch0 /\ k \in Keys  BY OwnedOK DEF GatewayInv, Launch0
  <1>3. PICK w \in Workspaces :
          /\ intents' = [intents EXCEPT ![k] = w]
          /\ launch' = [launch EXCEPT ![l].pc = IF Owned # {} THEN "look" ELSE "open",
                                      ![l].on = w]
    <2>1. Owned \subseteq Workspaces /\ Reservable \subseteq Workspaces
      BY DEF Owned, Reservable
    <2> QED  BY <2>1 DEF LaunchIntends
  <1>4. intentDisk' = intents'  BY DEF LaunchIntends
  <1>5. /\ intents' \in [Keys -> Workspaces \cup {Nothing}] /\ intents'[k] = w
        /\ \A j \in Keys \ {k} : intents'[j] = intents[j]
    BY <1>2, <1>3 DEF GatewayInv, GatewayTypeOK
  <1> DEFINE pc == IF Owned # {} THEN "look" ELSE "open"
             x  == [launch[l] EXCEPT !.pc = pc, !.on = w]
  <1>6. x \in Launch0 /\ x.pc = pc /\ x.on = w /\ x.key = k
    BY <1>2, <1>3 DEF Launch0, LaunchPcs
  <1>7. launch' = [launch EXCEPT ![l] = x]
    BY <1>3 DEF GatewayInv, GatewayTypeOK
  <1> HIDE DEF x
  <1>8. /\ launch' \in [Launches -> Launch0] /\ launch'[l] = x
        /\ \A m \in Launches \ {l} : launch'[m] = launch[m]
    BY <1>6, <1>7 DEF GatewayInv, GatewayTypeOK
  <1>9. GatewayTypeOK'
    BY <1>1, <1>4, <1>5, <1>8 DEF GatewayInv, GatewayTypeOK
  <1>10. Intended'
    <2>1. opened[k] \cap Workspaces = {}
      BY <1>1, <1>2, GatewayAssumption DEF GatewayInv, Intended
    <2> QED  BY <1>1, <1>4, <1>5, <2>1 DEF GatewayInv, Intended
  <1>11. Alone'
    <2>1. \A m \in Launches \ {l} : launch'[m].pc \notin Locked
      BY <1>1, <1>8, Unlocked
    <2>2. x.pc = "open" => Owned = {}  BY <1>6
    <2> QED  BY <1>1, <1>3, <1>4, <1>5, <1>6, <1>8, <2>1, <2>2 DEF Alone, Locked
  <1> QED  BY <1>1, <1>9, <1>10, <1>11 DEF GatewayInv, OneOwned

LEMMA LaunchUnsavedOK ==
  ASSUME GatewayInv, NEW l \in Launches, LaunchUnsaved(l)
  PROVE  GatewayInv'
  <1> DEFINE k == launch[l].key
  <1>1. UNCHANGED <<workspace, intentDisk, serial, ticket, opened>> /\ Owned' = Owned
        /\ serial = Nothing /\ intents[k] = Nothing /\ Moves(l, "over")
    BY DEF LaunchUnsaved, Owned
  <1>2. k \in Keys  BY OwnedOK DEF GatewayInv, Launch0
  <1>3. PICK w \in Workspaces : intents' = [intents EXCEPT ![k] = w]
    <2>1. Owned \subseteq Workspaces /\ Reservable \subseteq Workspaces
      BY DEF Owned, Reservable
    <2> QED  BY <2>1 DEF LaunchUnsaved
  <1>4. /\ intents' \in [Keys -> Workspaces \cup {Nothing}]
        /\ \A j \in Keys \ {k} : intents'[j] = intents[j]
    BY <1>2, <1>3 DEF GatewayInv, GatewayTypeOK
  <1>5. /\ launch' \in [Launches -> Launch0]
        /\ \A m \in Launches : launch'[m].pc \notin Locked
    <2>1. /\ launch' \in [Launches -> Launch0] /\ launch'[l].pc = "over"
          /\ \A m \in Launches \ {l} : launch'[m] = launch[m]
      BY <1>1, MovesShape DEF GatewayInv, LaunchPcs
    <2> QED  BY <1>1, <2>1, Unlocked DEF Locked
  <1>6. GatewayTypeOK'
    BY <1>1, <1>4, <1>5 DEF GatewayInv, GatewayTypeOK
  <1>7. Intended'
    <2>1. opened[k] \cap Workspaces = {}
      BY <1>1, <1>2, GatewayAssumption DEF GatewayInv, Intended
    <2> QED  BY <1>1, <1>4, <2>1 DEF GatewayInv, Intended
  <1>8. Alone'  BY <1>5 DEF Alone, Locked
  <1> QED  BY <1>1, <1>6, <1>7, <1>8 DEF GatewayInv, OneOwned

\* What is opened is the one workspace there is.
LEMMA LaunchOpensOK ==
  ASSUME GatewayInv, NEW l \in Launches, LaunchOpens(l)
  PROVE  GatewayInv'
  <1> DEFINE w == launch[l].on
             k == launch[l].key
  <1>1. /\ UNCHANGED <<intents, intentDisk, serial, ticket>>
        /\ launch[l].pc = "open" /\ Moves(l, "look")
    BY DEF LaunchOpens
  <1>2. /\ w \in Workspaces /\ Owned = {} /\ serial = l
        /\ intents[k] = w /\ intentDisk[k] = w
    BY <1>1 DEF GatewayInv, Alone, Locked
  <1>3. k \in Keys  BY OwnedOK DEF GatewayInv, Launch0
  <1>4. PICK x \in Workspace0 : workspace' = [workspace EXCEPT ![w] = x]
    <2>1. PICK life \in {"none", "active", "bad"} :
            workspace' = [workspace EXCEPT ![w] =
             [life |-> life, generation |-> IF life = "none" THEN 0 ELSE 1, ready |-> FALSE]]
      BY DEF LaunchOpens
    <2>2. [life |-> life, generation |-> IF life = "none" THEN 0 ELSE 1, ready |-> FALSE]
            \in Workspace0
      BY GatewayAssumption DEF Workspace0
    <2> QED  BY <2>1, <2>2
  <1>5. /\ workspace' \in [Workspaces -> Workspace0]
        /\ \A v \in Workspaces \ {w} : workspace'[v] = workspace[v]
    BY <1>2, <1>4 DEF GatewayInv, GatewayTypeOK
  <1>6. Owned' \subseteq {w}
    BY <1>2, <1>5 DEF Owned
  <1>7. opened' = [opened EXCEPT ![k] = @ \cup {w}]
    BY DEF LaunchOpens
  <1>8. /\ opened' \in [Keys -> SUBSET Workspaces] /\ opened'[k] = opened[k] \cup {w}
        /\ \A j \in Keys \ {k} : opened'[j] = opened[j]
    BY <1>2, <1>3, <1>7 DEF GatewayInv, GatewayTypeOK
  <1>9. /\ launch' \in [Launches -> Launch0] /\ launch'[l].pc = "look"
        /\ launch'[l].on = w
        /\ \A m \in Launches \ {l} : launch'[m] = launch[m]
    BY <1>1, MovesShape DEF GatewayInv, LaunchPcs
  <1>10. GatewayTypeOK'
    BY <1>1, <1>5, <1>8, <1>9 DEF GatewayInv, GatewayTypeOK
  <1>11. Intended'
    BY <1>1, <1>2, <1>8 DEF GatewayInv, Intended
  <1>12. Alone'
    <2>1. \A m \in Launches \ {l} : launch'[m].pc \notin Locked
      BY <1>2, <1>9 DEF GatewayInv, Alone
    <2> QED  BY <1>1, <1>2, <1>9, <2>1 DEF Alone, Locked
  <1> QED  BY <1>6, <1>10, <1>11, <1>12 DEF GatewayInv, OneOwned

\* A launch that leaves the lock, or goes on under it.
LEMMA LaunchStepOK ==
  ASSUME GatewayInv, NEW l \in Launches, launch[l].pc \in Locked,
         launch' \in [Launches -> Launch0],
         \A m \in Launches \ {l} : launch'[m] = launch[m],
         \/ /\ launch'[l].pc \in Locked \ {"open"} /\ launch'[l].on = launch[l].on
            /\ serial' = serial
         \/ launch'[l].pc = "over" /\ serial' = Nothing,
         intents' = intents, intentDisk' = intentDisk, opened' = opened,
         workspace' \in [Workspaces -> Workspace0], Owned' \subseteq Owned,
         ticket' \in [Launches -> TicketState]
  PROVE  GatewayInv'
  <1>1. serial = l /\ launch[l].on \in Workspaces
    BY DEF GatewayInv, Alone
  <1>2. \A m \in Launches \ {l} : launch'[m].pc \notin Locked
    BY <1>1 DEF GatewayInv, Alone
  <1>3. \A m \in Launches : launch'[m].pc \in Locked =>
           /\ serial' = m /\ launch'[m].on \in Workspaces
           /\ launch'[m].pc = "open" => launch'[m] = launch[m]
    BY <1>1, <1>2 DEF Locked
  <1>4. serial' \in Launches \cup {Nothing}  BY <1>1
  <1> QED  BY <1>3, <1>4, GatewayQuiet

LEMMA LaunchEndsShape ==
  ASSUME GatewayInv, NEW l \in Launches, LaunchEnds(l), launch[l].pc \in Locked
  PROVE  /\ launch' \in [Launches -> Launch0]
         /\ \A m \in Launches \ {l} : launch'[m] = launch[m]
         /\ launch'[l].pc = "over" /\ serial' = Nothing
  <1>1. serial = l  BY DEF GatewayInv, Alone
  <1>2. Moves(l, "over") /\ serial' = Nothing  BY <1>1 DEF LaunchEnds
  <1> QED  BY <1>2, MovesShape DEF GatewayInv, LaunchPcs

LEMMA LaunchLooksOK ==
  ASSUME GatewayInv, NEW l \in Launches, LaunchLooks(l)
  PROVE  GatewayInv'
  <1>1. /\ UNCHANGED <<workspace, intents, intentDisk, ticket, opened>> /\ Owned' = Owned
        /\ launch[l].pc = "look" /\ launch[l].pc \in Locked
        /\ workspace' \in [Workspaces -> Workspace0] /\ ticket' \in [Launches -> TicketState]
    BY DEF LaunchLooks, Owned, Locked, GatewayInv, GatewayTypeOK
  <1> DEFINE w == workspace[launch[l].on]
  <1>2. w \in Workspace0 /\ launch[l] \in Launch0
    BY <1>1, OwnedOK DEF GatewayInv, Alone
  <1>3. CASE w.life = "active"
    <2> DEFINE pc == IF w.ready THEN "ticket" ELSE "start"
               x  == [launch[l] EXCEPT !.pc = pc, !.generation = w.generation]
    <2>1. x \in Launch0 /\ x.pc = pc /\ x.on = launch[l].on
      BY <1>2 DEF Launch0, LaunchPcs, Workspace0
    <2>2. launch' = [launch EXCEPT ![l] = x] /\ serial' = serial
      BY <1>3 DEF LaunchLooks, GatewayInv, GatewayTypeOK
    <2> HIDE DEF x
    <2>3. /\ launch' \in [Launches -> Launch0] /\ launch'[l] = x
          /\ \A m \in Launches \ {l} : launch'[m] = launch[m]
      BY <2>1, <2>2 DEF GatewayInv, GatewayTypeOK
    <2>4. launch'[l].pc \in Locked \ {"open"} /\ launch'[l].on = launch[l].on
      BY <2>1, <2>3 DEF Locked
    <2> QED  BY <1>1, <2>2, <2>3, <2>4, LaunchStepOK
  <1>4. CASE LaunchEnds(l)
    BY <1>1, <1>4, LaunchEndsShape, LaunchStepOK
  <1> QED  BY <1>3, <1>4 DEF LaunchLooks

LEMMA LaunchStartsOK ==
  ASSUME GatewayInv, NEW l \in Launches, LaunchStarts(l)
  PROVE  GatewayInv'
  <1>1. /\ UNCHANGED <<intents, intentDisk, ticket, opened>>
        /\ launch[l].pc \in Locked /\ ticket' \in [Launches -> TicketState]
    BY DEF LaunchStarts, Locked, GatewayInv, GatewayTypeOK
  <1>2. CASE /\ workspace' = [workspace EXCEPT ![launch[l].on].ready = TRUE]
             /\ Moves(l, "ticket") /\ serial' = serial
    <2> DEFINE w == launch[l].on
    <2>1. w \in Workspaces /\ workspace[w] \in Workspace0
      BY <1>1, OwnedOK DEF GatewayInv, Alone
    <2> DEFINE x == [workspace[w] EXCEPT !.ready = TRUE]
    <2>2. x \in Workspace0 /\ x.life = workspace[w].life  BY <2>1 DEF Workspace0
    <2>3. workspace' = [workspace EXCEPT ![w] = x]
      BY <1>2 DEF GatewayInv, GatewayTypeOK
    <2> HIDE DEF x
    <2>4. workspace' \in [Workspaces -> Workspace0] /\ Owned' \subseteq Owned
      BY <2>1, <2>2, <2>3 DEF GatewayInv, GatewayTypeOK, Owned
    <2>5. /\ launch' \in [Launches -> Launch0] /\ launch'[l].pc = "ticket"
          /\ launch'[l].on = w
          /\ \A m \in Launches \ {l} : launch'[m] = launch[m]
      BY <1>2, MovesShape DEF GatewayInv, LaunchPcs
    <2>6. launch'[l].pc \in Locked \ {"open"}  BY <2>5 DEF Locked
    <2> QED  BY <1>1, <1>2, <2>4, <2>5, <2>6, LaunchStepOK
  <1>3. CASE LaunchEnds(l) /\ UNCHANGED workspace
    <2>1. workspace' \in [Workspaces -> Workspace0] /\ Owned' \subseteq Owned
      BY <1>3 DEF GatewayInv, GatewayTypeOK, Owned
    <2> QED  BY <1>1, <1>3, <2>1, LaunchEndsShape, LaunchStepOK
  <1> QED  BY <1>2, <1>3 DEF LaunchStarts

LEMMA LaunchTicketsOK ==
  ASSUME GatewayInv, NEW l \in Launches, LaunchTickets(l)
  PROVE  GatewayInv'
  <1>1. /\ UNCHANGED <<workspace, intents, intentDisk, opened>> /\ Owned' = Owned
        /\ launch[l].pc \in Locked /\ LaunchEnds(l)
        /\ workspace' \in [Workspaces -> Workspace0]
    BY DEF LaunchTickets, Locked, Owned, GatewayInv, GatewayTypeOK
  <1>2. ticket' \in [Launches -> TicketState]
    BY DEF LaunchTickets, TicketIs, TicketState, GatewayInv, GatewayTypeOK
  <1> QED  BY <1>1, <1>2, LaunchEndsShape, LaunchStepOK

LEMMA GatewayRestartOK ==
  ASSUME GatewayInv, GatewayRestart
  PROVE  GatewayInv'
  <1>1. /\ UNCHANGED <<workspace, intentDisk, opened>> /\ Owned' = Owned
        /\ intents' = intentDisk /\ serial' = Nothing
    BY DEF GatewayRestart, Owned
  <1>2. ticket' \in [Launches -> TicketState]
    BY DEF GatewayRestart, TicketState, GatewayInv, GatewayTypeOK
  <1>3. ASSUME NEW m \in Launches
        PROVE  launch'[m] \in Launch0 /\ launch'[m].pc \in {"idle", "over"}
    <2>1. /\ launch[m] \in Launch0
          /\ launch'[m] = IF launch[m].pc = "idle" THEN launch[m]
                                                   ELSE [launch[m] EXCEPT !.pc = "over"]
      BY OwnedOK DEF GatewayRestart, GatewayInv
    <2> QED  BY <2>1 DEF Launch0, LaunchPcs
  <1>4. launch' \in [Launches -> Launch0]
    <2>1. launch' = [m \in Launches |-> launch'[m]]
      BY DEF GatewayRestart
    <2> QED  BY <1>3, <2>1
  <1>5. \A m \in Launches : launch'[m].pc \notin Locked  BY <1>3 DEF Locked
  <1> QED  BY <1>1, <1>2, <1>4, <1>5, GatewayQuiet DEF GatewayInv, GatewayTypeOK

LEMMA GatewayNextOK ==
  GatewayInv /\ [GatewaySteps \/ GatewayRestart]_gatewayVars => GatewayInv'
  <1> SUFFICES ASSUME GatewayInv, [GatewaySteps \/ GatewayRestart]_gatewayVars
               PROVE  GatewayInv'
    OBVIOUS
  <1>1. CASE UNCHANGED gatewayVars
    <2>1. Owned' = Owned  BY <1>1 DEF gatewayVars, Owned
    <2> QED  BY <1>1, <2>1, AsideOK DEF gatewayVars, GatewayInv, GatewayTypeOK
  <1>2. CASE IntentsByOthers
    <2>1. Owned' = Owned  BY <1>2 DEF IntentsByOthers, Owned
    <2> QED  BY <1>2, <2>1, AsideOK DEF IntentsByOthers, GatewayInv, GatewayTypeOK
  <1>3. CASE \E l \in Launches : LaunchRuns(l)
    BY <1>3, LaunchKnownOK, LaunchIntendsOK, LaunchUnsavedOK, LaunchOpensOK, LaunchLooksOK,
       LaunchStartsOK, LaunchTicketsOK DEF LaunchRuns
  <1>4. CASE \E l \in Launches : TicketRuns(l)
    BY <1>4, TicketOK
  <1>5. CASE \E l \in Launches, k \in Keys, s \in Logins : LaunchBegins(l, k, s)
    BY <1>5, LaunchBeginsOK
  <1>6. CASE \E w \in Workspaces : WorkspaceFails(w) \/ Recycled(w) \/ Closed(w)
    BY <1>6, WorkspaceOK
  <1>7. CASE GatewayRestart
    BY <1>7, GatewayRestartOK
  <1> QED
    BY <1>1, <1>2, <1>3, <1>4, <1>5, <1>6, <1>7 DEF GatewaySteps

\* A set whose members are all one has at most one.
LEMMA AtMostOne ==
  ASSUME NEW S, \A v, w \in S : v = w
  PROVE  Cardinality(S) <= 1
  <1>1. CASE S = {}
    BY <1>1, FS_EmptySet
  <1>2. ASSUME NEW v \in S  PROVE Cardinality(S) <= 1
    <2>1. S = {v}  OBVIOUS
    <2> QED  BY <2>1, FS_Singleton
  <1> QED  BY <1>1, <1>2

\* launch_owned, for any number of keys, launches and workspaces: a key opens one
\* workspace at most, across failed saves, restarts and closes, and the human never
\* owns two.
THEOREM OnePerKey == GatewaySpec => []OneWorkspacePerKey
  <1>1. GatewayInv => OneWorkspacePerKey
    <2> SUFFICES ASSUME GatewayInv  PROVE OneWorkspacePerKey
      OBVIOUS
    <2>1. Cardinality(Owned) <= 1  BY AtMostOne DEF GatewayInv, OneOwned
    <2>2. ASSUME NEW k \in Keys  PROVE Cardinality(opened[k]) <= 1
      <3>1. \A v, w \in opened[k] : v = w
        BY DEF GatewayInv, GatewayTypeOK, Intended
      <3> QED  BY <3>1, AtMostOne
    <2> QED  BY <2>1, <2>2 DEF OneWorkspacePerKey
  <1>2. [GatewayNext]_<<gatewayVars, browserVars>> => [GatewaySteps \/ GatewayRestart]_gatewayVars
    BY Zenon DEF GatewayNext
  <1> QED  BY <1>1, <1>2, GatewayInitOK, GatewayNextOK, PTL DEF GatewaySpec

-----------------------------------------------------------------------------
(* The handoff. *)

\* What is on a branch.
Els(b) == {b[i] : i \in 1..Len(b)}

\* A bundle is where its journal says: right above the base it was checked against.
Above(base, b, i) == Len(base) = i - 1 /\ \A k \in 1..(i - 1) : b[k] = base[k]

OnceIn(b) ==
  \A i \in 1..Len(b) : b[i] # User =>
    /\ \A k \in 1..Len(b) : b[k] = b[i] => k = i
    /\ journal[b[i]].there => Above(journal[b[i]].base, b, i)

\* A request that has begun holds the session lock, and the marker is its own by the
\* time the helper is asked; it only completes what is on the remote branch.
Ask(q) ==
  /\ apply[q].pc # "idle" => apply[q].op \in Bundles
  /\ apply[q].pc \notin {"idle", "over"} => locked = q
  /\ apply[q].pc = "status" /\ Pending => marker.op = apply[q].op
  /\ apply[q].pc = "mark" => ~Runs
  /\ apply[q].pc = "post" => ~Runs /\ Pending /\ markerDisk = marker
  /\ apply[q].pc \in {"post", "wait", "complete"} => marker.op = apply[q].op
  /\ apply[q].pc = "complete" => ~Runs /\ apply[q].op \in Els(remote)
  /\ helper.caller = q => apply[q].pc # "idle" /\ helper.op = apply[q].op

Helping ==
  /\ Runs <=> helper.phase = "busy"
  /\ Runs => helper.op \in Bundles
  /\ helper.phase = "complete" \/ helper.pc = "end" => helper.op \in Els(remote)

Pushed == \A o \in Bundles : journal[o].pushed => o \in Els(remote)

\* Who may do what when.
Control ==
  /\ \A q \in Applies : Ask(q)
  /\ Helping
  /\ Pushed
  /\ HelperQuarantined
  /\ CompleteIsPushed

\* What the branches hold.
History ==
  /\ helper.pc \in HelperPcs \ {"idle", "begin"} => journal[helper.op].there
  /\ helper.pc \in {"index", "push", "end"} => Prefix(Commit(helper.op), branch)
  /\ \A o \in Bundles : journal[o].there => o \notin Els(journal[o].base)
  /\ Prefix(remote, branch)
  /\ OnceIn(branch)

HandoffInv == HandoffTypeOK /\ Control /\ History

-----------------------------------------------------------------------------
(* Sequences *)

LEMMA PrefixIff ==
  ASSUME NEW S, NEW s \in Seq(S), NEW t \in Seq(S)
  PROVE  Prefix(s, t) <=> Len(s) <= Len(t) /\ \A i \in 1..Len(s) : t[i] = s[i]
  <1>1. Len(s) \in Nat /\ Len(t) \in Nat  OBVIOUS
  <1>2. ASSUME Len(s) <= Len(t)
        PROVE  SubSeq(t, 1, Len(s)) = s <=> \A i \in 1..Len(s) : t[i] = s[i]
    <2>1. /\ SubSeq(t, 1, Len(s)) \in Seq(S)
          /\ Len(SubSeq(t, 1, Len(s))) = Len(s)
          /\ \A i \in 1..Len(s) : SubSeq(t, 1, Len(s))[i] = t[i]
      BY <1>1, <1>2
    <2>2. ASSUME \A i \in 1..Len(s) : t[i] = s[i]  PROVE SubSeq(t, 1, Len(s)) = s
      BY <2>1, <2>2, SeqEqual
    <2>3. ASSUME SubSeq(t, 1, Len(s)) = s, NEW i \in 1..Len(s)  PROVE t[i] = s[i]
      BY <2>1, <2>3
    <2> QED  BY <2>2, <2>3
  <1> QED  BY <1>2 DEF Prefix

LEMMA PrefixTrans ==
  ASSUME NEW S, NEW s \in Seq(S), NEW t \in Seq(S), NEW u \in Seq(S),
         Prefix(s, t), Prefix(t, u)
  PROVE  Prefix(s, u)
  <1>1. Len(s) <= Len(t) /\ \A i \in 1..Len(s) : t[i] = s[i]  BY PrefixIff
  <1>2. Len(t) <= Len(u) /\ \A i \in 1..Len(t) : u[i] = t[i]  BY PrefixIff
  <1>3. Len(s) \in Nat /\ Len(t) \in Nat /\ Len(u) \in Nat  OBVIOUS
  <1>4. Len(s) <= Len(u) /\ \A i \in 1..Len(s) : u[i] = s[i]  BY <1>1, <1>2, <1>3
  <1> QED  BY <1>4, PrefixIff

LEMMA PrefixSelf == ASSUME NEW S, NEW s \in Seq(S)  PROVE Prefix(s, s)
  BY PrefixIff

LEMMA PrefixAppend ==
  ASSUME NEW S, NEW s \in Seq(S), NEW x \in S
  PROVE  Prefix(s, Append(s, x))
  <1>1. Append(s, x) \in Seq(S)  OBVIOUS
  <1>2. Len(s) <= Len(Append(s, x)) /\ \A i \in 1..Len(s) : Append(s, x)[i] = s[i]  OBVIOUS
  <1> QED  BY <1>1, <1>2, PrefixIff

LEMMA PrefixEls ==
  ASSUME NEW S, NEW s \in Seq(S), NEW t \in Seq(S), Prefix(s, t)
  PROVE  Els(s) \subseteq Els(t)
  <1>1. Len(s) <= Len(t) /\ \A i \in 1..Len(s) : t[i] = s[i]  BY PrefixIff
  <1>2. Len(s) \in Nat /\ Len(t) \in Nat  OBVIOUS
  <1> QED  BY <1>1, <1>2 DEF Els

LEMMA AppendEls ==
  ASSUME NEW S, NEW s \in Seq(S), NEW x \in S
  PROVE  x \in Els(Append(s, x))
  <1>1. Append(s, x)[Len(s) + 1] = x /\ Len(Append(s, x)) = Len(s) + 1  OBVIOUS
  <1>2. Len(s) \in Nat  OBVIOUS
  <1>3. Len(s) + 1 \in 1..Len(Append(s, x))  BY <1>1, <1>2
  <1> QED  BY <1>1, <1>3 DEF Els

LEMMA AboveIff ==
  ASSUME NEW S, NEW b \in Seq(S), NEW base \in Seq(S), NEW i \in 1..Len(b)
  PROVE  base = SubSeq(b, 1, i - 1) <=> Above(base, b, i)
  <1>1. Len(b) \in Nat /\ i \in Nat /\ 1 <= i /\ i <= Len(b)  OBVIOUS
  <1>2. /\ SubSeq(b, 1, i - 1) \in Seq(S)
        /\ Len(SubSeq(b, 1, i - 1)) = i - 1
        /\ \A k \in 1..(i - 1) : SubSeq(b, 1, i - 1)[k] = b[k]
    BY <1>1
  <1> QED  BY <1>1, <1>2 DEF Above

\* Of a prefix what holds of the whole.
LEMMA OncePrefix ==
  ASSUME NEW S, NEW s \in Seq(S), NEW t \in Seq(S), Prefix(s, t), OnceIn(t)
  PROVE  OnceIn(s)
  <1>1. Len(s) <= Len(t) /\ \A i \in 1..Len(s) : t[i] = s[i]  BY PrefixIff
  <1>2. Len(s) \in Nat /\ Len(t) \in Nat  OBVIOUS
  <1>3. \A i \in 1..Len(s) : i \in 1..Len(t)  BY <1>1, <1>2
  <1> SUFFICES ASSUME NEW i \in 1..Len(s), s[i] # User
               PROVE  /\ \A k \in 1..Len(s) : s[k] = s[i] => k = i
                      /\ journal[s[i]].there => Above(journal[s[i]].base, s, i)
    BY DEF OnceIn
  <1>4. /\ \A k \in 1..Len(t) : t[k] = t[i] => k = i
        /\ journal[t[i]].there => Above(journal[t[i]].base, t, i)
    BY <1>1, <1>3 DEF OnceIn
  <1>5. \A k \in 1..(i - 1) : k \in 1..Len(s)  BY <1>2
  <1> QED  BY <1>1, <1>3, <1>4, <1>5 DEF Above

LEMMA AppliedOnceIff ==
  ASSUME HandoffTypeOK, Prefix(remote, branch), OnceIn(branch)
  PROVE  AppliedOnce
  <1>0. branch \in Branch /\ remote \in Branch  BY DEF HandoffTypeOK
  <1>1. OnceIn(remote)  BY <1>0, OncePrefix DEF Branch
  <1> SUFFICES ASSUME NEW b \in {branch, remote}, NEW i \in 1..Len(b), b[i] # User
               PROVE  /\ \A k \in 1..Len(b) : b[k] = b[i] => k = i
                      /\ journal[b[i]].there => journal[b[i]].base = SubSeq(b, 1, i - 1)
    BY DEF AppliedOnce
  <1>2. b \in Branch /\ OnceIn(b)  BY <1>0, <1>1
  <1>3. b[i] \in Bundles  BY <1>2 DEF Branch
  <1>4. journal[b[i]].base \in Branch  BY <1>3 DEF HandoffTypeOK, Journal
  <1>5. journal[b[i]].there => Above(journal[b[i]].base, b, i)  BY <1>2 DEF OnceIn
  <1>6. journal[b[i]].base = SubSeq(b, 1, i - 1) <=> Above(journal[b[i]].base, b, i)
    BY <1>2, <1>4, AboveIff DEF Branch
  <1>7. \A k \in 1..Len(b) : b[k] = b[i] => k = i  BY <1>2 DEF OnceIn
  <1> QED  BY <1>5, <1>6, <1>7

LEMMA HandoffInvSound == HandoffInv => HandoffSound
  BY AppliedOnceIff DEF HandoffInv, Control, History, HandoffSound

\* The work that is done on the branches; the server's steps leave it alone.
gitVars == <<journal, branch, index0, indexLock, remote>>

LEMMA SameGit ==
  ASSUME UNCHANGED <<journal, branch, remote>>
  PROVE  /\ Els(remote)' = Els(remote)
         /\ Prefix(remote, branch)' = Prefix(remote, branch)
         /\ OnceIn(branch)' = OnceIn(branch)
         /\ \A o \in Bundles : Commit(o)' = Commit(o)
  BY DEF Els, Prefix, OnceIn, Commit

LEMMA HistoryQuiet ==
  ASSUME HandoffInv, UNCHANGED <<journal, branch, remote>>,
         helper'.pc \in {"idle", "begin"} \/ (helper'.pc = helper.pc /\ helper'.op = helper.op)
  PROVE  History'
  <1> USE DEF HandoffInv, History
  <1>1. helper'.pc \in HelperPcs \ {"idle", "begin"} => journal'[helper'.op].there
    BY Zenon
  <1>2. helper'.pc \in {"index", "push", "end"} => Prefix(Commit(helper.op), branch)'
    BY DEF Prefix, Commit
  <1>5. \A o \in Bundles : journal'[o].there => o \notin Els(journal'[o].base)
    OBVIOUS
  <1> QED  BY <1>1, <1>2, <1>5, SameGit

\* A request that holds the lock: the others wait their turn.
LEMMA OthersAsk ==
  ASSUME HandoffInv, NEW q \in Applies, locked = q,
         UNCHANGED <<helper, remote>>,
         \A p \in Applies \ {q} : apply'[p] = apply[p]
  PROVE  \A p \in Applies \ {q} : Ask(p)'
  <1> TAKE p \in Applies \ {q}
  <1>1. Ask(p) /\ apply[p].pc \in {"idle", "over"}
    BY DEF HandoffInv, Control, Ask, HandoffTypeOK
  <1> QED  BY <1>1 DEF Ask

LEMMA ApplyShape ==
  ASSUME HandoffTypeOK, NEW q \in Applies, NEW pc \in ApplyPcs,
         \/ Acts(q, pc)
         \/ Returns(q) /\ pc = "over"
  PROVE  /\ apply' \in [Applies -> [pc: ApplyPcs, op: Bundles \cup {Nobody0}]]
         /\ apply'[q].pc = pc /\ apply'[q].op = apply[q].op
         /\ \A p \in Applies \ {q} : apply'[p] = apply[p]
         /\ locked' \in Applies \cup {Nobody0}
         /\ pc # "over" => locked' = locked
  BY DEF HandoffTypeOK, Acts, Returns, ApplyPcs

\* A server's step of a request that leaves the helper alone.
LEMMA ServerStep ==
  ASSUME HandoffInv, NEW q \in Applies, NEW pc \in ApplyPcs, apply[q].pc \notin {"idle", "over"},
         Acts(q, pc) \/ (Returns(q) /\ pc = "over"),
         UNCHANGED <<epoch0, helper, journal, branch, index0, indexLock, remote>>,
         marker' \in Marker, markerDisk' \in Marker,
         HelperQuarantined', CompleteIsPushed',
         pc = "status" => FALSE,
         pc = "mark" => ~Runs,
         pc = "post" => ~Runs /\ Pending' /\ markerDisk' = marker',
         pc \in {"post", "wait", "complete"} => marker'.op = apply[q].op,
         pc = "complete" => ~Runs /\ apply[q].op \in Els(remote),
         pc # "idle"
  PROVE  HandoffInv'
  <1>0. HandoffTypeOK /\ locked = q /\ Ask(q)  BY DEF HandoffInv, Control, Ask
  <1>1. /\ apply' \in [Applies -> [pc: ApplyPcs, op: Bundles \cup {Nobody0}]]
        /\ apply'[q].pc = pc /\ apply'[q].op = apply[q].op
        /\ \A p \in Applies \ {q} : apply'[p] = apply[p]
        /\ locked' \in Applies \cup {Nobody0}
        /\ pc # "over" => locked' = locked
    BY <1>0, ApplyShape
  <1>2. HandoffTypeOK'  BY <1>0, <1>1 DEF HandoffTypeOK
  <1>3. \A p \in Applies \ {q} : Ask(p)'  BY <1>0, <1>1, OthersAsk
  <1>4. Ask(q)'
    BY <1>0, <1>1 DEF Ask, Runs, Pending, Els
  <1>5. \A p \in Applies : Ask(p)'  BY <1>3, <1>4
  <1>6. Helping' /\ Pushed'
    BY DEF HandoffInv, Control, Helping, Pushed, Runs, Els
  <1>7. History'  BY HistoryQuiet
  <1> QED  BY <1>2, <1>5, <1>6, <1>7 DEF HandoffInv, Control

LEMMA ApplyBeginsOK ==
  ASSUME HandoffInv, NEW q \in Applies, NEW o \in Bundles, ApplyBegins(q, o)
  PROVE  HandoffInv'
  <1> USE DEF ApplyBegins, helperVars
  <1>0. HandoffTypeOK  BY DEF HandoffInv
  <1>1. /\ apply' \in [Applies -> [pc: ApplyPcs, op: Bundles \cup {Nobody0}]]
        /\ apply'[q].pc = "status" /\ apply'[q].op = o
        /\ \A p \in Applies \ {q} : apply'[p] = apply[p]
    BY <1>0 DEF HandoffTypeOK, ApplyPcs
  <1>2. HandoffTypeOK'  BY <1>0, <1>1 DEF HandoffTypeOK
  <1>3. \A p \in Applies : Ask(p)  BY DEF HandoffInv, Control
  <1>4. \A p \in Applies : apply[p].pc \in {"idle", "over"}
    <2> TAKE p \in Applies
    <2>1. p # Nobody0  BY HandoffAssumption
    <2> QED  BY <1>3, <2>1 DEF Ask
  <1>5. ASSUME NEW p \in Applies  PROVE Ask(p)'
    <2>1. CASE p = q
      BY <1>1, <1>3, <2>1 DEF Ask, Runs, Pending, Els
    <2>2. CASE p # q
      <3>1. apply'[p] = apply[p] /\ Ask(p) /\ apply[p].pc \in {"idle", "over"}
        BY <1>1, <1>3, <1>4, <2>2
      <3> QED  BY <3>1 DEF Ask
    <2> QED  BY <2>1, <2>2
  <1>6. Helping' /\ Pushed' /\ HelperQuarantined' /\ CompleteIsPushed'
    BY DEF HandoffInv, Control, Helping, Pushed, HelperQuarantined, CompleteIsPushed, Runs, Els
  <1>7. History'  BY HistoryQuiet
  <1> QED  BY <1>2, <1>5, <1>6, <1>7 DEF HandoffInv, Control

LEMMA ToldOK ==
  ASSUME HandoffInv, NEW o \in Bundles
  PROVE  /\ Told(o) = "complete" => ~Runs /\ o \in Els(remote)
         /\ Told(o) = "failed" => ~Runs
  BY DEF HandoffInv, Control, Helping, Told

LEMMA ApplyObservesOK ==
  ASSUME HandoffInv, NEW q \in Applies, ApplyObserves(q)
  PROVE  HandoffInv'
  <1> DEFINE o == apply[q].op
  <1>0. /\ apply[q].pc = "status" /\ Ask(q) /\ o \in Bundles
        /\ HandoffTypeOK /\ HelperQuarantined /\ CompleteIsPushed
        /\ Pending => marker.op = o
    BY DEF HandoffInv, Control, ApplyObserves, Ask
  <1>1. UNCHANGED <<epoch0, helper, journal, branch, index0, indexLock, remote>>
    BY DEF ApplyObserves, helperVars
  <1>2. CASE ~Pending /\ Acts(q, "mark") /\ UNCHANGED <<marker, markerDisk>>
    <2>1. ~Runs  BY <1>0, <1>2 DEF HelperQuarantined, Pending
    <2>2. /\ HelperQuarantined' /\ CompleteIsPushed'
          /\ marker' \in Marker /\ markerDisk' \in Marker
      BY <1>0, <1>1, <1>2 DEF HelperQuarantined, CompleteIsPushed, Runs, HandoffTypeOK
    <2> QED  BY <1>0, <1>1, <1>2, <2>1, <2>2, ServerStep DEF ApplyPcs
  <1>3. CASE Pending /\ Told(o) = "complete" /\ Acts(q, "complete")
             /\ UNCHANGED <<marker, markerDisk>>
    <2>1. ~Runs /\ o \in Els(remote)  BY <1>0, <1>3, ToldOK
    <2>2. /\ HelperQuarantined' /\ CompleteIsPushed'
          /\ marker' \in Marker /\ markerDisk' \in Marker /\ marker'.op = o
      BY <1>0, <1>1, <1>3 DEF HelperQuarantined, CompleteIsPushed, Runs, HandoffTypeOK
    <2> QED  BY <1>0, <1>1, <1>3, <2>1, <2>2, ServerStep DEF ApplyPcs
  <1>4. CASE Pending /\ Told(o) = "failed"
             /\ Marks(q, [marker EXCEPT !.phase = "failed"], "mark")
    <2>1. ~Runs  BY <1>0, <1>4, ToldOK
    <2>2. /\ marker' = [marker EXCEPT !.phase = "failed"] /\ markerDisk' \in {marker', markerDisk}
          /\ Acts(q, "mark") \/ Returns(q)
      BY <1>4 DEF Marks
    <2>3. /\ marker' \in Marker /\ marker'.phase = "failed" /\ markerDisk' \in Marker
      BY <1>0, <2>2 DEF HandoffTypeOK, Marker
    <2>4. HelperQuarantined' /\ CompleteIsPushed'
      BY <1>0, <1>1, <2>1, <2>2, <2>3 DEF HelperQuarantined, CompleteIsPushed, Runs
    <2>5. CASE Acts(q, "mark")
      BY <1>0, <1>1, <2>1, <2>3, <2>4, <2>5, ServerStep DEF ApplyPcs
    <2>6. CASE Returns(q)
      BY <1>0, <1>1, <2>3, <2>4, <2>6, ServerStep DEF ApplyPcs
    <2> QED  BY <2>2, <2>5, <2>6
  <1>5. CASE Pending /\ Told(o) \in {"unknown", "busy"} /\ Returns(q)
             /\ UNCHANGED <<marker, markerDisk>>
    <2>2. /\ HelperQuarantined' /\ CompleteIsPushed'
          /\ marker' \in Marker /\ markerDisk' \in Marker
      BY <1>0, <1>1, <1>5 DEF HelperQuarantined, CompleteIsPushed, Runs, HandoffTypeOK
    <2> QED  BY <1>0, <1>1, <1>5, <2>2, ServerStep DEF ApplyPcs
  <1> QED  BY <1>2, <1>3, <1>4, <1>5 DEF ApplyObserves

LEMMA ApplyMarksOK ==
  ASSUME HandoffInv, NEW q \in Applies, ApplyMarks(q)
  PROVE  HandoffInv'
  <1> DEFINE o == apply[q].op
             m == [op |-> o, phase |-> "pending",
                   epoch |-> IF marker.op = o THEN marker.epoch ELSE epoch0]
  <1>0. /\ apply[q].pc = "mark" /\ o \in Bundles /\ ~Runs
        /\ HandoffTypeOK /\ CompleteIsPushed
    BY DEF HandoffInv, Control, ApplyMarks, Ask
  <1>1. UNCHANGED <<epoch0, helper, journal, branch, index0, indexLock, remote>>
    BY DEF ApplyMarks, helperVars
  <1>2. /\ marker' = m
        /\ \/ markerDisk' = m /\ Acts(q, "post")
           \/ UNCHANGED markerDisk /\ Returns(q)
    BY DEF ApplyMarks, Marks
  <1>3. m \in Marker /\ m.phase = "pending" /\ m.op = o
    BY <1>0, HandoffAssumption DEF HandoffTypeOK, Marker
  <1> HIDE DEF m
  <1>4. marker' \in Marker /\ markerDisk' \in Marker
    BY <1>0, <1>2, <1>3 DEF HandoffTypeOK
  <1>5. HelperQuarantined' /\ CompleteIsPushed'
    BY <1>0, <1>1, <1>2, <1>3 DEF HelperQuarantined, CompleteIsPushed, Runs
  <1>6. CASE markerDisk' = m /\ Acts(q, "post")
    BY <1>0, <1>1, <1>2, <1>3, <1>4, <1>5, <1>6, ServerStep DEF ApplyPcs, Pending
  <1>7. CASE UNCHANGED markerDisk /\ Returns(q)
    BY <1>0, <1>1, <1>4, <1>5, <1>7, ServerStep DEF ApplyPcs
  <1> QED  BY <1>2, <1>6, <1>7

LEMMA ApplyPostsOK ==
  ASSUME HandoffInv, NEW q \in Applies, ApplyPosts(q)
  PROVE  HandoffInv'
  <1>0. /\ apply[q].pc = "post" /\ Ask(q) /\ apply[q].op \in Bundles /\ locked = q
        /\ ~Runs /\ Pending /\ markerDisk = marker /\ marker.op = apply[q].op
        /\ HandoffTypeOK /\ CompleteIsPushed /\ HelperQuarantined
    BY DEF HandoffInv, Control, ApplyPosts, Ask
  <1>1. UNCHANGED <<epoch0, marker, markerDisk, journal, branch, index0, indexLock, remote>>
    BY DEF ApplyPosts
  <1>2. CASE /\ helper' = [NewHelper EXCEPT !.pc = "begin", !.op = apply[q].op,
                                           !.caller = q, !.phase = "busy"]
             /\ Acts(q, "wait")
    <2>1. /\ apply' \in [Applies -> [pc: ApplyPcs, op: Bundles \cup {Nobody0}]]
          /\ apply'[q].pc = "wait" /\ apply'[q].op = apply[q].op
          /\ \A p \in Applies \ {q} : apply'[p] = apply[p]
          /\ locked' = q
      BY <1>0, <1>2, ApplyShape DEF ApplyPcs, Acts
    <2>2. /\ helper'.pc = "begin" /\ helper'.op = apply[q].op /\ helper'.caller = q
          /\ helper'.phase = "busy"
      BY <1>2 DEF NewHelper
    <2>3. helper' \in Helper
      <3>1. helper' = [pc |-> "begin", op |-> apply[q].op, caller |-> q, seen |-> <<>>,
                       phase |-> "busy"]
        BY <1>2 DEF NewHelper
      <3>2. <<>> \in Branch  BY DEF Branch
      <3> QED  BY <1>0, <3>1, <3>2 DEF Helper, HelperPcs
    <2>4. HandoffTypeOK'  BY <1>0, <1>1, <2>1, <2>3 DEF HandoffTypeOK
    <2>5. ASSUME NEW p \in Applies  PROVE Ask(p)'
      <3>1. CASE p = q
        BY <1>0, <1>1, <2>1, <2>2, <3>1 DEF Ask
      <3>2. CASE p # q
        <4>1. Ask(p) /\ apply'[p] = apply[p] /\ apply[p].pc \in {"idle", "over"}
          BY <1>0, <2>1, <3>2 DEF HandoffInv, Control, Ask, HandoffTypeOK
        <4> QED  BY <2>2, <3>2, <4>1 DEF Ask
      <3> QED  BY <3>1, <3>2
    <2>6. Helping' /\ HelperQuarantined' /\ CompleteIsPushed' /\ Pushed'
      BY <1>0, <1>1, <2>1, <2>2
      DEF Helping, HelperQuarantined, CompleteIsPushed, Pushed, HandoffInv, Control, Runs, Els,
          Pending
    <2>7. History'  BY <1>1, <2>2, HistoryQuiet
    <2> QED  BY <2>4, <2>5, <2>6, <2>7 DEF HandoffInv, Control
  <1>3. ASSUME NEW pc \in {"recheck", "over"}, Acts(q, pc) \/ (Returns(q) /\ pc = "over"),
               UNCHANGED helper
        PROVE  HandoffInv'
    <2>1. /\ marker' \in Marker /\ markerDisk' \in Marker
          /\ HelperQuarantined' /\ CompleteIsPushed'
      BY <1>0, <1>1, <1>3 DEF HandoffTypeOK, HelperQuarantined, CompleteIsPushed, Runs
    <2> QED  BY <1>0, <1>1, <1>3, <2>1, ServerStep DEF ApplyPcs
  <1> QED  BY <1>2, <1>3 DEF ApplyPosts

\* A step of a request that changes nothing else.
LEMMA ApplyMoves ==
  ASSUME HandoffInv, NEW q \in Applies, apply[q].pc \notin {"idle", "over"},
         NEW pc \in {"recheck", "complete", "over"}, Acts(q, pc) \/ (Returns(q) /\ pc = "over"),
         UNCHANGED <<epoch0, marker, markerDisk, helper, journal, branch, index0, indexLock,
                     remote>>,
         pc = "complete" => /\ ~Runs /\ apply[q].op \in Els(remote)
                            /\ marker.op = apply[q].op
  PROVE  HandoffInv'
  <1>1. HandoffTypeOK /\ HelperQuarantined /\ CompleteIsPushed  BY DEF HandoffInv, Control
  <1>2. /\ marker' \in Marker /\ markerDisk' \in Marker
        /\ HelperQuarantined' /\ CompleteIsPushed'
    BY <1>1 DEF HandoffTypeOK, HelperQuarantined, CompleteIsPushed, Runs
  <1> QED  BY <1>1, <1>2, ServerStep DEF ApplyPcs

LEMMA ApplyAnsweredOK ==
  ASSUME HandoffInv, NEW q \in Applies, ApplyAnswered(q)
  PROVE  HandoffInv'
  <1>0. /\ apply[q].pc = "wait" /\ Ask(q) /\ Helping /\ marker.op = apply[q].op
        /\ UNCHANGED <<epoch0, marker, markerDisk, helper, journal, branch, index0, indexLock,
                       remote>>
    BY DEF HandoffInv, Control, ApplyAnswered, helperVars, Ask
  <1>1. CASE /\ ~Runs /\ helper.caller = q
             /\ Acts(q, IF helper.phase = "complete" THEN "complete" ELSE "recheck")
    <2>1. helper.phase = "complete" => apply[q].op \in Els(remote)
      BY <1>0, <1>1 DEF Helping, Ask
    <2>2. CASE helper.phase = "complete"
      BY <1>0, <1>1, <2>1, <2>2, ApplyMoves
    <2>3. CASE helper.phase # "complete"
      BY <1>0, <1>1, <2>3, ApplyMoves
    <2> QED  BY <2>2, <2>3
  <1>2. CASE Returns(q)
    BY <1>0, <1>2, ApplyMoves
  <1> QED  BY <1>1, <1>2 DEF ApplyAnswered

LEMMA ApplyFailsOK ==
  ASSUME HandoffInv, NEW q \in Applies, ApplyFails(q)
  PROVE  HandoffInv'
  BY ApplyMoves DEF ApplyFails, helperVars

LEMMA ApplyRechecksOK ==
  ASSUME HandoffInv, NEW q \in Applies, ApplyRechecks(q)
  PROVE  HandoffInv'
  <1>0. /\ apply[q].pc = "recheck" /\ Ask(q) /\ HandoffTypeOK /\ CompleteIsPushed
        /\ HelperQuarantined /\ Returns(q) /\ apply[q].op \in Bundles
        /\ UNCHANGED <<epoch0, helper, journal, branch, index0, indexLock, remote>>
    BY DEF HandoffInv, Control, ApplyRechecks, helperVars, Ask
  <1>1. CASE /\ Told(apply[q].op) = "failed"
             /\ marker' = [marker EXCEPT !.phase = "failed"]
             /\ markerDisk' \in {marker', markerDisk}
    <2>1. ~Runs  BY <1>0, <1>1, ToldOK
    <2>2. /\ marker' \in Marker /\ marker'.phase = "failed" /\ markerDisk' \in Marker
      BY <1>0, <1>1 DEF HandoffTypeOK, Marker
    <2>3. HelperQuarantined' /\ CompleteIsPushed'
      BY <1>0, <1>1, <2>1, <2>2 DEF HelperQuarantined, CompleteIsPushed, Runs
    <2> QED  BY <1>0, <2>2, <2>3, ServerStep DEF ApplyPcs
  <1>2. CASE UNCHANGED <<marker, markerDisk>>
    BY <1>0, <1>2, ApplyMoves
  <1> QED  BY <1>1, <1>2 DEF ApplyRechecks

LEMMA ApplyCompletesOK ==
  ASSUME HandoffInv, NEW q \in Applies, ApplyCompletes(q)
  PROVE  HandoffInv'
  <1>0. /\ apply[q].pc = "complete" /\ HandoffTypeOK /\ CompleteIsPushed /\ ~Runs
        /\ Returns(q) /\ apply[q].op \in Els(remote) /\ marker.op = apply[q].op
        /\ UNCHANGED <<epoch0, helper, journal, branch, index0, indexLock, remote>>
        /\ marker' = [marker EXCEPT !.phase = "complete"]
        /\ markerDisk' \in {marker', markerDisk}
    BY DEF HandoffInv, Control, ApplyCompletes, helperVars, Ask
  <1>1. /\ marker' \in Marker /\ marker'.op = marker.op /\ markerDisk' \in Marker
    BY <1>0 DEF HandoffTypeOK, Marker
  <1>2. HelperQuarantined' /\ CompleteIsPushed'
    BY <1>0, <1>1 DEF HelperQuarantined, CompleteIsPushed, Runs, Els
  <1> QED  BY <1>0, <1>1, <1>2, ServerStep DEF ApplyPcs

LEMMA MarkerByOthersOK ==
  ASSUME HandoffInv, MarkerByOthers
  PROVE  HandoffInv'
  <1> USE DEF MarkerByOthers, helperVars
  <1>1. HandoffTypeOK'  BY DEF HandoffInv, HandoffTypeOK
  <1>2. ASSUME NEW q \in Applies  PROVE Ask(q)'
    <2>1. Ask(q)  BY DEF HandoffInv, Control
    <2> QED  BY <2>1 DEF Ask, Pending, Runs, Els
  <1>3. Helping' /\ Pushed' /\ HelperQuarantined' /\ CompleteIsPushed'
    BY DEF HandoffInv, Control, Helping, Pushed, HelperQuarantined, CompleteIsPushed, Runs, Els
  <1>4. History'  BY HistoryQuiet
  <1> QED  BY <1>1, <1>2, <1>3, <1>4 DEF HandoffInv, Control

LEMMA ServerRestartOK ==
  ASSUME HandoffInv, ServerRestart
  PROVE  HandoffInv'
  <1> USE DEF ServerRestart, helperVars
  <1>0. /\ HandoffTypeOK
        /\ \A q \in Applies : Ask(q)
    BY DEF HandoffInv, Control
  <1>1. \A q \in Applies : /\ apply'[q].pc \in {"idle", "over"} /\ apply'[q].op = apply[q].op
                           /\ apply'[q].pc = "idle" <=> apply[q].pc = "idle"
                           /\ apply'[q] \in [pc: ApplyPcs, op: Bundles \cup {Nobody0}]
    BY <1>0 DEF HandoffTypeOK, ApplyPcs
  <1>2. apply' \in [Applies -> [pc: ApplyPcs, op: Bundles \cup {Nobody0}]]
    BY <1>1
  <1>3. HandoffTypeOK'  BY <1>0, <1>2 DEF HandoffTypeOK
  <1>4. ASSUME NEW q \in Applies  PROVE Ask(q)'
    BY <1>0, <1>1 DEF Ask
  <1>5. Helping' /\ Pushed' /\ HelperQuarantined' /\ CompleteIsPushed'
    BY DEF HandoffInv, Control, Helping, Pushed, HelperQuarantined, CompleteIsPushed, Runs, Els
  <1>6. History'  BY HistoryQuiet
  <1> QED  BY <1>3, <1>4, <1>5, <1>6 DEF HandoffInv, Control

\* The helper's steps leave the control plane alone, and never start a task.
LEMMA HelperStep ==
  ASSUME HandoffInv, UNCHANGED serverVars, helper' \in Helper,
         helper'.op = helper.op \/ helper' = NewHelper,
         Runs' => Runs /\ helper'.op = helper.op,
         helper'.caller \in {helper.caller, Nobody0},
         Els(remote) \subseteq Els(remote'),
         Helping', Pushed'
  PROVE  Control'
  <1> USE DEF serverVars
  <1>0. HandoffTypeOK /\ HelperQuarantined /\ CompleteIsPushed /\ \A q \in Applies : Ask(q)
    BY DEF HandoffInv, Control
  <1>1. ASSUME NEW q \in Applies  PROVE Ask(q)'
    <2>1. q # Nobody0  BY HandoffAssumption
    <2>2. helper'.caller = q => helper' # NewHelper
      BY <2>1 DEF NewHelper
    <2>3. Ask(q)  BY <1>0
    <2>4. /\ apply[q].pc \in {"mark", "post", "complete"} => ~Runs'
          /\ Pending' = Pending
      BY <2>3 DEF Ask, Pending
    <2>5. helper'.caller = q => apply[q].pc # "idle" /\ helper'.op = apply[q].op
      BY <2>1, <2>2, <2>3 DEF Ask
    <2>6. apply[q].pc = "complete" => apply[q].op \in Els(remote')
      BY <2>3 DEF Ask
    <2>7. Els(remote)' = Els(remote')  BY DEF Els
    <2> QED  BY <2>3, <2>4, <2>5, <2>6, <2>7 DEF Ask
  <1>2. HelperQuarantined'  BY <1>0 DEF HelperQuarantined, Runs
  <1>3. CompleteIsPushed'  BY <1>0 DEF CompleteIsPushed, Els
  <1> QED  BY <1>1, <1>2, <1>3 DEF Control

\* The types and parts at hand when a task runs.
LEMMA TaskFacts ==
  ASSUME HandoffInv, Runs
  PROVE  /\ helper.op \in Bundles /\ helper \in Helper /\ helper.phase = "busy"
         /\ journal[helper.op] \in Journal /\ journal \in [Bundles -> Journal]
         /\ journal[helper.op].base \in Branch /\ Commit(helper.op) \in Branch
         /\ branch \in Branch /\ index0 \in Branch /\ remote \in Branch
  <1>1. helper.op \in Bundles /\ helper \in Helper /\ helper.phase = "busy"
    BY DEF HandoffInv, Control, Helping, HandoffTypeOK
  <1>2. journal \in [Bundles -> Journal] /\ branch \in Branch /\ index0 \in Branch /\ remote \in Branch
    BY DEF HandoffInv, HandoffTypeOK
  <1>3. journal[helper.op] \in Journal  BY <1>1, <1>2
  <1>4. journal[helper.op].base \in Branch  BY <1>3 DEF Journal
  <1>5. Commit(helper.op) \in Branch  BY <1>1, <1>4 DEF Commit, Branch
  <1> QED  BY <1>1, <1>2, <1>3, <1>4, <1>5

LEMMA ElsPrimed == Els(remote)' = Els(remote')
  BY DEF Els

\* A bundle that is not on the branch has no place there that a journal could move.
LEMMA OnceOtherwise ==
  ASSUME HandoffInv, NEW o \in Bundles, NEW j \in Journal, o \notin Els(branch),
         journal' = [journal EXCEPT ![o] = j], UNCHANGED branch
  PROVE  OnceIn(branch)'
  <1>1. OnceIn(branch) /\ journal \in [Bundles -> Journal]
    BY DEF HandoffInv, History, HandoffTypeOK
  <1>2. \A i \in 1..Len(branch) : branch[i] # o  BY DEF Els
  <1>3. \A c : c # o /\ c \in Bundles => journal'[c] = journal[c]  BY <1>1
  <1>4. branch \in Seq(Bundles \cup {User})  BY DEF HandoffInv, HandoffTypeOK, Branch
  <1>5. \A i \in 1..Len(branch) : branch[i] # User => branch[i] \in Bundles  BY <1>4
  <1> QED  BY <1>1, <1>2, <1>3, <1>5 DEF OnceIn, Above

LEMMA TaskBeginsOK ==
  ASSUME HandoffInv, TaskBegins
  PROVE  HandoffInv'
  <1> DEFINE o == helper.op
  <1>0. /\ helper.pc = "begin" /\ Runs /\ UNCHANGED <<serverVars, branch, index0, indexLock, remote>>
    BY DEF TaskBegins, Task, Runs
  <1>1. /\ o \in Bundles /\ helper \in Helper /\ helper.phase = "busy"
        /\ journal[o] \in Journal /\ journal \in [Bundles -> Journal]
        /\ branch \in Branch /\ index0 \in Branch
    BY <1>0, TaskFacts
  <1>2. /\ helper'.pc \in {"lock", "write"} /\ helper'.op = o /\ helper'.caller = helper.caller
        /\ helper'.phase = helper.phase /\ helper' \in Helper
    BY <1>1 DEF TaskBegins, Helper, HelperPcs
  <1>3. Helping'
    BY <1>0, <1>1, <1>2 DEF Helping, HandoffInv, Control, Runs, Els
  <1>4. Runs' /\ Els(remote) \subseteq Els(remote')  BY <1>0, <1>2 DEF Runs
  <1>5. /\ Prefix(remote, branch)'
        /\ \A c \in Bundles : journal[c].there => c \notin Els(journal[c].base)
        /\ OnceIn(branch) /\ Pushed
    BY <1>0 DEF HandoffInv, History, Control, Prefix
  <1>6. CASE journal[o].there /\ UNCHANGED journal
    <2>1. Pushed'  BY <1>0, <1>5, <1>6 DEF Pushed, Els
    <2>2. OnceIn(branch)'  BY <1>0, <1>5, <1>6 DEF OnceIn
    <2>3. History'
      <3>1. journal'[helper'.op].there  BY <1>2, <1>6
      <3>2. \A c \in Bundles : journal'[c].there => c \notin Els(journal'[c].base)  BY <1>5, <1>6
      <3>3. helper'.pc \notin {"index", "push", "end"}  BY <1>2
      <3> QED  BY <1>5, <2>2, <3>1, <3>2, <3>3 DEF History
    <2>4. HandoffTypeOK'  BY <1>0, <1>2, <1>6 DEF HandoffInv, HandoffTypeOK, serverVars
    <2>5. Control'  BY <1>0, <1>2, <1>3, <1>4, <2>1, HelperStep
    <2> QED  BY <2>3, <2>4, <2>5 DEF HandoffInv
  <1>7. CASE /\ ~journal[o].there
             /\ o \notin {branch[i] : i \in 1..Len(branch)}
             /\ journal' = [journal EXCEPT ![o] = [NoJournal EXCEPT !.there = TRUE,
                                                                    !.base = branch]]
    <2> DEFINE j == [NoJournal EXCEPT !.there = TRUE, !.base = branch]
    <2>1. NoJournal \in Journal /\ ~NoJournal.pushed
      <3>1. <<>> \in Branch  BY DEF Branch
      <3> QED  BY <3>1 DEF NoJournal, Journal
    <2>2. j \in Journal /\ j.there /\ j.base = branch /\ ~j.pushed
      BY <1>1, <2>1 DEF Journal
    <2>3. journal' = [journal EXCEPT ![o] = j]  BY <1>7
    <2> HIDE DEF j
    <2>4. /\ journal' \in [Bundles -> Journal] /\ journal'[o] = j
          /\ \A c \in Bundles \ {o} : journal'[c] = journal[c]
      BY <1>1, <2>2, <2>3
    <2>5. o \notin Els(branch)  BY <1>7 DEF Els
    <2>6. Pushed'
      BY <1>0, <1>5, <2>2, <2>4 DEF Pushed, Els
    <2>7. OnceIn(branch)'  BY <1>0, <1>1, <2>2, <2>3, <2>5, OnceOtherwise
    <2>8. History'
      <3>1. journal'[helper'.op].there  BY <1>2, <2>2, <2>4
      <3>2. \A c \in Bundles : journal'[c].there => c \notin Els(journal'[c].base)
        BY <1>5, <2>2, <2>4, <2>5
      <3>3. helper'.pc \notin {"index", "push", "end"}  BY <1>2
      <3> QED  BY <1>5, <2>7, <3>1, <3>2, <3>3 DEF History
    <2>9. HandoffTypeOK'
      BY <1>0, <1>2, <2>4 DEF HandoffInv, HandoffTypeOK, serverVars
    <2>10. Control'  BY <1>0, <1>2, <1>3, <1>4, <2>6, HelperStep
    <2> QED  BY <2>8, <2>9, <2>10 DEF HandoffInv
  <1> QED  BY <1>6, <1>7 DEF TaskBegins

\* A task's step on its journal and the remote; the branch stays.
LEMMA TaskStep ==
  ASSUME HandoffInv, Runs, UNCHANGED <<serverVars, branch>>,
         helper' \in Helper, helper'.op = helper.op, helper'.caller = helper.caller,
         \/ helper'.phase = helper.phase /\ Runs'
         \/ helper'.pc = "idle" /\ helper'.phase = "failed",
         indexLock' \in BOOLEAN, index0' \in Branch,
         NEW j \in Journal, journal' = [journal EXCEPT ![helper.op] = j],
         j.there = journal[helper.op].there, j.base = journal[helper.op].base,
         remote' \in Branch, Prefix(remote, remote'), Prefix(remote', branch),
         j.pushed => helper.op \in Els(remote'),
         helper'.pc = "end" => helper.op \in Els(remote'),
         helper'.pc # "idle" => journal[helper.op].there,
         helper'.pc \in {"index", "push", "end"} => Prefix(Commit(helper.op), branch)
  PROVE  HandoffInv'
  <1> DEFINE o == helper.op
  <1>0. /\ o \in Bundles /\ helper.phase = "busy" /\ journal \in [Bundles -> Journal]
        /\ branch \in Branch /\ remote \in Branch
    BY TaskFacts
  <1>1. /\ journal' \in [Bundles -> Journal] /\ journal'[o] = j
        /\ \A c \in Bundles : c # o => journal'[c] = journal[c]
    BY <1>0
  <1>2. \A c \in Bundles : journal'[c].there = journal[c].there /\ journal'[c].base = journal[c].base
    BY <1>1
  <1>3. Els(remote) \subseteq Els(remote')  BY <1>0, PrefixEls DEF Branch
  <1>4. Pushed'
    <2>1. Pushed  BY DEF HandoffInv, Control
    <2>2. \A c \in Bundles : journal'[c].pushed => c \in Els(remote')
      BY <1>1, <1>3, <2>1 DEF Pushed
    <2> QED  BY <2>2, ElsPrimed DEF Pushed
  <1>5. Helping'
    <2>1. Helping  BY DEF HandoffInv, Control
    <2>2. (helper'.pc # "idle") <=> helper'.phase = "busy"  BY <1>0 DEF Runs
    <2>3. helper'.phase # "complete"  BY <1>0
    <2> QED  BY <1>0, <2>1, <2>2, <2>3, ElsPrimed DEF Helping, Runs
  <1>6. Control'  BY <1>3, <1>4, <1>5, HelperStep
  <1>7. OnceIn(branch)'
    <2>1. OnceIn(branch)  BY DEF HandoffInv, History
    <2>2. \A i \in 1..Len(branch) : branch[i] # User => branch[i] \in Bundles
      BY <1>0 DEF Branch
    <2> QED  BY <1>2, <2>1, <2>2 DEF OnceIn, Above
  <1>8. \A c \in Bundles : journal'[c].there => c \notin Els(journal'[c].base)
    BY <1>2 DEF HandoffInv, History
  <1>9. Prefix(remote, branch)'  BY DEF Prefix
  <1>10. helper'.pc \in {"index", "push", "end"} => Prefix(Commit(helper.op), branch)'
    <2>1. Append(journal'[o].base, o) = Commit(o)  BY <1>0, <1>2 DEF Commit
    <2> QED  BY <2>1 DEF Prefix, Commit
  <1>11. helper'.pc \in HelperPcs \ {"idle", "begin"} => journal'[helper'.op].there
    BY <1>0, <1>2
  <1>12. History'  BY <1>7, <1>8, <1>9, <1>10, <1>11 DEF History
  <1>13. HandoffTypeOK'  BY <1>1, <1>0 DEF HandoffInv, HandoffTypeOK, serverVars
  <1> QED  BY <1>6, <1>12, <1>13 DEF HandoffInv

LEMMA RemoteIsPrefix ==
  ASSUME HandoffInv
  PROVE  /\ Prefix(remote, remote) /\ Prefix(remote, branch)
         /\ remote \in Branch /\ branch \in Branch
  BY PrefixSelf DEF HandoffInv, History, HandoffTypeOK, Branch

LEMMA TaskWritesOK ==
  ASSUME HandoffInv, TaskWrites
  PROVE  HandoffInv'
  <1> DEFINE o == helper.op
             j == [journal[o] EXCEPT !.commit = TRUE]
  <1>0. /\ helper.pc = "write" /\ Runs /\ UNCHANGED <<serverVars, branch, index0, indexLock, remote>>
    BY DEF TaskWrites, Task, Runs
  <1>1. /\ o \in Bundles /\ helper \in Helper /\ journal[o] \in Journal
        /\ journal \in [Bundles -> Journal] /\ index0 \in Branch
    BY <1>0, TaskFacts
  <1>2. /\ helper'.pc = "lock" /\ helper'.op = o /\ helper'.caller = helper.caller
        /\ helper'.phase = helper.phase /\ helper' \in Helper /\ Runs'
    BY <1>1 DEF TaskWrites, Helper, HelperPcs, Runs
  <1>3. /\ j \in Journal /\ j.there = journal[o].there /\ j.base = journal[o].base
        /\ j.pushed = journal[o].pushed
    BY <1>1 DEF Journal
  <1>4. journal' = [journal EXCEPT ![o] = j]  BY <1>1 DEF TaskWrites
  <1>5. journal[o].there  BY <1>0 DEF HandoffInv, History, HelperPcs
  <1>6. j.pushed => o \in Els(remote)  BY <1>1, <1>3 DEF HandoffInv, Control, Pushed
  <1>7. indexLock \in BOOLEAN  BY DEF HandoffInv, HandoffTypeOK
  <1> HIDE DEF j
  <1> QED  BY <1>0, <1>1, <1>2, <1>3, <1>4, <1>5, <1>6, <1>7, TaskStep, RemoteIsPrefix

\* The journal of the task stays as it was.
LEMMA JournalStays ==
  ASSUME HandoffInv, Runs
  PROVE  /\ journal = [journal EXCEPT ![helper.op] = journal[helper.op]]
         /\ journal[helper.op] \in Journal
         /\ journal[helper.op].pushed => helper.op \in Els(remote)
         /\ helper.pc # "begin" => journal[helper.op].there
         /\ indexLock \in BOOLEAN
  <1>1. helper.op \in Bundles /\ journal \in [Bundles -> Journal] /\ helper \in Helper
    BY TaskFacts
  <1> QED  BY <1>1 DEF HandoffInv, Control, Pushed, History, Helper, Runs, HandoffTypeOK

LEMMA TaskLocksOK ==
  ASSUME HandoffInv, TaskLocks
  PROVE  HandoffInv'
  <1>0. /\ helper.pc = "lock" /\ Runs
        /\ UNCHANGED <<serverVars, branch, index0, remote, journal>>
        /\ indexLock' = TRUE
    BY DEF TaskLocks, Task, Runs
  <1>1. helper \in Helper /\ index0 \in Branch  BY <1>0, TaskFacts
  <1>2. /\ helper'.pc = "publish" /\ helper'.op = helper.op /\ helper'.caller = helper.caller
        /\ helper'.phase = helper.phase /\ helper' \in Helper /\ Runs'
    BY <1>1 DEF TaskLocks, Helper, HelperPcs, Runs
  <1>3. journal' = [journal EXCEPT ![helper.op] = journal[helper.op]]
    BY <1>0, JournalStays
  <1> QED  BY <1>0, <1>1, <1>2, <1>3, TaskStep, RemoteIsPrefix, JournalStays

LEMMA TaskIndexesOK ==
  ASSUME HandoffInv, TaskIndexes
  PROVE  HandoffInv'
  <1>0. /\ helper.pc = "index" /\ Runs
        /\ UNCHANGED <<serverVars, branch, remote, journal>>
        /\ indexLock' = FALSE /\ index0' = Commit(helper.op)
    BY DEF TaskIndexes, Task, Runs
  <1>1. helper \in Helper /\ index0' \in Branch  BY <1>0, TaskFacts
  <1>2. /\ helper'.pc = "push" /\ helper'.op = helper.op /\ helper'.caller = helper.caller
        /\ helper'.phase = helper.phase /\ helper' \in Helper /\ Runs'
    BY <1>1 DEF TaskIndexes, Helper, HelperPcs, Runs
  <1>3. journal' = [journal EXCEPT ![helper.op] = journal[helper.op]]
    BY <1>0, JournalStays
  <1>4. Prefix(Commit(helper.op), branch)  BY <1>0 DEF HandoffInv, History
  <1> QED  BY <1>0, <1>1, <1>2, <1>3, <1>4, TaskStep, RemoteIsPrefix, JournalStays

LEMMA TaskPushesOK ==
  ASSUME HandoffInv, TaskPushes
  PROVE  HandoffInv'
  <1> DEFINE o == helper.op
             j == [journal[o] EXCEPT !.pushed = TRUE]
  <1>0. /\ helper.pc = "push" /\ Runs /\ UNCHANGED <<serverVars, branch, index0, indexLock>>
    BY DEF TaskPushes, Task, Runs
  <1>1. /\ o \in Bundles /\ helper \in Helper /\ journal[o] \in Journal
        /\ journal \in [Bundles -> Journal] /\ index0 \in Branch
        /\ Commit(o) \in Branch /\ journal[o].base \in Branch
    BY <1>0, TaskFacts
  <1>2. /\ helper'.pc = "end" /\ helper'.op = o /\ helper'.caller = helper.caller
        /\ helper'.phase = helper.phase /\ helper' \in Helper /\ Runs'
    BY <1>1 DEF TaskPushes, Helper, HelperPcs, Runs
  <1>3. Prefix(Commit(o), branch)  BY <1>0 DEF HandoffInv, History
  <1>4. CASE journal[o].pushed /\ UNCHANGED <<journal, remote>>
    <2>1. journal' = [journal EXCEPT ![o] = journal[o]]  BY <1>0, <1>4, JournalStays
    <2> QED  BY <1>0, <1>1, <1>2, <1>3, <1>4, <2>1, TaskStep, RemoteIsPrefix, JournalStays
  <1>5. CASE /\ ~journal[o].pushed
             /\ \/ Prefix(remote, Commit(o)) /\ remote' = Commit(o)
                \/ Prefix(Commit(o), remote) /\ UNCHANGED remote
             /\ journal' = [journal EXCEPT ![o].pushed = TRUE]
    <2>1. /\ j \in Journal /\ j.there = journal[o].there /\ j.base = journal[o].base
      BY <1>1 DEF Journal
    <2>2. journal' = [journal EXCEPT ![o] = j]  BY <1>1, <1>5
    <2> HIDE DEF j
    <2>3. o \in Els(Commit(o))  BY <1>1, AppendEls DEF Commit, Branch
    <2>4. /\ remote' \in Branch /\ Prefix(remote, remote') /\ Prefix(remote', branch)
      BY <1>1, <1>3, <1>5, RemoteIsPrefix
    <2>5. o \in Els(remote')
      <3>1. Prefix(Commit(o), remote')
        BY <1>1, <1>5, PrefixSelf DEF Branch
      <3> QED  BY <1>1, <2>3, <2>4, <3>1, PrefixEls DEF Branch
    <2> QED  BY <1>0, <1>1, <1>2, <1>3, <2>1, <2>2, <2>4, <2>5, TaskStep, JournalStays
  <1> QED  BY <1>4, <1>5 DEF TaskPushes

LEMMA TaskFailsOK ==
  ASSUME HandoffInv, TaskFails
  PROVE  HandoffInv'
  <1> DEFINE o == helper.op
  <1>0. /\ Runs /\ UNCHANGED <<serverVars, branch, index0, journal>>
        /\ helper' = Rested(helper, "failed")
        /\ \/ UNCHANGED remote
           \/ helper.pc = "push" /\ Prefix(remote, Commit(o)) /\ remote' = Commit(o)
        /\ indexLock' \in BOOLEAN
    BY DEF TaskFails, Runs
  <1>1. /\ o \in Bundles /\ helper \in Helper /\ index0 \in Branch /\ Commit(o) \in Branch
    BY <1>0, TaskFacts
  <1>2. /\ helper'.pc = "idle" /\ helper'.op = o /\ helper'.caller = helper.caller
        /\ helper'.phase = "failed" /\ helper' \in Helper
    BY <1>0, <1>1 DEF Rested, Helper, HelperPcs
  <1>3. journal' = [journal EXCEPT ![o] = journal[o]]  BY <1>0, JournalStays
  <1>4. helper.pc = "push" => Prefix(Commit(o), branch)  BY DEF HandoffInv, History
  <1>5. /\ remote' \in Branch /\ Prefix(remote, remote') /\ Prefix(remote', branch)
    BY <1>0, <1>1, <1>4, RemoteIsPrefix
  <1>6. Els(remote) \subseteq Els(remote')
    BY <1>5, RemoteIsPrefix, PrefixEls DEF Branch
  <1> QED  BY <1>0, <1>1, <1>2, <1>3, <1>5, <1>6, TaskStep, JournalStays

LEMMA TaskEndsOK ==
  ASSUME HandoffInv, TaskEnds
  PROVE  HandoffInv'
  <1>0. /\ helper.pc = "end" /\ Runs /\ helper' = Rested(helper, "complete")
        /\ UNCHANGED <<serverVars, journal, branch, index0, indexLock, remote>>
    BY DEF TaskEnds, Task, Runs
  <1>1. helper \in Helper  BY <1>0, TaskFacts
  <1>2. /\ helper'.pc = "idle" /\ helper'.op = helper.op /\ helper'.caller = helper.caller
        /\ helper'.phase = "complete" /\ helper' \in Helper
    BY <1>0, <1>1 DEF Rested, Helper, HelperPcs
  <1>3. helper.op \in Els(remote) /\ Pushed  BY <1>0 DEF HandoffInv, Control, Helping
  <1>4. Helping' /\ Pushed'
    BY <1>0, <1>2, <1>3, ElsPrimed DEF Helping, Pushed, Runs
  <1>5. Control'  BY <1>0, <1>2, <1>4, HelperStep DEF Runs
  <1>6. History'  BY <1>0, <1>2, HistoryQuiet
  <1>7. HandoffTypeOK'  BY <1>0, <1>2 DEF HandoffInv, HandoffTypeOK, serverVars
  <1> QED  BY <1>5, <1>6, <1>7 DEF HandoffInv

LEMMA HelperCrashOK ==
  ASSUME HandoffInv, HelperCrash
  PROVE  HandoffInv'
  <1>0. helper' = NewHelper /\ UNCHANGED <<serverVars, journal, branch, index0, indexLock, remote>>
    BY DEF HelperCrash
  <1>1. /\ helper'.pc = "idle" /\ helper'.caller = Nobody0 /\ helper'.phase = "unknown"
        /\ helper' \in Helper
    <2>1. <<>> \in Branch  BY DEF Branch
    <2> QED  BY <1>0, <2>1 DEF NewHelper, Helper, HelperPcs
  <1>2. Pushed  BY DEF HandoffInv, Control
  <1>3. Helping' /\ Pushed'
    BY <1>0, <1>1, <1>2, ElsPrimed DEF Helping, Pushed, Runs
  <1>4. Control'  BY <1>0, <1>1, <1>3, HelperStep DEF Runs
  <1>5. History'  BY <1>0, <1>1, HistoryQuiet
  <1>6. HandoffTypeOK'  BY <1>0, <1>1 DEF HandoffInv, HandoffTypeOK, serverVars
  <1> QED  BY <1>4, <1>5, <1>6 DEF HandoffInv

LEMMA TaskPublishesOK ==
  ASSUME HandoffInv, TaskPublishes
  PROVE  HandoffInv'
  <1> DEFINE o == helper.op
             base == journal[o].base
  <1>0. /\ helper.pc = "publish" /\ Runs
        /\ UNCHANGED <<serverVars, journal, index0, indexLock, remote>>
        /\ branch \in {base, Commit(o)} /\ branch' = Commit(o)
        /\ helper' = [helper EXCEPT !.pc = "index"]
    BY DEF TaskPublishes, Task, Runs
  <1>1. /\ o \in Bundles /\ helper \in Helper /\ base \in Branch /\ Commit(o) \in Branch
        /\ journal \in [Bundles -> Journal] /\ helper.phase = "busy"
    BY <1>0, TaskFacts
  <1>2. /\ helper'.pc = "index" /\ helper'.op = o /\ helper'.caller = helper.caller
        /\ helper'.phase = helper.phase /\ helper' \in Helper /\ Runs'
    BY <1>0, <1>1 DEF Helper, HelperPcs, Runs
  <1>3. Helping /\ Pushed  BY DEF HandoffInv, Control
  <1>4. Helping' /\ Pushed'
    BY <1>0, <1>1, <1>2, <1>3, ElsPrimed DEF Helping, Pushed, Runs
  <1>5. Control'  BY <1>0, <1>2, <1>4, HelperStep
  <1>6. HandoffTypeOK'  BY <1>0, <1>1, <1>2 DEF HandoffInv, HandoffTypeOK, serverVars
  <1>7. /\ journal[o].there /\ o \notin Els(base) /\ OnceIn(branch) /\ Prefix(remote, branch)
        /\ remote \in Branch
    BY <1>0, <1>1, RemoteIsPrefix DEF HandoffInv, History, HelperPcs
  <1>8. Prefix(branch, branch')
    <2>1. Prefix(base, Commit(o))  BY <1>1, PrefixAppend DEF Commit, Branch
    <2>2. Prefix(Commit(o), Commit(o))  BY <1>1, PrefixSelf DEF Branch
    <2> QED  BY <1>0, <2>1, <2>2
  <1>9. OnceIn(branch)'
    <2>1. CASE branch = Commit(o)
      BY <1>0, <1>7, <2>1 DEF OnceIn
    <2>2. CASE branch = base
      <3>1. /\ Len(Commit(o)) = Len(base) + 1 /\ Len(base) \in Nat
            /\ Commit(o)[Len(base) + 1] = o
            /\ \A k \in 1..Len(base) : Commit(o)[k] = base[k]
        BY <1>1 DEF Commit, Branch
      <3>2. \A k \in 1..Len(base) : base[k] # o  BY <1>7 DEF Els
      <3>3. ASSUME NEW i \in 1..Len(Commit(o)), Commit(o)[i] # User
            PROVE  /\ \A k \in 1..Len(Commit(o)) : Commit(o)[k] = Commit(o)[i] => k = i
                   /\ journal[Commit(o)[i]].there => Above(journal[Commit(o)[i]].base, Commit(o), i)
        <4>1. CASE i = Len(base) + 1
          <5>1. i \in Nat /\ Commit(o)[i] = o /\ i - 1 = Len(base)
            BY <3>1, <4>1
          <5>2. Above(base, Commit(o), i)
            BY <3>1, <5>1 DEF Above
          <5>3. ASSUME NEW k \in 1..Len(Commit(o)), Commit(o)[k] = o
                PROVE  k = i
            <6>1. k \in 1..Len(base) \/ k = i  BY <3>1, <4>1
            <6> QED  BY <3>1, <3>2, <5>3, <6>1
          <5> HIDE DEF base
          <5>4. Above(journal[o].base, Commit(o), i)
            BY <5>2 DEF base
          <5> QED  BY <5>1, <5>3, <5>4
        <4>2. CASE i # Len(base) + 1
          <5>1. i \in 1..Len(base)  BY <3>1, <4>2
          <5>2. Commit(o)[i] = base[i] /\ base[i] # User  BY <3>1, <3>3, <5>1
          <5>3. /\ \A k \in 1..Len(base) : base[k] = base[i] => k = i
                /\ journal[base[i]].there => Above(journal[base[i]].base, base, i)
            BY <1>7, <2>2, <5>1, <5>2 DEF OnceIn
          <5>4. \A k \in 1..Len(Commit(o)) : k \in 1..Len(base) \/ k = Len(base) + 1
            BY <3>1
          <5>5. \A k \in 1..Len(Commit(o)) : Commit(o)[k] = Commit(o)[i] => k = i
            BY <3>1, <3>2, <5>1, <5>2, <5>3, <5>4
          <5>6. ASSUME journal[base[i]].there
                PROVE  Above(journal[base[i]].base, Commit(o), i)
            <6>1. Above(journal[base[i]].base, base, i)  BY <5>3, <5>6
            <6>2. \A k \in 1..(i - 1) : k \in 1..Len(base)  BY <3>1, <5>1
            <6> QED  BY <3>1, <6>1, <6>2 DEF Above
          <5> QED  BY <5>2, <5>5, <5>6
        <4> QED  BY <4>1, <4>2
      <3>4. OnceIn(Commit(o))  BY <3>3 DEF OnceIn
      <3>5. journal' = journal /\ branch' = Commit(o)  BY <1>0
      <3> QED  BY <3>4, <3>5 DEF OnceIn
    <2> QED  BY <1>0, <2>1, <2>2
  <1>10. Prefix(remote, branch)'
    <2>1. Prefix(remote, branch')  BY <1>0, <1>1, <1>7, <1>8, PrefixTrans, RemoteIsPrefix DEF Branch
    <2> QED  BY <1>0, <2>1 DEF Prefix
  <1>11. Prefix(Commit(helper.op), branch)'
    <2>1. Prefix(Commit(o), Commit(o))  BY <1>1, PrefixSelf DEF Branch
    <2>2. Append(journal'[helper'.op].base, helper'.op) = Commit(o)  BY <1>0, <1>2 DEF Commit
    <2> QED  BY <1>0, <2>1, <2>2 DEF Prefix, Commit
  <1>12. \A c \in Bundles : journal'[c].there => c \notin Els(journal'[c].base)
    BY <1>0 DEF HandoffInv, History
  <1>13. journal'[helper'.op].there  BY <1>0, <1>2, <1>7
  <1>14. History'  BY <1>9, <1>10, <1>11, <1>12, <1>13 DEF History
  <1> QED  BY <1>5, <1>6, <1>14 DEF HandoffInv

LEMMA UserCommitsOK ==
  ASSUME HandoffInv, UserCommits
  PROVE  HandoffInv'
  <1>0. /\ branch' = Append(branch, User) /\ index0' = branch'
        /\ remote' = remote \/ (Prefix(remote, branch') /\ remote' = branch')
        /\ UNCHANGED <<serverVars, helper, journal, indexLock>>
    BY DEF UserCommits
  <1>1. branch \in Branch /\ remote \in Branch /\ Prefix(remote, branch) /\ Prefix(remote, remote)
    BY RemoteIsPrefix
  <1>2. /\ branch' \in Branch /\ Len(branch) \in Nat /\ Len(branch') = Len(branch) + 1
        /\ branch'[Len(branch) + 1] = User
        /\ \A k \in 1..Len(branch) : branch'[k] = branch[k]
    BY <1>0, <1>1 DEF Branch
  <1>3. Prefix(branch, branch') /\ Prefix(branch', branch')
    BY <1>0, <1>1, <1>2, PrefixAppend, PrefixSelf DEF Branch
  <1>4. /\ remote' \in Branch /\ Prefix(remote, remote')
    BY <1>0, <1>1, <1>2
  <1>5. Prefix(remote', branch')
    BY <1>0, <1>1, <1>2, <1>3, PrefixTrans DEF Branch
  <1>6. Els(remote) \subseteq Els(remote')  BY <1>1, <1>4, PrefixEls DEF Branch
  <1>7. Helping' /\ Pushed'
    <2>1. Helping /\ Pushed  BY DEF HandoffInv, Control
    <2> QED  BY <1>0, <1>6, <2>1, ElsPrimed DEF Helping, Pushed, Runs
  <1>8. helper \in Helper  BY DEF HandoffInv, HandoffTypeOK
  <1>9. Control'  BY <1>0, <1>6, <1>7, <1>8, HelperStep DEF Runs
  <1>10. HandoffTypeOK'  BY <1>0, <1>2, <1>4 DEF HandoffInv, HandoffTypeOK, serverVars
  <1>11. OnceIn(branch)'
    <2>1. OnceIn(branch)  BY DEF HandoffInv, History
    <2> SUFFICES ASSUME NEW i \in 1..Len(branch'), branch'[i] # User
                 PROVE  /\ \A k \in 1..Len(branch') : branch'[k] = branch'[i] => k = i
                        /\ journal[branch'[i]].there => Above(journal[branch'[i]].base, branch', i)
      BY <1>0 DEF OnceIn, Above
    <2>2. i \in 1..Len(branch) /\ branch'[i] = branch[i]  BY <1>2
    <2>3. /\ \A k \in 1..Len(branch) : branch[k] = branch[i] => k = i
          /\ journal[branch[i]].there => Above(journal[branch[i]].base, branch, i)
      BY <2>1, <2>2 DEF OnceIn
    <2>4. \A k \in 1..Len(branch') : k \in 1..Len(branch) \/ k = Len(branch) + 1  BY <1>2
    <2>5. \A k \in 1..Len(branch') : branch'[k] = branch'[i] => k = i
      BY <1>2, <2>2, <2>3, <2>4
    <2>6. ASSUME journal[branch[i]].there
          PROVE  Above(journal[branch[i]].base, branch', i)
      <3>1. Above(journal[branch[i]].base, branch, i)  BY <2>3, <2>6
      <3>2. \A k \in 1..(i - 1) : k \in 1..Len(branch)  BY <1>2, <2>2
      <3> QED  BY <1>2, <3>1, <3>2 DEF Above
    <2> QED  BY <2>2, <2>5, <2>6
  <1>12. Prefix(remote, branch)'  BY <1>5 DEF Prefix
  <1>13. helper.pc \in {"index", "push", "end"} => Prefix(Commit(helper.op), branch)'
    <2> SUFFICES ASSUME helper.pc \in {"index", "push", "end"}
                 PROVE  Prefix(Commit(helper.op), branch)'
      OBVIOUS
    <2>1. Prefix(Commit(helper.op), branch) /\ Commit(helper.op) \in Branch
      BY TaskFacts DEF HandoffInv, History, Runs
    <2>2. Prefix(Commit(helper.op), branch')
      BY <1>1, <1>2, <1>3, <2>1, PrefixTrans DEF Branch
    <2>3. Commit(helper.op)' = Commit(helper.op)  BY <1>0 DEF Commit
    <2> QED  BY <2>2, <2>3 DEF Prefix
  <1>14. /\ helper'.pc \in HelperPcs \ {"idle", "begin"} => journal'[helper'.op].there
         /\ \A c \in Bundles : journal'[c].there => c \notin Els(journal'[c].base)
    BY <1>0 DEF HandoffInv, History
  <1>15. History'  BY <1>0, <1>11, <1>12, <1>13, <1>14 DEF History
  <1> QED  BY <1>9, <1>10, <1>15 DEF HandoffInv

LEMMA HandoffRecycleOK ==
  ASSUME HandoffInv, HandoffRecycle
  PROVE  HandoffInv'
  <1>0. /\ locked = Nobody0 /\ ~Pending /\ epoch0 < LastEpoch /\ epoch0' = epoch0 + 1
        /\ remote' = remote \/ (Prefix(remote, branch) /\ remote' = branch)
        /\ branch' = remote' /\ index0' = remote'
        /\ helper' = NewHelper /\ journal' = [o \in Bundles |-> NoJournal] /\ indexLock' = FALSE
        /\ UNCHANGED <<marker, markerDisk, apply, locked>>
    BY DEF HandoffRecycle
  <1>1. /\ branch \in Branch /\ remote \in Branch /\ Prefix(remote, branch)
        /\ Prefix(remote, remote)
    BY RemoteIsPrefix
  <1>2. remote' \in Branch /\ Prefix(remote, remote') /\ Prefix(remote', branch)
    BY <1>0, <1>1, PrefixSelf DEF Branch
  <1>3. Els(remote) \subseteq Els(remote')  BY <1>1, <1>2, PrefixEls DEF Branch
  <1>4. /\ helper'.pc = "idle" /\ helper'.caller = Nobody0 /\ helper'.phase = "unknown"
        /\ helper' \in Helper
    <2>1. <<>> \in Branch  BY DEF Branch
    <2> QED  BY <1>0, <2>1 DEF NewHelper, Helper, HelperPcs
  <1>5. NoJournal \in Journal /\ ~NoJournal.there /\ ~NoJournal.pushed
    <2>1. <<>> \in Branch  BY DEF Branch
    <2> QED  BY <2>1 DEF NoJournal, Journal
  <1>6. /\ journal' \in [Bundles -> Journal]
        /\ \A o \in Bundles : ~journal'[o].there /\ ~journal'[o].pushed
    BY <1>0, <1>5
  <1>7. HandoffTypeOK'
    <2>1. epoch0' \in 1..LastEpoch
      BY <1>0, HandoffAssumption DEF HandoffInv, HandoffTypeOK
    <2> QED  BY <1>0, <1>2, <1>4, <1>6, <2>1 DEF HandoffInv, HandoffTypeOK
  <1>8. ASSUME NEW q \in Applies  PROVE Ask(q)'
    <2>1. Ask(q) /\ q # Nobody0  BY HandoffAssumption DEF HandoffInv, Control
    <2>2. apply[q].pc \in {"idle", "over"}  BY <1>0, <2>1 DEF Ask
    <2> QED  BY <1>0, <1>4, <2>1, <2>2 DEF Ask
  <1>9. Helping' /\ Pushed'
    BY <1>4, <1>6 DEF Helping, Pushed, Runs
  <1>10. HelperQuarantined'  BY <1>4 DEF HelperQuarantined, Runs
  <1>11. CompleteIsPushed'
    <2>1. CompleteIsPushed  BY DEF HandoffInv, Control
    <2> QED  BY <1>0, <1>3, <2>1 DEF CompleteIsPushed, Els
  <1>12. OnceIn(branch)'
    <2>1. OnceIn(branch)  BY DEF HandoffInv, History
    <2>2. OnceIn(remote')
      BY <1>1, <1>2, <2>1, OncePrefix DEF Branch
    <2>3. \A i \in 1..Len(remote') : remote'[i] # User => remote'[i] \in Bundles
      BY <1>2 DEF Branch
    <2> QED  BY <1>0, <1>6, <2>2, <2>3 DEF OnceIn
  <1>13. Prefix(remote, branch)'
    <2>1. Prefix(remote', remote')  BY <1>2, PrefixSelf DEF Branch
    <2> QED  BY <1>0, <2>1 DEF Prefix
  <1>14. History'
    BY <1>4, <1>6, <1>12, <1>13 DEF History
  <1> QED  BY <1>7, <1>8, <1>9, <1>10, <1>11, <1>14 DEF HandoffInv, Control

LEMMA HandoffInitOK == HandoffInit => HandoffInv
  <1> SUFFICES ASSUME HandoffInit  PROVE HandoffInv
    OBVIOUS
  <1> USE DEF HandoffInit
  <1>1. <<>> \in Branch  BY DEF Branch
  <1>2. NoMarker \in Marker /\ NoMarker.phase = "none" /\ NoMarker.op = Nobody0
    BY HandoffAssumption DEF NoMarker, Marker
  <1>3. NewHelper \in Helper /\ NewHelper.pc = "idle" /\ NewHelper.phase = "unknown"
        /\ NewHelper.caller = Nobody0
    BY <1>1 DEF NewHelper, Helper, HelperPcs
  <1>4. NoJournal \in Journal /\ ~NoJournal.there /\ ~NoJournal.pushed
    BY <1>1 DEF NoJournal, Journal
  <1>5. HandoffTypeOK
    <2>1. apply \in [Applies -> [pc: ApplyPcs, op: Bundles \cup {Nobody0}]]
      BY DEF ApplyPcs
    <2>2. journal \in [Bundles -> Journal]  BY <1>4
    <2>3. epoch0 \in 1..LastEpoch  BY HandoffAssumption
    <2> QED  BY <1>1, <1>2, <1>3, <2>1, <2>2, <2>3 DEF HandoffTypeOK
  <1>6. ASSUME NEW q \in Applies  PROVE Ask(q)
    <2>1. q # Nobody0 /\ apply[q].pc = "idle"  BY HandoffAssumption
    <2> QED  BY <1>3, <2>1 DEF Ask
  <1>7. Helping /\ Pushed /\ HelperQuarantined /\ CompleteIsPushed
    BY <1>2, <1>3, <1>4 DEF Helping, Pushed, HelperQuarantined, CompleteIsPushed, Runs
  <1>8. Prefix(remote, branch)  BY <1>1, PrefixSelf DEF Branch
  <1>9. OnceIn(branch)  BY DEF OnceIn
  <1>10. History  BY <1>3, <1>4, <1>8, <1>9 DEF History
  <1> QED  BY <1>5, <1>6, <1>7, <1>10 DEF HandoffInv, Control

LEMMA HandoffStutters ==
  ASSUME HandoffInv, UNCHANGED handoffVars
  PROVE  HandoffInv'
  <1> USE DEF handoffVars, helperVars, serverVars
  <1>1. HandoffTypeOK'  BY DEF HandoffInv, HandoffTypeOK
  <1>2. ASSUME NEW q \in Applies  PROVE Ask(q)'
    <2>1. Ask(q)  BY DEF HandoffInv, Control
    <2> QED  BY <2>1 DEF Ask, Pending, Runs, Els
  <1>3. Helping' /\ Pushed' /\ HelperQuarantined' /\ CompleteIsPushed'
    BY DEF HandoffInv, Control, Helping, Pushed, HelperQuarantined, CompleteIsPushed, Runs, Els
  <1>4. History'  BY HistoryQuiet
  <1> QED  BY <1>1, <1>2, <1>3, <1>4 DEF HandoffInv, Control

LEMMA HandoffStepOK ==
  ASSUME HandoffInv, HandoffNext
  PROVE  HandoffInv'
  <1>1. ASSUME NEW q \in Applies, ApplyRuns(q)  PROVE HandoffInv'
    BY <1>1, ApplyObservesOK, ApplyMarksOK, ApplyPostsOK, ApplyAnsweredOK, ApplyRechecksOK,
       ApplyCompletesOK, ApplyFailsOK DEF ApplyRuns
  <1>2. ASSUME NEW q \in Applies, NEW o \in Bundles, ApplyBegins(q, o)  PROVE HandoffInv'
    BY <1>2, ApplyBeginsOK
  <1>3. ASSUME TaskRuns  PROVE HandoffInv'
    BY <1>3, TaskBeginsOK, TaskWritesOK, TaskLocksOK, TaskPublishesOK, TaskIndexesOK,
       TaskPushesOK, TaskEndsOK, TaskFailsOK DEF TaskRuns
  <1> QED
    BY <1>1, <1>2, <1>3, HandoffRecycleOK, MarkerByOthersOK, ServerRestartOK, HelperCrashOK,
       UserCommitsOK DEF HandoffNext

\* While the helper may still write, the marker that blocks close, recycle, reap and
\* the editor is pending in memory and on disk; a bundle is committed once at most and
\* on the base it was checked against; what is reported complete is on the remote
\* branch. Crashes of both sides, retries and the driver's own commits included.
THEOREM HandoffKept == HandoffSpec => []HandoffSound
  <1>1. HandoffInit => HandoffInv  BY HandoffInitOK
  <1>2. HandoffInv /\ [HandoffNext]_handoffVars => HandoffInv'
    BY HandoffStepOK, HandoffStutters
  <1>3. HandoffInv => HandoffSound  BY HandoffInvSound
  <1> QED  BY <1>1, <1>2, <1>3, PTL DEF HandoffSpec

-----------------------------------------------------------------------------
(* Activity: an editor is called idle on evidence *)

\* The extension knows of every command of an integrated terminal, or that it does not.
Tracks(x, s) ==
  \A t \in s.running \cap s.integrated :
    t \in x.active \cup x.unobserved \cup x.over \/ x.overflow \/ x.lost

Honest(p) == ~p.overflow /\ p.integrated => p.truth \subseteq p.executions

Following ==
  /\ extension.instance = 0 => extension.sequence = LastPacket
  /\ shell.running \subseteq shell.open /\ shell.integrated \subseteq shell.open
  /\ Tracks(extension, shell)
  /\ \A p \in sent : Honest(p)

\* The agent has heard of one observer, and of its newest snapshot, or says so.
Watching ==
  /\ observed.observer = 0 =>
       /\ observed.sequence = 0 /\ ~observed.conflict /\ observed.age = "missing"
       /\ heard = [instances |-> {}, sequence |-> 0, truth |-> {}]
  /\ ~observed.conflict => observed.sequence = heard.sequence
  /\ observed.observer # 0 /\ ~observed.conflict =>
       /\ heard.instances = {observed.observer}
       /\ ~observed.incomplete /\ ~observed.unsupported => heard.truth \subseteq observed.commands

ActivityInv == ActivityTypeOK /\ Following /\ Watching

\* The extension after it looked.
Looked(x, n, full, un) == [x EXCEPT !.sequence = n, !.overflow = full, !.unobserved = un]

LEMMA LookedIs ==
  ASSUME NEW x \in Extension, NEW n \in 0..LastPacket, NEW full \in BOOLEAN,
         NEW un \in SUBSET Terminals
  PROVE  /\ Looked(x, n, full, un) \in Extension
         /\ Looked(x, n, full, un).instance = x.instance
         /\ Looked(x, n, full, un).sequence = n
         /\ Looked(x, n, full, un).active = x.active
         /\ Looked(x, n, full, un).unobserved = un
         /\ Looked(x, n, full, un).overflow = full
         /\ Looked(x, n, full, un).over = x.over /\ Looked(x, n, full, un).lost = x.lost
  BY DEF Extension, Looked

\* extension and sent after a snapshot of s by x.
LEMMA ObserveShape ==
  ASSUME NEW x \in Extension, NEW s \in Shell, Observe(x, s), x.instance # 0,
         sent \subseteq Packet
  PROVE  /\ shell' = s /\ extension' \in Extension
         /\ extension'.instance = x.instance /\ extension'.active = x.active
         /\ extension'.over = x.over /\ extension'.lost = x.lost
         /\ extension'.overflow = (Cardinality(s.open) > TerminalLimit)
         /\ extension'.unobserved = IF x.overflow /\ ~(Cardinality(s.open) > TerminalLimit)
                                      THEN x.unobserved \cup s.open ELSE x.unobserved
         /\ \E p \in Packet :
              /\ sent' \subseteq sent \cup {p}
              /\ ~p.overflow => /\ ~extension'.overflow /\ extension'.over = {}
                                /\ ~extension'.lost /\ p.executions = extension'.active
              /\ p.integrated => s.open \subseteq s.integrated \ extension'.unobserved
              /\ p.truth = s.running
  <1> DEFINE full   == Cardinality(s.open) > TerminalLimit
             un     == IF x.overflow /\ ~full THEN x.unobserved \cup s.open ELSE x.unobserved
             y      == [x EXCEPT !.sequence = @ + 1, !.overflow = full,
                                 !.unobserved = IF x.overflow /\ ~full THEN @ \cup s.open ELSE @]
             beyond == full \/ y.over # {} \/ y.lost
             p      == [instance |-> y.instance, sequence |-> y.sequence, overflow |-> beyond,
                        integrated |-> s.open \subseteq s.integrated \ y.unobserved,
                        executions |-> IF beyond THEN {} ELSE y.active, truth |-> s.running]
  <1>1. /\ x.sequence < LastPacket /\ extension' = y /\ shell' = s /\ sent' = Sending(p)
    BY Zenon DEF Observe
  <1>2. /\ x.instance \in 1..LastInstance /\ x.sequence + 1 \in 1..LastPacket
        /\ un \in SUBSET Terminals /\ full \in BOOLEAN
    BY <1>1, ActivityAssumption DEF Extension, Shell
  <1> HIDE DEF full
  <1>3. y = Looked(x, x.sequence + 1, full, un)
    BY Zenon DEF Looked
  <1> HIDE DEF un, y
  <1>4. x.sequence + 1 \in 0..LastPacket  BY <1>2
  <1>5. /\ y \in Extension
        /\ y.instance = x.instance /\ y.sequence = x.sequence + 1 /\ y.active = x.active
        /\ y.unobserved = un /\ y.overflow = full /\ y.over = x.over /\ y.lost = x.lost
    BY <1>2, <1>3, <1>4, LookedIs
  <1>6. p \in Packet
    BY <1>2, <1>5 DEF Packet, Extension, Shell
  <1>7. sent' \subseteq sent \cup {p}  BY <1>1 DEF Sending
  <1>8. /\ p.overflow = beyond /\ p.integrated = (s.open \subseteq s.integrated \ y.unobserved)
        /\ p.executions = (IF beyond THEN {} ELSE y.active) /\ p.truth = s.running
    OBVIOUS
  <1> HIDE DEF p
  <1>9. ~p.overflow => /\ ~y.overflow /\ y.over = {} /\ ~y.lost /\ p.executions = y.active
    BY <1>5, <1>8
  <1>10. /\ sent' \subseteq sent \cup {p}
         /\ ~p.overflow => /\ ~extension'.overflow /\ extension'.over = {}
                           /\ ~extension'.lost /\ p.executions = extension'.active
         /\ p.integrated => s.open \subseteq s.integrated \ extension'.unobserved
         /\ p.truth = s.running
    BY <1>1, <1>7, <1>8, <1>9
  <1> QED  BY <1>1, <1>5, <1>6, <1>10 DEF full, un

LEMMA ObserveOK ==
  ASSUME NEW x \in Extension, NEW s \in Shell, Observe(x, s), x.instance # 0,
         sent \subseteq Packet, \A p \in sent : Honest(p),
         s.running \subseteq s.open, s.integrated \subseteq s.open,
         Tracks(x, s) \/ Cardinality(s.open) > TerminalLimit
  PROVE  /\ shell' \in Shell /\ extension' \in Extension /\ sent' \subseteq Packet
         /\ Following'
  <1> DEFINE full == Cardinality(s.open) > TerminalLimit
  <1>1. /\ shell' = s /\ extension' \in Extension
        /\ extension'.instance = x.instance /\ extension'.active = x.active
        /\ extension'.over = x.over /\ extension'.lost = x.lost
        /\ extension'.overflow = full
        /\ extension'.unobserved = IF x.overflow /\ ~full
                                     THEN x.unobserved \cup s.open ELSE x.unobserved
    BY ObserveShape
  <1>2. PICK p \in Packet :
              /\ sent' \subseteq sent \cup {p}
              /\ ~p.overflow => /\ ~extension'.overflow /\ extension'.over = {}
                                /\ ~extension'.lost /\ p.executions = extension'.active
              /\ p.integrated => s.open \subseteq s.integrated \ extension'.unobserved
              /\ p.truth = s.running
    BY ObserveShape
  <1> HIDE DEF full
  <1>3. Tracks(extension', s)
    <2> SUFFICES ASSUME NEW t \in s.running \cap s.integrated
                 PROVE  \/ t \in extension'.active \cup extension'.unobserved \cup extension'.over
                        \/ extension'.overflow \/ extension'.lost
      BY DEF Tracks
    <2>1. CASE full  BY <1>1, <2>1
    <2>2. CASE ~full
      <3>1. t \in x.active \cup x.unobserved \cup x.over \/ x.overflow \/ x.lost
        BY <2>2 DEF Tracks, full
      <3>2. t \in s.open  OBVIOUS
      <3> QED  BY <1>1, <2>2, <3>1, <3>2
    <2> QED  BY <2>1, <2>2
  <1>4. Honest(p)
    <2> SUFFICES ASSUME ~p.overflow, p.integrated, NEW t \in s.running
                 PROVE  t \in p.executions
      BY <1>2 DEF Honest
    <2>1. t \in s.integrated /\ t \notin extension'.unobserved  BY <1>2
    <2>2. t \in extension'.active \cup extension'.unobserved \cup extension'.over
          \/ extension'.overflow \/ extension'.lost
      BY <1>3, <2>1 DEF Tracks
    <2> QED  BY <1>2, <2>1, <2>2
  <1>5. \A q \in sent' : Honest(q)  BY <1>2, <1>4
  <1>6. /\ extension'.instance # 0 /\ shell'.running \subseteq shell'.open
        /\ shell'.integrated \subseteq shell'.open
    BY <1>1
  <1> QED  BY <1>1, <1>2, <1>3, <1>5, <1>6 DEF Following, Tracks, Honest

\* The agent's own view is not touched.
LEMMA WatchingStays ==
  ASSUME ActivityInv, UNCHANGED <<observed, heard>>,
         shell' \in Shell, extension' \in Extension, sent' \subseteq Packet, Following'
  PROVE  ActivityInv'
  BY DEF ActivityInv, ActivityTypeOK, Watching

LEMMA ActivityParts ==
  ASSUME ActivityInv
  PROVE  /\ shell \in Shell /\ extension \in Extension /\ sent \subseteq Packet
         /\ \A p \in sent : Honest(p)
         /\ shell.running \subseteq shell.open /\ shell.integrated \subseteq shell.open
         /\ Tracks(extension, shell)
         /\ extension.instance = 0 => extension.sequence = LastPacket
  BY DEF ActivityInv, ActivityTypeOK, Following

\* Somebody who observes is alive.
LEMMA Alive ==
  ASSUME ActivityInv, NEW x \in Extension, NEW s, x.instance = extension.instance,
         x.sequence = extension.sequence, Observe(x, s)
  PROVE  x.instance # 0
  <1>1. x.sequence < LastPacket  BY DEF Observe
  <1>2. x.sequence \in 0..LastPacket /\ LastPacket \in Nat  BY ActivityAssumption DEF Extension
  <1> QED  BY <1>1, <1>2, ActivityParts

\* activate
LEMMA ActivatedOK ==
  ASSUME NEW n \in 0..LastInstance, NEW s \in Shell, s.running \subseteq s.open
  PROVE  /\ Activated(n, s) \in Extension /\ Tracks(Activated(n, s), s)
         /\ Activated(n, s).instance = n
  <1> DEFINE full == Cardinality(s.open) > TerminalLimit
  <1>1. Activated(n, s) = [instance |-> n, sequence |-> 0, active |-> {}, overflow |-> full,
                           over |-> {}, lost |-> FALSE,
                           unobserved |-> IF full THEN {} ELSE s.open]
    BY DEF Activated
  <1>2. full \in BOOLEAN /\ s.open \in SUBSET Terminals /\ 0 \in 0..LastPacket
    BY ActivityAssumption DEF Shell
  <1> HIDE DEF full
  <1>3. /\ Activated(n, s).overflow = full /\ Activated(n, s).instance = n
        /\ Activated(n, s).unobserved = IF full THEN {} ELSE s.open
    BY <1>1
  <1>4. Activated(n, s) \in Extension  BY <1>1, <1>2 DEF Extension
  <1>5. Tracks(Activated(n, s), s)  BY <1>2, <1>3 DEF Tracks
  <1> QED  BY <1>3, <1>4, <1>5

LEMMA ExtensionReloadsOK ==
  ASSUME ActivityInv, ExtensionReloads
  PROVE  ActivityInv'
  <1>1. extension.instance + 1 \in 0..LastInstance /\ extension.instance + 1 # 0
    BY ActivityAssumption DEF ExtensionReloads
  <1>2. LET x == Activated(extension.instance + 1, shell)
        IN  x \in Extension /\ Tracks(x, shell) /\ x.instance # 0
    BY <1>1, ActivityParts, ActivatedOK
  <1>3. Observe(Activated(extension.instance + 1, shell), shell) /\ UNCHANGED <<observed, heard>>
    BY DEF ExtensionReloads
  <1>4. shell' \in Shell /\ extension' \in Extension /\ sent' \subseteq Packet /\ Following'
    BY <1>2, <1>3, ActivityParts, ObserveOK
  <1> QED  BY <1>3, <1>4, WatchingStays

\* A step of the extension in its life, of a terminal it finds as s.
LEMMA LivesOK ==
  ASSUME ActivityInv, UNCHANGED <<observed, heard>>,
         NEW x \in Extension, NEW s \in Shell, Observe(x, s),
         x.instance = extension.instance, x.sequence = extension.sequence,
         s.running \subseteq s.open, s.integrated \subseteq s.open,
         Tracks(x, s) \/ Cardinality(s.open) > TerminalLimit
  PROVE  ActivityInv'
  <1>1. x.instance # 0  BY Alive
  <1>2. shell' \in Shell /\ extension' \in Extension /\ sent' \subseteq Packet /\ Following'
    BY <1>1, ActivityParts, ObserveOK
  <1> QED  BY <1>2, WatchingStays

LEMMA TimerFiresOK ==
  ASSUME ActivityInv, TimerFires
  PROVE  ActivityInv'
  BY ActivityParts, LivesOK DEF TimerFires

\* The shells after one terminal changed.
Shells(open, integrated, running) ==
  [open |-> open, integrated |-> integrated, running |-> running]

LEMMA ShellIs ==
  ASSUME NEW s \in Shell, NEW t \in Terminals
  PROVE  /\ [s EXCEPT !.integrated = s.integrated \cup {t}]
              = Shells(s.open, s.integrated \cup {t}, s.running)
         /\ [s EXCEPT !.running = s.running \cup {t}]
              = Shells(s.open, s.integrated, s.running \cup {t})
         /\ [s EXCEPT !.running = s.running \ {t}]
              = Shells(s.open, s.integrated, s.running \ {t})
  BY DEF Shell, Shells

LEMMA ShellOpens ==
  ASSUME NEW s \in Shell, NEW t \in Terminals, NEW at \in SUBSET Terminals
  PROVE  [s EXCEPT !.open = s.open \cup {t}, !.integrated = s.integrated \cup at]
           = Shells(s.open \cup {t}, s.integrated \cup at, s.running)
  <1> DEFINE o == s.open \cup {t}
             i == s.integrated \cup at
             m == [s EXCEPT !.open = o]
  <1>1. m = Shells(o, s.integrated, s.running)
    BY DEF Shell, Shells
  <1>2. m \in Shell /\ m.open = o /\ m.integrated = s.integrated /\ m.running = s.running
    BY <1>1 DEF Shell, Shells
  <1> HIDE DEF o, i, m
  <1>3. [m EXCEPT !.integrated = i] = Shells(o, i, s.running)
    BY <1>2 DEF Shell, Shells
  <1>4. [s EXCEPT !.open = o, !.integrated = i] = [m EXCEPT !.integrated = i]
    BY DEF m
  <1>5. [s EXCEPT !.open = o, !.integrated = i] = Shells(o, i, s.running)
    BY <1>3, <1>4
  <1> QED  BY <1>5 DEF o, i

LEMMA ShellTyped ==
  ASSUME NEW open \in SUBSET Terminals, NEW integrated \in SUBSET Terminals,
         NEW running \in SUBSET Terminals
  PROVE  /\ Shells(open, integrated, running) \in Shell
         /\ Shells(open, integrated, running).open = open
         /\ Shells(open, integrated, running).integrated = integrated
         /\ Shells(open, integrated, running).running = running
  BY DEF Shell, Shells

LEMMA ShellFields ==
  ASSUME ActivityInv
  PROVE  /\ shell.open \in SUBSET Terminals /\ shell.integrated \in SUBSET Terminals
         /\ shell.running \in SUBSET Terminals
  BY ActivityParts DEF Shell

LEMMA TerminalOpensOK ==
  ASSUME ActivityInv, NEW t \in Terminals, TerminalOpens(t)
  PROVE  ActivityInv'
  <1>1. PICK at \in {{}, {t}} :
          Observe(extension, [shell EXCEPT !.open = shell.open \cup {t},
                                           !.integrated = shell.integrated \cup at])
    BY DEF TerminalOpens
  <1> DEFINE n == Shells(shell.open \cup {t}, shell.integrated \cup at, shell.running)
  <1>2. at \in SUBSET Terminals  OBVIOUS
  <1>3. Observe(extension, n)
    BY Zenon, <1>1, <1>2, ActivityParts, ShellOpens
  <1>4. /\ n \in Shell /\ n.open = shell.open \cup {t} /\ n.integrated = shell.integrated \cup at
        /\ n.running = shell.running
    <2>1. shell.open \cup {t} \in SUBSET Terminals /\ shell.integrated \cup at \in SUBSET Terminals
      BY <1>2, ShellFields
    <2> QED  BY <2>1, ShellFields, ShellTyped
  <1> HIDE DEF n
  <1>5. t \notin shell.open /\ UNCHANGED <<observed, heard>>  BY DEF TerminalOpens
  <1>6. Tracks(extension, n)
    BY <1>4, <1>5, ActivityParts DEF Tracks
  <1>7. n.running \subseteq n.open /\ n.integrated \subseteq n.open
    BY <1>1, <1>4, ActivityParts
  <1> QED  BY <1>3, <1>4, <1>5, <1>6, <1>7, ActivityParts, LivesOK

\* The extension forgets of one terminal.
LEMMA ForgetsOne ==
  ASSUME NEW x \in Extension, NEW t \in Terminals
  PROVE  /\ LET n == [x EXCEPT !.active = x.active \ {t}, !.unobserved = x.unobserved \ {t},
                              !.over = x.over \ {t}]
            IN  /\ n \in Extension /\ n.instance = x.instance /\ n.sequence = x.sequence
                /\ n.active = x.active \ {t} /\ n.unobserved = x.unobserved \ {t}
                /\ n.over = x.over \ {t} /\ n.overflow = x.overflow /\ n.lost = x.lost
         /\ LET n == [x EXCEPT !.active = x.active \ {t}, !.unobserved = x.unobserved \ {t}]
            IN  /\ n \in Extension /\ n.instance = x.instance /\ n.sequence = x.sequence
                /\ n.active = x.active \ {t} /\ n.unobserved = x.unobserved \ {t}
                /\ n.over = x.over /\ n.overflow = x.overflow /\ n.lost = x.lost
  BY DEF Extension

LEMMA TerminalClosesOK ==
  ASSUME ActivityInv, NEW t \in Terminals, TerminalCloses(t)
  PROVE  ActivityInv'
  <1> DEFINE x == [extension EXCEPT !.active = extension.active \ {t},
                                    !.unobserved = extension.unobserved \ {t},
                                    !.over = extension.over \ {t}]
             n == [open |-> shell.open \ {t}, integrated |-> shell.integrated \ {t},
                   running |-> shell.running \ {t}]
  <1>1. Observe(x, n) /\ UNCHANGED <<observed, heard>>
    BY DEF TerminalCloses
  <1>2. /\ x \in Extension /\ x.instance = extension.instance /\ x.sequence = extension.sequence
        /\ x.active = extension.active \ {t} /\ x.unobserved = extension.unobserved \ {t}
        /\ x.over = extension.over \ {t} /\ x.overflow = extension.overflow
        /\ x.lost = extension.lost
    BY ActivityParts, ForgetsOne
  <1>3. n \in Shell  BY ShellFields DEF Shell
  <1>4. n.open = shell.open \ {t} /\ n.integrated = shell.integrated \ {t}
        /\ n.running = shell.running \ {t}
    OBVIOUS
  <1> HIDE DEF x, n
  <1>5. Tracks(x, n)  BY <1>2, <1>4, ActivityParts DEF Tracks
  <1>6. n.running \subseteq n.open /\ n.integrated \subseteq n.open  BY <1>4, ActivityParts
  <1> QED  BY <1>1, <1>2, <1>3, <1>5, <1>6, LivesOK

LEMMA ShellIntegratesOK ==
  ASSUME ActivityInv, NEW t \in Terminals, ShellIntegrates(t)
  PROVE  ActivityInv'
  <1> DEFINE n == Shells(shell.open, shell.integrated \cup {t}, shell.running)
  <1>1. /\ Observe(extension, [shell EXCEPT !.integrated = shell.integrated \cup {t}])
        /\ UNCHANGED <<observed, heard>> /\ t \notin shell.running /\ t \in shell.open
    BY DEF ShellIntegrates
  <1>2. Observe(extension, n)
    BY Zenon, <1>1, ActivityParts, ShellIs
  <1>3. /\ n \in Shell /\ n.open = shell.open /\ n.integrated = shell.integrated \cup {t}
        /\ n.running = shell.running
    BY ShellFields, ShellTyped
  <1> HIDE DEF n
  <1>4. Tracks(extension, n)  BY <1>1, <1>3, ActivityParts DEF Tracks
  <1>5. n.running \subseteq n.open /\ n.integrated \subseteq n.open
    BY <1>1, <1>3, ActivityParts
  <1> QED  BY <1>1, <1>2, <1>3, <1>4, <1>5, ActivityParts, LivesOK

\* shell alone moves.
LEMMA Unseen ==
  ASSUME ActivityInv, UNCHANGED <<extension, sent, observed, heard>>, shell' \in Shell,
         shell'.running \subseteq shell'.open, shell'.integrated \subseteq shell'.open,
         Tracks(extension, shell')
  PROVE  ActivityInv'
  <1>1. Following'
    BY ActivityParts DEF Following, Tracks, Honest
  <1> QED  BY <1>1, ActivityParts, WatchingStays

LEMMA RunsUnseenOK ==
  ASSUME ActivityInv, NEW t \in Terminals, RunsUnseen(t)
  PROVE  ActivityInv'
  <1> DEFINE n == Shells(shell.open, shell.integrated, shell.running \cup {t})
  <1>1. /\ shell' = [shell EXCEPT !.running = shell.running \cup {t}]
        /\ UNCHANGED <<extension, sent, observed, heard>>
        /\ t \notin shell.integrated /\ t \in shell.open
    BY DEF RunsUnseen
  <1>2. shell' = n  BY <1>1, ActivityParts, ShellIs
  <1>3. /\ n \in Shell /\ n.open = shell.open /\ n.integrated = shell.integrated
        /\ n.running = shell.running \cup {t}
    BY ShellFields, ShellTyped
  <1> HIDE DEF n
  <1>4. Tracks(extension, n)  BY <1>1, <1>3, ActivityParts DEF Tracks
  <1>5. n.running \subseteq n.open /\ n.integrated \subseteq n.open
    BY <1>1, <1>3, ActivityParts
  <1> QED  BY <1>1, <1>2, <1>3, <1>4, <1>5, Unseen

\* What the extension makes of a command that starts.
LEMMA FollowsOne ==
  ASSUME NEW x \in Extension, NEW t \in Terminals, NEW n
  PROVE  /\ n = [x EXCEPT !.unobserved = x.unobserved \ {t}, !.active = x.active \cup {t}] =>
              /\ n \in Extension /\ n.instance = x.instance /\ n.sequence = x.sequence
              /\ n.active = x.active \cup {t} /\ n.unobserved = x.unobserved \ {t}
              /\ n.over = x.over /\ n.overflow = x.overflow /\ n.lost = x.lost
         /\ n = [x EXCEPT !.over = x.over \cup {t}] =>
              /\ n \in Extension /\ n.instance = x.instance /\ n.sequence = x.sequence
              /\ n.active = x.active /\ n.unobserved = x.unobserved
              /\ n.over = x.over \cup {t} /\ n.overflow = x.overflow /\ n.lost = x.lost
         /\ n = [x EXCEPT !.lost = TRUE] =>
              /\ n \in Extension /\ n.instance = x.instance /\ n.sequence = x.sequence
              /\ n.active = x.active /\ n.unobserved = x.unobserved
              /\ n.over = x.over /\ n.overflow = x.overflow /\ n.lost = TRUE
  <1>1. CASE n = [x EXCEPT !.unobserved = x.unobserved \ {t}, !.active = x.active \cup {t}]
    BY <1>1 DEF Extension
  <1>2. CASE n = [x EXCEPT !.over = x.over \cup {t}]
    BY <1>2 DEF Extension
  <1>3. CASE n = [x EXCEPT !.lost = TRUE]
    BY <1>3 DEF Extension
  <1> QED  BY <1>1, <1>2, <1>3

LEMMA ExecutionStartsOK ==
  ASSUME ActivityInv, NEW t \in Terminals, ExecutionStarts(t)
  PROVE  ActivityInv'
  <1> DEFINE full == Cardinality(shell.open) > TerminalLimit
             room == Cardinality(extension.active) < ExecutionLimit
             beyond == t \in extension.over \/ Cardinality(extension.over) < TerminalLimit
             a == [extension EXCEPT !.unobserved = extension.unobserved \ {t},
                                    !.active = extension.active \cup {t}]
             b == [extension EXCEPT !.over = extension.over \cup {t}]
             c == [extension EXCEPT !.lost = TRUE]
             x == IF full THEN extension ELSE IF room THEN a ELSE IF beyond THEN b ELSE c
             n == Shells(shell.open, shell.integrated, shell.running \cup {t})
  <1>0. extension \in Extension  BY ActivityParts
  <1>1. /\ t \in shell.integrated /\ UNCHANGED <<observed, heard>>
        /\ Observe(x, [shell EXCEPT !.running = shell.running \cup {t}])
    BY Zenon DEF ExecutionStarts
  <1>2. Observe(x, n)
    BY Zenon, <1>1, ActivityParts, ShellIs
  <1>3. /\ a \in Extension /\ a.instance = extension.instance /\ a.sequence = extension.sequence
        /\ a.active = extension.active \cup {t} /\ a.unobserved = extension.unobserved \ {t}
        /\ a.over = extension.over /\ a.overflow = extension.overflow /\ a.lost = extension.lost
    BY <1>0, FollowsOne, Zenon
  <1>4. /\ b \in Extension /\ b.instance = extension.instance /\ b.sequence = extension.sequence
        /\ b.active = extension.active /\ b.unobserved = extension.unobserved
        /\ b.over = extension.over \cup {t} /\ b.overflow = extension.overflow
        /\ b.lost = extension.lost
    BY <1>0, FollowsOne, Zenon
  <1>5. /\ c \in Extension /\ c.instance = extension.instance /\ c.sequence = extension.sequence
        /\ c.lost = TRUE
    BY <1>0, FollowsOne, Zenon
  <1>6. /\ n \in Shell /\ n.open = shell.open /\ n.integrated = shell.integrated
        /\ n.running = shell.running \cup {t}
    BY ShellFields, ShellTyped
  <1>7. full => Cardinality(n.open) > TerminalLimit  BY <1>6
  <1> HIDE DEF a, b, c, n, full, room, beyond
  <1>8. n.running \subseteq n.open /\ n.integrated \subseteq n.open
    BY <1>1, <1>6, ActivityParts
  <1>9. x \in Extension /\ x.instance = extension.instance /\ x.sequence = extension.sequence
    BY <1>3, <1>4, <1>5, ActivityParts
  <1>10. ~full => Tracks(x, n)
    <2> SUFFICES ASSUME ~full, NEW u \in n.running \cap n.integrated
                 PROVE  u \in x.active \cup x.unobserved \cup x.over \/ x.overflow \/ x.lost
      BY DEF Tracks
    <2>1. u = t \/ /\ u \in extension.active \cup extension.unobserved \cup extension.over
                      \/ extension.overflow \/ extension.lost
      BY <1>6, ActivityParts DEF Tracks
    <2>2. CASE room
      BY <1>3, <2>1, <2>2
    <2>3. CASE ~room /\ beyond
      BY <1>4, <2>1, <2>3
    <2>4. CASE ~room /\ ~beyond
      BY <1>5, <2>4
    <2> QED  BY <2>2, <2>3, <2>4
  <1> HIDE DEF x
  <1> QED  BY <1>1, <1>2, <1>6, <1>7, <1>8, <1>9, <1>10, LivesOK

LEMMA ExecutionEndsOK ==
  ASSUME ActivityInv, NEW t \in Terminals, ExecutionEnds(t)
  PROVE  ActivityInv'
  <1> DEFINE x == [extension EXCEPT !.active = extension.active \ {t},
                                    !.unobserved = extension.unobserved \ {t}]
             n == Shells(shell.open, shell.integrated, shell.running \ {t})
  <1>1. [shell EXCEPT !.running = shell.running \ {t}] = n  BY ActivityParts, ShellIs
  <1>2. /\ n \in Shell /\ n.open = shell.open /\ n.integrated = shell.integrated
        /\ n.running = shell.running \ {t}
    BY ShellFields, ShellTyped
  <1>3. n.running \subseteq n.open /\ n.integrated \subseteq n.open
    BY <1>2, ActivityParts
  <1>4. CASE t \in shell.integrated
    <2>1. Observe(x, n) /\ UNCHANGED <<observed, heard>>
      <3>1. Observe(x, [shell EXCEPT !.running = shell.running \ {t}])
            /\ UNCHANGED <<observed, heard>>
        BY Zenon, <1>4 DEF ExecutionEnds
      <3> QED  BY Zenon, <1>1, <3>1
    <2>2. /\ x \in Extension /\ x.instance = extension.instance
          /\ x.sequence = extension.sequence
          /\ x.active = extension.active \ {t} /\ x.unobserved = extension.unobserved \ {t}
          /\ x.over = extension.over /\ x.overflow = extension.overflow
          /\ x.lost = extension.lost
      BY ActivityParts, ForgetsOne
    <2> HIDE DEF x, n
    <2>3. Tracks(x, n)  BY <1>2, <2>2, ActivityParts DEF Tracks
    <2> QED  BY <1>2, <1>3, <2>1, <2>2, <2>3, LivesOK
  <1>5. CASE t \notin shell.integrated
    <2>1. shell' = n /\ UNCHANGED <<extension, sent, observed, heard>>
      BY <1>1, <1>5 DEF ExecutionEnds
    <2> HIDE DEF n
    <2>2. Tracks(extension, n)  BY <1>2, ActivityParts DEF Tracks
    <2> QED  BY <1>2, <1>3, <2>1, <2>2, Unseen
  <1> QED  BY <1>4, <1>5

\* The extension and the terminals are not touched.
LEMMA FollowingStays ==
  ASSUME ActivityInv, UNCHANGED <<shell, extension, sent>>,
         observed' \in Observed,
         heard' \in [instances: SUBSET (1..LastInstance), sequence: 0..LastPacket,
                     truth: SUBSET Terminals],
         Watching'
  PROVE  ActivityInv'
  <1>1. Following'  BY DEF ActivityInv, Following, Tracks, Honest
  <1> QED  BY <1>1 DEF ActivityInv, ActivityTypeOK

LEMMA HearsOK ==
  ASSUME ActivityInv, NEW p \in sent, Hears(p)
  PROVE  /\ heard' \in [instances: SUBSET (1..LastInstance), sequence: 0..LastPacket,
                        truth: SUBSET Terminals]
         /\ heard'.instances = heard.instances \cup {p.instance}
         /\ p.sequence > heard.sequence => heard'.sequence = p.sequence /\ heard'.truth = p.truth
         /\ p.instance \in 1..LastInstance /\ p.sequence \in 1..LastPacket
         /\ p.executions \in SUBSET Terminals /\ p.integrated \in BOOLEAN
  <1>1. p \in Packet  BY ActivityParts
  <1>2. /\ p.instance \in 1..LastInstance /\ p.sequence \in 1..LastPacket
        /\ p.executions \in SUBSET Terminals /\ p.truth \in SUBSET Terminals
        /\ p.integrated \in BOOLEAN
    BY <1>1 DEF Packet
  <1>3. /\ heard.instances \in SUBSET (1..LastInstance) /\ heard.sequence \in 0..LastPacket
        /\ heard.truth \in SUBSET Terminals
    BY DEF ActivityInv, ActivityTypeOK
  <1>4. p.sequence \in 0..LastPacket  BY <1>2, ActivityAssumption
  <1> DEFINE sq == IF p.sequence > heard.sequence THEN p.sequence ELSE heard.sequence
             tr == IF p.sequence > heard.sequence THEN p.truth ELSE heard.truth
             is == heard.instances \cup {p.instance}
  <1>5. heard' = [instances |-> is, sequence |-> sq, truth |-> tr]  BY DEF Hears
  <1>6. is \in SUBSET (1..LastInstance) /\ sq \in 0..LastPacket /\ tr \in SUBSET Terminals
    BY <1>2, <1>3, <1>4
  <1> HIDE DEF is, sq, tr
  <1>7. heard' \in [instances: SUBSET (1..LastInstance), sequence: 0..LastPacket,
                    truth: SUBSET Terminals]
        /\ heard'.instances = is /\ heard'.sequence = sq /\ heard'.truth = tr
    BY <1>5, <1>6
  <1> QED  BY <1>2, <1>7 DEF is, sq, tr

LEMMA ObservedFields ==
  ASSUME ActivityInv
  PROVE  /\ observed \in Observed /\ observed.required \in BOOLEAN
         /\ observed.observer \in 0..LastInstance /\ observed.sequence \in 0..LastPacket
         /\ observed.age \in {"missing", "fresh", "stale"} /\ observed.unsupported \in BOOLEAN
         /\ observed.conflict \in BOOLEAN /\ observed.incomplete \in BOOLEAN
         /\ observed.commands \in SUBSET Terminals
  BY DEF ActivityInv, ActivityTypeOK, Observed

LEMMA ObserveConflictOK ==
  ASSUME ActivityInv, NEW p \in sent, ObserveConflict(p)
  PROVE  ActivityInv'
  <1>1. /\ observed.observer \notin {0, p.instance}
        /\ observed' = [observed EXCEPT !.conflict = TRUE] /\ Hears(p)
        /\ UNCHANGED <<shell, extension, sent>>
    BY DEF ObserveConflict
  <1>2. observed' \in Observed /\ observed'.conflict /\ observed'.observer = observed.observer
    BY <1>1, ObservedFields DEF Observed
  <1>3. Watching'  BY <1>1, <1>2 DEF Watching
  <1> QED  BY <1>1, <1>2, <1>3, HearsOK, FollowingStays

LEMMA ObserveTakenOK ==
  ASSUME ActivityInv, NEW p \in sent, ObserveTaken(p)
  PROVE  ActivityInv'
  <1> DEFINE seen == [observed EXCEPT !.observer = p.instance, !.sequence = p.sequence]
  <1>1. /\ observed.observer \in {0, p.instance} /\ ~observed.conflict
        /\ p.sequence > observed.sequence /\ Hears(p) /\ UNCHANGED <<shell, extension, sent>>
    BY DEF ObserveTaken, Takes
  <1>2. observed' = IF p.overflow
                      THEN [seen EXCEPT !.incomplete = TRUE]
                      ELSE [seen EXCEPT !.incomplete = FALSE, !.age = "fresh",
                                        !.unsupported = ~p.integrated,
                                        !.commands = p.executions]
    BY Zenon DEF ObserveTaken
  <1>3. p.instance \in 0..LastInstance /\ p.sequence \in 0..LastPacket /\ p.instance # 0
        /\ p.executions \in SUBSET Terminals /\ (~p.integrated) \in BOOLEAN
    BY <1>1, HearsOK, ActivityAssumption
  <1>4. seen \in Observed /\ seen.observer = p.instance /\ seen.sequence = p.sequence
        /\ ~seen.conflict
    BY <1>1, <1>3, ObservedFields DEF Observed
  <1> HIDE DEF seen
  <1>5. /\ observed' \in Observed /\ observed'.observer = p.instance
        /\ observed'.sequence = p.sequence /\ ~observed'.conflict
        /\ ~observed'.incomplete /\ ~observed'.unsupported =>
             ~p.overflow /\ p.integrated /\ observed'.commands = p.executions
    <2>1. CASE p.overflow  BY <1>2, <1>4, <2>1 DEF Observed
    <2>2. CASE ~p.overflow
      <3> DEFINE un == ~p.integrated
      <3>1. observed' = [seen EXCEPT !.incomplete = FALSE, !.age = "fresh",
                                     !.unsupported = un, !.commands = p.executions]
        BY <1>2, <2>2
      <3>2. un \in BOOLEAN  OBVIOUS
      <3>3. ~un => p.integrated  BY <1>1, HearsOK
      <3> HIDE DEF un
      <3> QED  BY <1>3, <1>4, <2>2, <3>1, <3>2, <3>3 DEF Observed
    <2> QED  BY <2>1, <2>2
  <1>6. observed.sequence = heard.sequence /\ heard.instances \subseteq {p.instance}
    BY <1>1 DEF ActivityInv, Watching
  <1>7. heard'.instances = {p.instance} /\ heard'.sequence = p.sequence /\ heard'.truth = p.truth
    BY <1>1, <1>6, HearsOK
  <1>8. ~p.overflow /\ p.integrated => p.truth \subseteq p.executions
    BY ActivityParts DEF Honest
  <1>9. Watching'  BY <1>3, <1>5, <1>7, <1>8 DEF Watching
  <1> QED  BY <1>1, <1>5, <1>9, HearsOK, FollowingStays

LEMMA ObservationAgesOK ==
  ASSUME ActivityInv, ObservationAges
  PROVE  ActivityInv'
  <1>1. /\ observed.age = "fresh" /\ observed' = [observed EXCEPT !.age = "stale"]
        /\ UNCHANGED <<shell, extension, sent, heard>>
    BY DEF ObservationAges
  <1>2. /\ observed' \in Observed /\ observed'.observer = observed.observer
        /\ observed'.sequence = observed.sequence /\ observed'.conflict = observed.conflict
        /\ observed'.incomplete = observed.incomplete
        /\ observed'.unsupported = observed.unsupported
        /\ observed'.commands = observed.commands
    BY <1>1, ObservedFields DEF Observed
  <1>3. Watching'  BY <1>1, <1>2 DEF Watching, ActivityInv
  <1>4. heard' \in [instances: SUBSET (1..LastInstance), sequence: 0..LastPacket,
                    truth: SUBSET Terminals]
    BY <1>1 DEF ActivityInv, ActivityTypeOK
  <1> QED  BY <1>1, <1>2, <1>3, <1>4, FollowingStays

LEMMA EditorActivatesOK ==
  ASSUME ActivityInv, EditorActivates
  PROVE  ActivityInv'
  <1> DEFINE n == extension.instance + 1
  <1>1. PICK open \in SUBSET Terminals :
          LET s == [open |-> open, integrated |-> open, running |-> {}]
          IN  Observe(Activated(n, s), s)
    BY DEF EditorActivates
  <1> DEFINE s == [open |-> open, integrated |-> open, running |-> {}]
  <1>2. /\ Observe(Activated(n, s), s) /\ extension.instance < LastInstance
        /\ observed' = [observed EXCEPT !.required = TRUE, !.observer = 0, !.age = "missing",
                          !.sequence = 0, !.conflict = FALSE, !.incomplete = FALSE]
        /\ heard' = [instances |-> {}, sequence |-> 0, truth |-> {}]
    BY <1>1 DEF EditorActivates
  <1>3. n \in 0..LastInstance /\ n # 0
    BY <1>2, ActivityParts, ActivityAssumption DEF Extension
  <1>4. s \in Shell /\ s.open = open /\ s.integrated = open /\ s.running = {}
    BY DEF Shell
  <1> HIDE DEF s, n
  <1>5. /\ Activated(n, s) \in Extension /\ Tracks(Activated(n, s), s)
        /\ Activated(n, s).instance = n
    BY <1>3, <1>4, ActivatedOK
  <1>6. shell' \in Shell /\ extension' \in Extension /\ sent' \subseteq Packet /\ Following'
    BY <1>2, <1>3, <1>4, <1>5, ActivityParts, ObserveOK
  <1>7. 0 \in 0..LastInstance /\ 0 \in 0..LastPacket  BY ActivityAssumption
  <1>8. /\ observed' \in Observed /\ observed'.observer = 0 /\ observed'.sequence = 0
        /\ ~observed'.conflict /\ observed'.age = "missing"
    BY <1>2, <1>7, ObservedFields DEF Observed
  <1>9. Watching'  BY <1>2, <1>8 DEF Watching
  <1>10. heard' \in [instances: SUBSET (1..LastInstance), sequence: 0..LastPacket,
                     truth: SUBSET Terminals]
    BY <1>2, <1>7
  <1> QED  BY <1>6, <1>8, <1>9, <1>10 DEF ActivityInv, ActivityTypeOK

LEMMA EditorStopsOK ==
  ASSUME ActivityInv, EditorStops
  PROVE  ActivityInv'
  <1>1. /\ ~Busy /\ observed' = [observed EXCEPT !.required = FALSE, !.commands = {}]
        /\ shell' = NoShell /\ extension' = [extension EXCEPT !.sequence = LastPacket]
        /\ UNCHANGED <<sent, heard>>
    BY DEF EditorStops
  <1>2. shell' \in Shell /\ shell'.open = {} /\ shell'.integrated = {} /\ shell'.running = {}
    BY <1>1 DEF NoShell, Shell
  <1>3. LastPacket \in 0..LastPacket  BY ActivityAssumption
  <1>4. extension' \in Extension /\ extension'.sequence = LastPacket
    BY <1>1, <1>3, ActivityParts DEF Extension
  <1>5. /\ observed' \in Observed /\ observed'.observer = observed.observer
        /\ observed'.sequence = observed.sequence /\ observed'.conflict = observed.conflict
        /\ observed'.incomplete = observed.incomplete /\ observed'.age = observed.age
        /\ observed'.unsupported = observed.unsupported
        /\ observed'.commands = {} /\ observed.commands = {}
    BY <1>1, ObservedFields DEF Observed, Busy
  <1>6. Following'
    <2>1. \A p \in sent' : Honest(p)  BY <1>1, ActivityParts
    <2> QED  BY <1>2, <1>4, <2>1 DEF Following, Tracks, Honest
  <1>7. Watching'  BY <1>1, <1>5 DEF Watching, ActivityInv
  <1> QED  BY <1>1, <1>2, <1>4, <1>5, <1>6, <1>7 DEF ActivityInv, ActivityTypeOK

LEMMA ActivityInitOK == ActivityInit => ActivityInv
  <1> SUFFICES ASSUME ActivityInit PROVE ActivityInv  OBVIOUS
  <1>1. 0 \in 0..LastInstance /\ 0 \in 0..LastPacket /\ LastPacket \in 0..LastPacket
    BY ActivityAssumption
  <1> DEFINE x == Activated(0, NoShell)
  <1>2. NoShell \in Shell /\ NoShell.running = {} /\ NoShell.open = {} /\ NoShell.integrated = {}
    BY DEF NoShell, Shell
  <1>3. x \in Extension /\ x.instance = 0  BY <1>1, <1>2, ActivatedOK
  <1>4. extension = [x EXCEPT !.sequence = LastPacket] /\ shell = NoShell /\ sent = {}
    BY DEF ActivityInit
  <1> HIDE DEF x
  <1>5. extension \in Extension /\ extension.instance = 0 /\ extension.sequence = LastPacket
    BY <1>1, <1>3, <1>4 DEF Extension
  <1>6. Following  BY <1>2, <1>4, <1>5 DEF Following, Tracks
  <1>7. /\ observed \in Observed /\ observed.observer = 0 /\ observed.sequence = 0
        /\ ~observed.conflict /\ observed.age = "missing"
    BY <1>1 DEF ActivityInit, Observed
  <1>8. /\ heard = [instances |-> {}, sequence |-> 0, truth |-> {}]
        /\ heard \in [instances: SUBSET (1..LastInstance), sequence: 0..LastPacket,
                      truth: SUBSET Terminals]
    BY <1>1 DEF ActivityInit
  <1>9. Watching  BY <1>7, <1>8 DEF Watching
  <1> QED  BY <1>2, <1>4, <1>5, <1>6, <1>7, <1>8, <1>9 DEF ActivityInv, ActivityTypeOK

LEMMA ActivityStep == ActivityInv /\ [ActivityNext]_activityVars => ActivityInv'
  <1> SUFFICES ASSUME ActivityInv, [ActivityNext]_activityVars PROVE ActivityInv'
    OBVIOUS
  <1>1. CASE UNCHANGED activityVars
    BY <1>1 DEF activityVars, ActivityInv, ActivityTypeOK, Following, Tracks, Honest, Watching
  <1>2. CASE ExtensionReloads  BY <1>2, ExtensionReloadsOK
  <1>3. CASE TimerFires  BY <1>3, TimerFiresOK
  <1>4. ASSUME NEW t \in Terminals,
               \/ TerminalOpens(t) \/ TerminalCloses(t) \/ ShellIntegrates(t)
               \/ RunsUnseen(t) \/ ExecutionStarts(t) \/ ExecutionEnds(t)
        PROVE  ActivityInv'
    BY <1>4, TerminalOpensOK, TerminalClosesOK, ShellIntegratesOK, RunsUnseenOK,
       ExecutionStartsOK, ExecutionEndsOK
  <1>5. ASSUME NEW p \in sent, ObserveConflict(p) \/ ObserveTaken(p)
        PROVE  ActivityInv'
    BY <1>5, ObserveConflictOK, ObserveTakenOK
  <1>6. CASE ObservationAges  BY <1>6, ObservationAgesOK
  <1>7. CASE EditorActivates  BY <1>7, EditorActivatesOK
  <1>8. CASE EditorStops  BY <1>8, EditorStopsOK
  <1> QED  BY <1>1, <1>2, <1>3, <1>4, <1>5, <1>6, <1>7, <1>8 DEF ActivityNext

LEMMA ObservedIdle == ActivityInv => IdleWasObserved
  <1> SUFFICES ASSUME ActivityInv, observed.required, ~Busy
               PROVE  Cardinality(heard.instances) = 1 /\ heard.truth = {}
    BY DEF IdleWasObserved
  <1>1. /\ observed.commands = {} /\ ~observed.conflict /\ ~observed.incomplete
        /\ ~observed.unsupported /\ observed.age = "fresh"
    BY DEF Busy, Ready
  <1>2. observed.observer # 0  BY <1>1 DEF ActivityInv, Watching
  <1>3. heard.instances = {observed.observer} /\ heard.truth \subseteq observed.commands
    BY <1>1, <1>2 DEF ActivityInv, Watching
  <1> QED  BY <1>1, <1>3, FS_Singleton

\* Idle on evidence, for any numbers of terminals, commands, reloads and delays.
THEOREM IdleObserved == ActivitySpec => []IdleWasObserved
  BY ActivityInitOK, ActivityStep, ObservedIdle, PTL DEF ActivitySpec

-----------------------------------------------------------------------------
(* IdeAgent: one editor, saved preferences, pushed work *)

Answer == [sha: 0..MaxCommits, tree: 0..MaxContent, quiet: BOOLEAN]

\* What each place of the duty knows of the editor.
Running ==
  /\ OneEditor
  /\ editor.owned \/ editor.leader => editor.groups = 1
  /\ duty.pc = "reap" => editor.owned
  /\ duty.pc \in {"prepare", "mark", "spawn", "absent", "prefs", "finish"} => editor.groups = 0
  /\ duty.pc = "spawn" => editor.marker
  /\ duty.pc = "health" => editor.groups = 1
  /\ duty.pc = "quit" /\ ~editor.owned => ~editor.marker

\* What was not published is due.
Preferring ==
  /\ editor.groups > 0 \/ duty.pc \in {"mark", "spawn"} => profile.pending
  /\ ~profile.pending => profile.snapshot = profile.live

DutyInv ==
  /\ editor \in Editor /\ profile \in Profile /\ duty \in Duty
  /\ Running /\ Preferring /\ StoppedIsSaved

\* What each place of a save knows of the branch.
Keeping ==
  /\ Tip \in 1..MaxCommits /\ work.remote \in 1..Tip
  /\ saving.pc # "idle" => saving.head \in 1..Tip
  /\ saving.pc \in {"pushed", "clean", "last", "end"} => saving.head <= work.remote
  /\ saving.pc = "last" => \E c \in saving.head..Tip : TreeOf(c) = saving.tree
  /\ saving.pc = "end" /\ saving.clean => TreeOf(saving.head) = saving.tree

Finished(f) == f.quiet /\ f.sha \in 1..Tip /\ TreeOf(f.sha) = f.tree /\ f.sha <= work.remote

SaveInv ==
  /\ work \in Work /\ saving \in Saving /\ Keeping
  /\ \A f \in answers.finished : Finished(f)

AgentInv ==
  /\ answers \in [stopped: BOOLEAN, finished: SUBSET Answer]
  /\ DutyInv /\ SaveInv
  /\ saving.clean => duty.pc = "finish"

LEMMA EditorFields ==
  ASSUME AgentInv
  PROVE  /\ editor \in Editor
         /\ editor.owned \in BOOLEAN /\ editor.marker \in BOOLEAN /\ editor.leader \in BOOLEAN
         /\ editor.groups \in 0..1
         /\ profile \in Profile /\ profile.live \in 0..MaxProfile /\ profile.pending \in BOOLEAN
         /\ profile.snapshot \in 0..MaxProfile
         /\ duty \in Duty /\ duty.pc \in DutyPcs /\ duty.finish \in BOOLEAN
         /\ answers \in [stopped: BOOLEAN, finished: SUBSET Answer]
         /\ Running /\ Preferring /\ StoppedIsSaved
  BY DEF AgentInv, DutyInv, Running, OneEditor, Editor, Profile, Duty

\* Steps of the duty, or of the editor, leave the saves alone.
LEMMA DutyStep ==
  ASSUME AgentInv, UNCHANGED <<work, saving>>, duty.pc # "finish" \/ duty' = duty,
         answers' \in [stopped: BOOLEAN, finished: SUBSET Answer],
         answers'.finished = answers.finished, DutyInv'
  PROVE  AgentInv'
  <1>1. SaveInv'
    BY DEF AgentInv, SaveInv, Keeping, Finished, Tip, TreeOf
  <1>2. (saving.clean => duty.pc = "finish")'
    BY DEF AgentInv
  <1> QED  BY <1>1, <1>2 DEF AgentInv

\* The duty alone moves, to a place that knows no more than the editor shows.
LEMMA GoesIs ==
  ASSUME AgentInv, NEW pc \in DutyPcs, Goes(pc)
  PROVE  duty' \in Duty /\ duty'.pc = pc /\ duty'.finish = duty.finish
  BY EditorFields DEF Goes, Duty

LEMMA RestIs == Rest0 \in Duty /\ Rest0.pc = "idle"
  BY DEF Rest0, Duty, DutyPcs

\* The group is gone.
LEMMA StoppedIs ==
  ASSUME AgentInv, editor.groups = 1
  PROVE  /\ Stopped \in Editor /\ ~Stopped.owned /\ ~Stopped.marker /\ ~Stopped.leader
         /\ Stopped.groups = 0
  BY EditorFields DEF Stopped, Editor

LEMMA StartBeginsOK ==
  ASSUME AgentInv, StartBegins
  PROVE  AgentInv'
  <1> DEFINE pc == IF editor.owned THEN "reap" ELSE "prepare"
  <1>1. /\ duty.pc = "idle" /\ ~(~editor.owned /\ editor.marker)
        /\ Goes(pc) /\ UNCHANGED <<editor, profile, answers, work, saving>>
    BY DEF StartBegins, NothingSaved
  <1>2. duty' \in Duty /\ duty'.pc = pc
    BY <1>1, GoesIs DEF DutyPcs
  <1>3. DutyInv'
    BY <1>1, <1>2, EditorFields
       DEF DutyInv, Running, OneEditor, Preferring, StoppedIsSaved
  <1> QED  BY <1>1, <1>3, EditorFields, DutyStep

LEMMA StartReapsOK ==
  ASSUME AgentInv, StartReaps
  PROVE  AgentInv'
  <1>1. duty.pc = "reap" /\ UNCHANGED <<profile, answers, work, saving>>
    BY DEF StartReaps, NothingSaved
  <1>2. editor.groups = 1  BY <1>1, EditorFields DEF Running
  <1>3. CASE editor' = Stopped /\ Goes("prepare")
    <2>1. duty' \in Duty /\ duty'.pc = "prepare"
      BY <1>3, GoesIs DEF DutyPcs
    <2>2. DutyInv'
      BY <1>1, <1>2, <1>3, <2>1, StoppedIs, EditorFields
         DEF DutyInv, Running, OneEditor, Preferring, StoppedIsSaved
    <2> QED  BY <1>1, <2>2, EditorFields, DutyStep
  <1>4. CASE UNCHANGED editor /\ DutyEnds
    <2>1. duty' \in Duty /\ duty'.pc = "idle"
      BY <1>4, RestIs DEF DutyEnds
    <2>2. DutyInv'
      BY <1>1, <1>2, <1>4, <2>1, EditorFields
         DEF DutyInv, Running, OneEditor, Preferring, StoppedIsSaved
    <2> QED  BY <1>1, <2>2, EditorFields, DutyStep
  <1> QED  BY <1>3, <1>4 DEF StartReaps

LEMMA StartPreparesOK ==
  ASSUME AgentInv, StartPrepares
  PROVE  AgentInv'
  <1>1. /\ duty.pc = "prepare" /\ profile' = [profile EXCEPT !.pending = TRUE] /\ Goes("mark")
        /\ UNCHANGED <<editor, answers, work, saving>>
    BY DEF StartPrepares, NothingSaved
  <1>2. duty' \in Duty /\ duty'.pc = "mark"  BY <1>1, GoesIs DEF DutyPcs
  <1>3. /\ profile' \in Profile /\ profile'.pending /\ profile'.live = profile.live
        /\ profile'.snapshot = profile.snapshot
    BY <1>1, EditorFields DEF Profile
  <1>4. DutyInv'
    BY <1>1, <1>2, <1>3, EditorFields
       DEF DutyInv, Running, OneEditor, Preferring, StoppedIsSaved
  <1> QED  BY <1>1, <1>4, EditorFields, DutyStep

LEMMA StartMarksOK ==
  ASSUME AgentInv, StartMarks
  PROVE  AgentInv'
  <1>1. /\ duty.pc = "mark" /\ editor' = [editor EXCEPT !.marker = TRUE] /\ Goes("spawn")
        /\ UNCHANGED <<profile, answers, work, saving>>
    BY DEF StartMarks, NothingSaved
  <1>2. duty' \in Duty /\ duty'.pc = "spawn"  BY <1>1, GoesIs DEF DutyPcs
  <1>3. /\ editor' \in Editor /\ editor'.marker /\ editor'.owned = editor.owned
        /\ editor'.leader = editor.leader /\ editor'.groups = editor.groups
    BY <1>1, EditorFields DEF Editor
  <1>4. DutyInv'
    BY <1>1, <1>2, <1>3, EditorFields
       DEF DutyInv, Running, OneEditor, Preferring, StoppedIsSaved
  <1> QED  BY <1>1, <1>4, EditorFields, DutyStep

LEMMA StartSpawnsOK ==
  ASSUME AgentInv, StartSpawns
  PROVE  AgentInv'
  <1>1. duty.pc = "spawn" /\ UNCHANGED <<profile, work, saving>>
    BY DEF StartSpawns, NothingSaved
  <1>2. editor.groups = 0 /\ editor.marker /\ profile.pending /\ ~editor.owned
    BY <1>1, EditorFields DEF Running, Preferring
  <1>3. CASE /\ editor' = [editor EXCEPT !.leader = TRUE, !.groups = @ + 1]
             /\ answers' = [answers EXCEPT !.stopped = FALSE]
             /\ Goes("health")
    <2>1. duty' \in Duty /\ duty'.pc = "health"  BY <1>3, GoesIs DEF DutyPcs
    <2>2. editor' = [editor EXCEPT !.leader = TRUE, !.groups = 1]
      BY <1>2, <1>3
    <2>3. /\ editor' \in Editor /\ editor'.marker /\ ~editor'.owned /\ editor'.leader
          /\ editor'.groups = 1
      <3> DEFINE m == [editor EXCEPT !.leader = TRUE]
      <3>1. m \in Editor /\ m.leader /\ m.marker /\ ~m.owned
        BY <1>2, EditorFields DEF Editor
      <3>2. editor' = [m EXCEPT !.groups = 1]  BY <2>2
      <3> HIDE DEF m
      <3> QED  BY <3>1, <3>2 DEF Editor
    <2>4. /\ answers' \in [stopped: BOOLEAN, finished: SUBSET Answer] /\ ~answers'.stopped
          /\ answers'.finished = answers.finished
      BY <1>3, EditorFields
    <2>5. DutyInv'
      BY <1>1, <1>2, <2>1, <2>3, <2>4, EditorFields
         DEF DutyInv, Running, OneEditor, Preferring, StoppedIsSaved
    <2> QED  BY <1>1, <2>4, <2>5, DutyStep
  <1>4. CASE /\ editor' \in {[editor EXCEPT !.marker = FALSE], editor}
             /\ DutyEnds
             /\ UNCHANGED answers
    <2>1. duty' \in Duty /\ duty'.pc = "idle"  BY <1>4, RestIs DEF DutyEnds
    <2>2. /\ editor' \in Editor /\ ~editor'.owned /\ editor'.leader = editor.leader
          /\ editor'.groups = 0
      BY <1>2, <1>4, EditorFields DEF Editor
    <2>3. DutyInv'
      BY <1>1, <1>2, <1>4, <2>1, <2>2, EditorFields
         DEF DutyInv, Running, OneEditor, Preferring, StoppedIsSaved
    <2> QED  BY <1>1, <1>4, <2>3, EditorFields, DutyStep
  <1> QED  BY <1>3, <1>4 DEF StartSpawns

LEMMA StartAnswersOK ==
  ASSUME AgentInv, StartAnswers
  PROVE  AgentInv'
  <1>1. /\ duty.pc = "health" /\ DutyEnds /\ UNCHANGED <<profile, answers, work, saving>>
        /\ \/ editor' = Stopped \/ editor' = [editor EXCEPT !.owned = TRUE]
    BY DEF StartAnswers, NothingSaved
  <1>2. editor.groups = 1 /\ editor.marker  BY <1>1, EditorFields DEF Running, OneEditor
  <1>3. duty' \in Duty /\ duty'.pc = "idle"  BY <1>1, RestIs DEF DutyEnds
  <1>4. CASE editor' = Stopped
    BY <1>1, <1>2, <1>3, <1>4, StoppedIs, EditorFields, DutyStep
       DEF DutyInv, Running, OneEditor, Preferring, StoppedIsSaved
  <1>5. CASE editor' = [editor EXCEPT !.owned = TRUE]
    <2>1. /\ editor' \in Editor /\ editor'.marker /\ editor'.owned
          /\ editor'.leader = editor.leader /\ editor'.groups = 1
      BY <1>2, <1>5, EditorFields DEF Editor
    <2>2. DutyInv'
      BY <1>1, <1>2, <1>3, <2>1, EditorFields
         DEF DutyInv, Running, OneEditor, Preferring, StoppedIsSaved
    <2> QED  BY <1>1, <2>2, EditorFields, DutyStep
  <1> QED  BY <1>1, <1>4, <1>5

LEMMA StopBeginsOK ==
  ASSUME AgentInv, NEW finish \in BOOLEAN, StopBegins(finish)
  PROVE  AgentInv'
  <1> DEFINE due == profile.pending \/ editor.owned
  <1>1. /\ duty.pc = "idle" /\ ~(~editor.owned /\ editor.marker)
        /\ profile' = [profile EXCEPT !.pending = due]
        /\ duty' = [pc |-> "quit", finish |-> finish]
        /\ UNCHANGED <<editor, answers, work, saving>>
    BY DEF StopBegins, NothingSaved
  <1>2. due \in BOOLEAN /\ (profile.pending => due)  BY EditorFields
  <1> HIDE DEF due
  <1>3. duty' \in Duty /\ duty'.pc = "quit"  BY <1>1 DEF Duty, DutyPcs
  <1>4. /\ profile' \in Profile /\ profile'.pending = due /\ profile'.live = profile.live
        /\ profile'.snapshot = profile.snapshot
    BY <1>1, <1>2, EditorFields DEF Profile
  <1>5. DutyInv'
    BY <1>1, <1>2, <1>3, <1>4, EditorFields
       DEF DutyInv, Running, OneEditor, Preferring, StoppedIsSaved
  <1> QED  BY <1>1, <1>5, EditorFields, DutyStep

LEMMA StopKillsOK ==
  ASSUME AgentInv, StopKills
  PROVE  AgentInv'
  <1>1. duty.pc = "quit" /\ UNCHANGED <<profile, answers, work, saving>>
    BY DEF StopKills, NothingSaved
  <1>2. CASE editor.owned /\ editor' = Stopped /\ Goes("absent")
    <2>1. duty' \in Duty /\ duty'.pc = "absent"  BY <1>2, GoesIs DEF DutyPcs
    <2>2. editor.groups = 1  BY <1>2, EditorFields DEF Running
    <2>3. DutyInv'
      BY <1>1, <1>2, <2>1, <2>2, StoppedIs, EditorFields
         DEF DutyInv, Running, OneEditor, Preferring, StoppedIsSaved
    <2> QED  BY <1>1, <2>3, EditorFields, DutyStep
  <1>3. CASE UNCHANGED editor /\ DutyEnds
    <2>1. duty' \in Duty /\ duty'.pc = "idle"  BY <1>3, RestIs DEF DutyEnds
    <2>2. DutyInv'
      BY <1>1, <1>3, <2>1, EditorFields
         DEF DutyInv, Running, OneEditor, Preferring, StoppedIsSaved
    <2> QED  BY <1>1, <2>2, EditorFields, DutyStep
  <1>4. CASE ~editor.owned /\ UNCHANGED editor /\ Goes("absent")
    <2>1. duty' \in Duty /\ duty'.pc = "absent"  BY <1>4, GoesIs DEF DutyPcs
    <2>2. editor.groups = 0  BY <1>1, <1>4, EditorFields DEF Running, OneEditor
    <2>3. DutyInv'
      BY <1>1, <1>4, <2>1, <2>2, EditorFields
         DEF DutyInv, Running, OneEditor, Preferring, StoppedIsSaved
    <2> QED  BY <1>1, <2>3, EditorFields, DutyStep
  <1> QED  BY <1>2, <1>3, <1>4 DEF StopKills

LEMMA StopConfirmsOK ==
  ASSUME AgentInv, StopConfirms
  PROVE  AgentInv'
  <1>1. duty.pc = "absent" /\ UNCHANGED <<editor, profile, answers, work, saving>>
    BY DEF StopConfirms, NothingSaved
  <1>2. duty' \in Duty /\ duty'.pc \in {"prefs", "idle"}
    BY GoesIs, RestIs DEF StopConfirms, DutyEnds, DutyPcs
  <1>3. DutyInv'
    BY <1>1, <1>2, EditorFields DEF DutyInv, Running, OneEditor, Preferring, StoppedIsSaved
  <1> QED  BY <1>1, <1>3, EditorFields, DutyStep

LEMMA StopSavesOK ==
  ASSUME AgentInv, StopSaves
  PROVE  AgentInv'
  <1> DEFINE sn == IF profile.pending THEN profile.live ELSE profile.snapshot
  <1>1. duty.pc = "prefs" /\ UNCHANGED <<editor, work, saving>>
    BY DEF StopSaves, NothingSaved
  <1>2. editor.groups = 0  BY <1>1, EditorFields DEF Running
  <1>3. CASE /\ profile' = [profile EXCEPT !.pending = FALSE, !.snapshot = sn]
             /\ IF duty.finish THEN Goes("finish") ELSE DutyEnds
             /\ answers' = [answers EXCEPT !.stopped = TRUE]
    <2>1. duty' \in Duty /\ duty'.pc \in {"finish", "idle"}
      BY <1>3, GoesIs, RestIs DEF DutyEnds, DutyPcs
    <2>2. sn \in 0..MaxProfile /\ sn = profile.live
      BY EditorFields DEF Preferring
    <2> HIDE DEF sn
    <2>3. /\ profile' \in Profile /\ ~profile'.pending /\ profile'.live = profile.live
          /\ profile'.snapshot = profile.live
      BY <1>3, <2>2, EditorFields DEF Profile
    <2>4. /\ answers' \in [stopped: BOOLEAN, finished: SUBSET Answer]
          /\ answers'.finished = answers.finished
      BY <1>3, EditorFields
    <2>5. DutyInv'
      BY <1>1, <1>2, <2>1, <2>3, EditorFields
         DEF DutyInv, Running, OneEditor, Preferring, StoppedIsSaved
    <2> QED  BY <1>1, <2>4, <2>5, DutyStep
  <1>4. CASE /\ profile.pending
             /\ profile' \in {profile, [profile EXCEPT !.snapshot = profile.live]}
             /\ DutyEnds
             /\ UNCHANGED answers
    <2>1. duty' \in Duty /\ duty'.pc = "idle"  BY <1>4, RestIs DEF DutyEnds
    <2>2. /\ profile' \in Profile /\ profile'.pending /\ profile'.live = profile.live
          /\ profile'.snapshot \in {profile.live, profile.snapshot}
      BY <1>4, EditorFields DEF Profile
    <2>3. DutyInv'
      BY <1>1, <1>2, <1>4, <2>1, <2>2, EditorFields
         DEF DutyInv, Running, OneEditor, Preferring, StoppedIsSaved
    <2> QED  BY <1>1, <1>4, <2>3, EditorFields, DutyStep
  <1> QED  BY <1>3, <1>4 DEF StopSaves

LEMMA DutyFailsOK ==
  ASSUME AgentInv, DutyFails
  PROVE  AgentInv'
  <1>1. /\ duty.pc \in {"prepare", "mark", "spawn", "absent"} /\ duty' = Rest0
        /\ UNCHANGED <<editor, profile, answers, work, saving>>
    BY DEF DutyFails, NothingSaved, DutyEnds
  <1>2. DutyInv'
    BY <1>1, RestIs, EditorFields
       DEF DutyInv, Running, OneEditor, Preferring, StoppedIsSaved
  <1> QED  BY <1>1, <1>2, EditorFields, DutyStep

LEMMA EditorDiesOK ==
  ASSUME AgentInv, EditorDies
  PROVE  AgentInv'
  <1>1. /\ editor' = [editor EXCEPT !.leader = FALSE]
        /\ UNCHANGED <<profile, duty, answers, work, saving>>
    BY DEF EditorDies, NothingSaved
  <1>2. /\ editor' \in Editor /\ ~editor'.leader /\ editor'.owned = editor.owned
        /\ editor'.marker = editor.marker /\ editor'.groups = editor.groups
    BY <1>1, EditorFields DEF Editor
  <1>3. DutyInv'
    BY <1>1, <1>2, EditorFields
       DEF DutyInv, Running, OneEditor, Preferring, StoppedIsSaved
  <1> QED  BY <1>1, <1>3, EditorFields, DutyStep

LEMMA ProfileChangesOK ==
  ASSUME AgentInv, ProfileChanges
  PROVE  AgentInv'
  <1>1. /\ editor.groups > 0 /\ profile.live < MaxProfile
        /\ profile' = [profile EXCEPT !.live = profile.live + 1]
        /\ UNCHANGED <<editor, duty, answers, work, saving>>
    BY DEF ProfileChanges, NothingSaved
  <1>2. profile.live + 1 \in 0..MaxProfile /\ profile.pending
    BY <1>1, EditorFields, AgentAssumption DEF Preferring
  <1>3. /\ profile' \in Profile /\ profile'.pending
        /\ profile'.snapshot = profile.snapshot
    BY <1>1, <1>2, EditorFields DEF Profile
  <1>4. ~answers.stopped  BY <1>1, EditorFields DEF StoppedIsSaved
  <1>5. DutyInv'
    BY <1>1, <1>3, <1>4, EditorFields
       DEF DutyInv, Running, OneEditor, Preferring, StoppedIsSaved
  <1> QED  BY <1>1, <1>5, EditorFields, DutyStep

LEMMA WorkFields ==
  ASSUME AgentInv
  PROVE  /\ work \in Work
         /\ work.content \in 0..MaxContent /\ work.index \in 0..MaxContent
         /\ work.commits \in Seq(0..MaxContent)
         /\ Tip \in 1..MaxCommits /\ work.remote \in 1..Tip /\ work.remote \in 0..MaxCommits
         /\ Tip \in 0..MaxCommits
         /\ \A c \in 1..Tip : TreeOf(c) \in 0..MaxContent
         /\ saving \in Saving /\ saving.pc \in SavePcs /\ saving.head \in 0..MaxCommits
         /\ saving.tree \in 0..MaxContent /\ saving.commit \in BOOLEAN
         /\ saving.clean \in BOOLEAN
         /\ Keeping
         /\ \A f \in answers.finished : Finished(f)
  <1>1. /\ work \in Work /\ saving \in Saving /\ Keeping
        /\ \A f \in answers.finished : Finished(f)
    BY DEF AgentInv, SaveInv
  <1>2. /\ work.content \in 0..MaxContent /\ work.index \in 0..MaxContent
        /\ work.commits \in Seq(0..MaxContent) /\ work.remote \in 0..MaxCommits
    BY <1>1 DEF Work
  <1>3. Tip \in 1..MaxCommits /\ work.remote \in 1..Tip  BY <1>1 DEF Keeping
  <1>4. \A c \in 1..Tip : TreeOf(c) \in 0..MaxContent
    BY <1>2, <1>3, ElementOfSeq DEF Tip, TreeOf
  <1>5. Tip \in 0..MaxCommits  BY <1>3, AgentAssumption
  <1>6. /\ saving.pc \in SavePcs /\ saving.head \in 0..MaxCommits
        /\ saving.tree \in 0..MaxContent /\ saving.commit \in BOOLEAN
        /\ saving.clean \in BOOLEAN
    BY <1>1 DEF Saving
  <1> QED  BY <1>1, <1>2, <1>3, <1>4, <1>5, <1>6

\* Steps of a save leave the editor alone; one that must find the work clean ends its duty.
LEMMA SaveStays ==
  ASSUME AgentInv, UNCHANGED <<editor, profile>>,
         \/ duty' = duty /\ (saving'.clean => saving.clean \/ duty.pc = "finish")
         \/ duty' = Rest0 /\ ~saving'.clean,
         answers' \in [stopped: BOOLEAN, finished: SUBSET Answer],
         answers'.stopped = answers.stopped, SaveInv'
  PROVE  AgentInv'
  <1>1. CASE duty' = duty /\ (saving'.clean => saving.clean \/ duty.pc = "finish")
    BY <1>1 DEF AgentInv, DutyInv, Running, OneEditor, Preferring, StoppedIsSaved
  <1>2. CASE duty' = Rest0 /\ ~saving'.clean
    BY <1>2, RestIs DEF AgentInv, DutyInv, Running, OneEditor, Preferring, StoppedIsSaved
  <1> QED  BY <1>1, <1>2

\* A save that only moves on.
LEMMA SaveStepIs ==
  ASSUME AgentInv, NEW pc, NEW next \in SavePcs, SaveStep(pc, next)
  PROVE  /\ saving.pc = pc /\ saving' \in Saving /\ saving'.pc = next
         /\ saving'.head = saving.head /\ saving'.tree = saving.tree
         /\ saving'.clean = saving.clean
  BY WorkFields DEF SaveStep, Saving

LEMMA NoSaveIs == NoSave \in Saving /\ NoSave.pc = "idle" /\ ~NoSave.clean
  <1>1. 0 \in 0..MaxCommits /\ 0 \in 0..MaxContent  BY AgentAssumption
  <1> QED  BY <1>1 DEF NoSave, Saving, SavePcs

LEMMA SaveBeginsOK ==
  ASSUME AgentInv, NEW commit \in BOOLEAN, NEW clean \in BOOLEAN, SaveBegins(commit, clean)
  PROVE  AgentInv'
  <1> DEFINE pc == IF commit THEN "status" ELSE "head"
  <1>1. /\ clean => duty.pc = "finish"
        /\ saving' = [pc |-> pc, head |-> Tip, tree |-> 0, commit |-> commit, clean |-> clean]
        /\ UNCHANGED <<work, editor, profile, duty, answers>>
    BY DEF SaveBegins, SaveKeeps
  <1>2. pc \in SavePcs /\ pc \in {"status", "head"}  BY DEF SavePcs
  <1>3. 0 \in 0..MaxContent /\ Tip \in 0..MaxCommits  BY WorkFields, AgentAssumption
  <1> HIDE DEF pc
  <1>4. saving' \in Saving /\ saving'.pc = pc /\ saving'.head = Tip /\ saving'.clean = clean
    BY <1>1, <1>2, <1>3 DEF Saving
  <1>5. SaveInv'
    BY <1>1, <1>2, <1>4, WorkFields DEF SaveInv, Keeping, Finished, Tip, TreeOf
  <1> QED  BY <1>1, <1>4, <1>5, EditorFields, SaveStays

LEMMA SaveStatusOK ==
  ASSUME AgentInv, SaveStatus
  PROVE  AgentInv'
  <1> DEFINE next == IF Clean THEN "head" ELSE "add"
  <1>1. SaveStep("status", next) /\ UNCHANGED <<work, editor, profile, duty, answers>>
    BY DEF SaveStatus, SaveKeeps
  <1>2. next \in SavePcs /\ next \in {"head", "add"}  BY DEF SavePcs
  <1> HIDE DEF next
  <1>3. /\ saving.pc = "status" /\ saving' \in Saving /\ saving'.pc = next
        /\ saving'.head = saving.head /\ saving'.clean = saving.clean
    BY <1>1, <1>2, SaveStepIs
  <1>4. SaveInv'
    BY <1>1, <1>2, <1>3, WorkFields DEF SaveInv, Keeping, Finished, Tip, TreeOf
  <1> QED  BY <1>1, <1>3, <1>4, EditorFields, SaveStays

LEMMA SaveAddsOK ==
  ASSUME AgentInv, SaveAdds
  PROVE  AgentInv'
  <1>1. /\ SaveStep("add", "tree") /\ work' = [work EXCEPT !.index = work.content]
        /\ UNCHANGED <<editor, profile, duty, answers>>
    BY DEF SaveAdds, SaveOnly
  <1>2. /\ saving.pc = "add" /\ saving' \in Saving /\ saving'.pc = "tree"
        /\ saving'.head = saving.head /\ saving'.clean = saving.clean
    BY <1>1, SaveStepIs DEF SavePcs
  <1>3. work' \in Work /\ work'.commits = work.commits /\ work'.remote = work.remote
    BY <1>1, WorkFields DEF Work
  <1>4. SaveInv'
    BY <1>1, <1>2, <1>3, WorkFields DEF SaveInv, Keeping, Finished, Tip, TreeOf
  <1> QED  BY <1>1, <1>2, <1>4, EditorFields, SaveStays

LEMMA SaveTreesOK ==
  ASSUME AgentInv, SaveTrees
  PROVE  AgentInv'
  <1>1. /\ saving.pc = "tree" /\ saving' = [saving EXCEPT !.pc = "ref", !.tree = work.index]
        /\ UNCHANGED <<work, editor, profile, duty, answers>>
    BY DEF SaveTrees, SaveKeeps
  <1>2. /\ saving' \in Saving /\ saving'.pc = "ref" /\ saving'.head = saving.head
        /\ saving'.clean = saving.clean
    BY <1>1, WorkFields DEF Saving, SavePcs
  <1>3. SaveInv'
    BY <1>1, <1>2, WorkFields DEF SaveInv, Keeping, Finished, Tip, TreeOf
  <1> QED  BY <1>1, <1>2, <1>3, EditorFields, SaveStays

\* The branch grows by a commit: what was on it stays where it was.
Grown(tree) == /\ work' \in Work
               /\ work'.commits = Append(work.commits, tree) /\ work'.remote = work.remote

LEMMA Grows ==
  ASSUME AgentInv, NEW tree \in 0..MaxContent, Tip < MaxCommits, Grown(tree)
  PROVE  /\ Tip' = Tip + 1 /\ Tip' \in 1..MaxCommits
         /\ \A c \in 1..Tip : TreeOf(c)' = TreeOf(c)
  <1>1. work.commits \in Seq(0..MaxContent) /\ Tip \in 1..MaxCommits  BY WorkFields
  <1>2. /\ Len(work'.commits) = Len(work.commits) + 1
        /\ \A c \in 1..Len(work.commits) : work'.commits[c] = work.commits[c]
    BY <1>1, AppendProperties DEF Grown
  <1> QED  BY <1>1, <1>2, AgentAssumption DEF Tip, TreeOf

LEMMA FinishedStays ==
  ASSUME AgentInv, Tip' \in Nat, Tip' >= Tip, \A c \in 1..Tip : TreeOf(c)' = TreeOf(c),
         work'.remote \in Nat, work'.remote >= work.remote
  PROVE  \A f \in answers.finished : Finished(f)'
  <1> SUFFICES ASSUME NEW f \in answers.finished PROVE Finished(f)'
    OBVIOUS
  <1>1. f.quiet /\ f.sha \in 1..Tip /\ TreeOf(f.sha) = f.tree /\ f.sha <= work.remote
    BY WorkFields DEF Finished
  <1>2. f.sha \in 1..Tip' /\ f.sha <= work'.remote
    BY <1>1, WorkFields
  <1>3. TreeOf(f.sha)' = f.tree
    BY <1>1
  <1> QED  BY <1>1, <1>2, <1>3 DEF Finished

LEMMA SaveMovesOK ==
  ASSUME AgentInv, SaveMoves
  PROVE  AgentInv'
  <1>1. /\ Tip < MaxCommits /\ SaveStep("ref", "head")
        /\ work' = [work EXCEPT !.commits = Append(work.commits, saving.tree)]
        /\ UNCHANGED <<editor, profile, duty, answers>>
    BY DEF SaveMoves, SaveOnly
  <1>2. /\ saving.pc = "ref" /\ saving' \in Saving /\ saving'.pc = "head"
        /\ saving'.head = saving.head /\ saving'.clean = saving.clean
    BY <1>1, SaveStepIs DEF SavePcs
  <1>3. Append(work.commits, saving.tree) \in Seq(0..MaxContent)
    BY WorkFields, AppendProperties
  <1>4. Grown(saving.tree)
    BY <1>1, <1>3, WorkFields DEF Work, Grown
  <1>5. Tip' = Tip + 1 /\ Tip' \in 1..MaxCommits /\ \A c \in 1..Tip : TreeOf(c)' = TreeOf(c)
    BY <1>1, <1>4, Grows, WorkFields
  <1>6. \A f \in answers.finished : Finished(f)'
    BY <1>4, <1>5, FinishedStays, WorkFields DEF Grown
  <1>7. Keeping'
    <2>1. /\ Tip \in 1..MaxCommits /\ work.remote \in 1..Tip /\ saving.head \in 1..Tip
          /\ work'.remote = work.remote
      BY <1>2, <1>4, WorkFields DEF Keeping, Grown
    <2>2. 1..Tip \subseteq 1..Tip'  BY <1>5, <2>1
    <2> QED  BY <1>2, <1>5, <2>1, <2>2 DEF Keeping
  <1>8. SaveInv'
    BY <1>1, <1>2, <1>4, <1>6, <1>7 DEF SaveInv, Grown
  <1> QED  BY <1>1, <1>2, <1>8, EditorFields, SaveStays

LEMMA SaveLooksOK ==
  ASSUME AgentInv, SaveLooks
  PROVE  AgentInv'
  <1>1. /\ saving.pc = "head" /\ saving' = [saving EXCEPT !.pc = "push", !.head = Tip]
        /\ UNCHANGED <<work, editor, profile, duty, answers>>
    BY DEF SaveLooks, SaveKeeps
  <1>2. /\ saving' \in Saving /\ saving'.pc = "push" /\ saving'.head = Tip
        /\ saving'.clean = saving.clean
    BY <1>1, WorkFields DEF Saving, SavePcs
  <1>3. SaveInv'
    BY <1>1, <1>2, WorkFields DEF SaveInv, Keeping, Finished, Tip, TreeOf
  <1> QED  BY <1>1, <1>2, <1>3, EditorFields, SaveStays

LEMMA SavePushesOK ==
  ASSUME AgentInv, SavePushes
  PROVE  AgentInv'
  <1>1. /\ work.remote <= saving.head /\ SaveStep("push", "pushed")
        /\ work' = [work EXCEPT !.remote = saving.head]
        /\ UNCHANGED <<editor, profile, duty, answers>>
    BY DEF SavePushes, SaveOnly
  <1>2. /\ saving.pc = "push" /\ saving' \in Saving /\ saving'.pc = "pushed"
        /\ saving'.head = saving.head /\ saving'.clean = saving.clean
    BY <1>1, SaveStepIs DEF SavePcs
  <1>3. /\ work' \in Work /\ work'.commits = work.commits /\ work'.remote = saving.head
    BY <1>1, WorkFields DEF Work
  <1>4. saving.head \in 1..Tip  BY <1>2, WorkFields DEF Keeping
  <1>5. Tip' = Tip /\ \A c \in 1..Tip : TreeOf(c)' = TreeOf(c)
    BY <1>3 DEF Tip, TreeOf
  <1>6. \A f \in answers.finished : Finished(f)'
    BY <1>1, <1>3, <1>4, <1>5, FinishedStays, WorkFields
  <1>7. Keeping'
    BY <1>2, <1>3, <1>4, <1>5, WorkFields DEF Keeping
  <1>8. SaveInv'
    BY <1>1, <1>2, <1>3, <1>6, <1>7 DEF SaveInv
  <1> QED  BY <1>1, <1>2, <1>8, EditorFields, SaveStays

LEMMA SaveChecksOK ==
  ASSUME AgentInv, SaveChecks
  PROVE  AgentInv'
  <1> DEFINE next == IF saving.clean THEN "clean" ELSE "end"
  <1>1. SaveStep("pushed", next) /\ UNCHANGED <<work, editor, profile, duty, answers>>
    BY DEF SaveChecks, SaveKeeps
  <1>2. next \in SavePcs /\ next # "idle" /\ next # "last" /\ ~(next = "end" /\ saving.clean)
    BY WorkFields DEF SavePcs
  <1> HIDE DEF next
  <1>3. /\ saving.pc = "pushed" /\ saving' \in Saving /\ saving'.pc = next
        /\ saving'.head = saving.head /\ saving'.clean = saving.clean
    BY <1>1, <1>2, SaveStepIs
  <1>4. SaveInv'
    BY <1>1, <1>2, <1>3, WorkFields DEF SaveInv, Keeping, Finished, Tip, TreeOf
  <1> QED  BY <1>1, <1>3, <1>4, EditorFields, SaveStays

LEMMA SaveFindsCleanOK ==
  ASSUME AgentInv, SaveFindsClean
  PROVE  AgentInv'
  <1>1. /\ Clean /\ saving.pc = "clean"
        /\ saving' = [saving EXCEPT !.pc = "last", !.tree = work.content]
        /\ UNCHANGED <<work, editor, profile, duty, answers>>
    BY DEF SaveFindsClean, SaveKeeps
  <1>2. /\ saving' \in Saving /\ saving'.pc = "last" /\ saving'.head = saving.head
        /\ saving'.clean = saving.clean /\ saving'.tree = work.content
    BY <1>1, WorkFields DEF Saving, SavePcs
  <1>3. /\ saving.head \in 1..Tip /\ saving.head <= work.remote
        /\ Tip \in saving.head..Tip /\ TreeOf(Tip) = work.content
    BY <1>1, WorkFields DEF Clean, Keeping
  <1>4. SaveInv'
    BY <1>1, <1>2, <1>3, WorkFields DEF SaveInv, Keeping, Finished, Tip, TreeOf
  <1> QED  BY <1>1, <1>2, <1>4, EditorFields, SaveStays

LEMMA SaveLastOK ==
  ASSUME AgentInv, SaveLast
  PROVE  AgentInv'
  <1>1. /\ Validated(saving.head) /\ SaveStep("last", "end")
        /\ UNCHANGED <<work, editor, profile, duty, answers>>
    BY DEF SaveLast, SaveKeeps
  <1>2. /\ saving.pc = "last" /\ saving' \in Saving /\ saving'.pc = "end"
        /\ saving'.head = saving.head /\ saving'.clean = saving.clean
        /\ saving'.tree = saving.tree
    BY <1>1, SaveStepIs DEF SavePcs
  <1>3. PICK c \in saving.head..Tip : TreeOf(c) = saving.tree
    BY <1>2, WorkFields DEF Keeping
  <1>4. c = saving.head  BY <1>1, <1>3, WorkFields DEF Validated
  <1>5. SaveInv'
    BY <1>1, <1>2, <1>3, <1>4, WorkFields DEF SaveInv, Keeping, Finished, Tip, TreeOf
  <1> QED  BY <1>1, <1>2, <1>5, EditorFields, SaveStays

LEMMA SaveEndsOK ==
  ASSUME AgentInv, SaveEnds
  PROVE  AgentInv'
  <1> DEFINE a == [sha |-> saving.head, tree |-> saving.tree, quiet |-> editor.groups = 0]
             new == IF saving.clean /\ Clean THEN {a} ELSE {}
  <1>1. /\ saving.pc = "end" /\ saving' = NoSave
        /\ answers' = [answers EXCEPT !.finished = answers.finished \cup new]
        /\ IF saving.clean THEN duty' = Rest0 ELSE UNCHANGED duty
        /\ UNCHANGED <<editor, profile, work>>
    BY DEF SaveEnds, DutyEnds
  <1>2. saving.clean => editor.groups = 0
    BY EditorFields DEF AgentInv, Running
  <1>3. a \in Answer /\ a.sha = saving.head /\ a.tree = saving.tree
        /\ a.quiet = (editor.groups = 0)
    BY WorkFields DEF Answer
  <1> HIDE DEF a
  <1>4. saving.clean => Finished(a)
    BY <1>1, <1>2, <1>3, WorkFields DEF Keeping, Finished
  <1>5. new \subseteq Answer /\ \A f \in new : Finished(f)
    BY <1>3, <1>4
  <1> HIDE DEF new
  <1>6. /\ answers' \in [stopped: BOOLEAN, finished: SUBSET Answer]
        /\ answers'.stopped = answers.stopped /\ answers'.finished = answers.finished \cup new
    BY <1>1, <1>5, EditorFields
  <1>7. saving' \in Saving /\ saving'.pc = "idle" /\ ~saving'.clean
    BY <1>1, NoSaveIs
  <1>8. SaveInv'
    BY <1>1, <1>5, <1>6, <1>7, WorkFields DEF SaveInv, Keeping, Finished, Tip, TreeOf
  <1> QED  BY <1>1, <1>6, <1>7, <1>8, SaveStays

LEMMA SaveFailsOK ==
  ASSUME AgentInv, SaveFails
  PROVE  AgentInv'
  <1>1. /\ saving' = NoSave
        /\ IF saving.clean THEN duty' = Rest0 ELSE UNCHANGED duty
        /\ UNCHANGED <<editor, profile, work, answers>>
    BY DEF SaveFails, DutyEnds
  <1>2. saving' \in Saving /\ saving'.pc = "idle" /\ ~saving'.clean
    BY <1>1, NoSaveIs
  <1>3. SaveInv'
    BY <1>1, <1>2, WorkFields DEF SaveInv, Keeping, Finished, Tip, TreeOf
  <1> QED  BY <1>1, <1>2, <1>3, EditorFields, SaveStays

LEMMA AgentRestartOK ==
  ASSUME AgentInv, AgentRestart
  PROVE  AgentInv'
  <1>1. /\ editor' = [editor EXCEPT !.owned = FALSE] /\ duty' = Rest0 /\ saving' = NoSave
        /\ UNCHANGED <<profile, work, answers>>
    BY DEF AgentRestart
  <1>2. /\ editor' \in Editor /\ ~editor'.owned /\ editor'.marker = editor.marker
        /\ editor'.leader = editor.leader /\ editor'.groups = editor.groups
    BY <1>1, EditorFields DEF Editor
  <1>3. saving' \in Saving /\ saving'.pc = "idle" /\ ~saving'.clean
    BY <1>1, NoSaveIs
  <1>4. DutyInv'
    BY <1>1, <1>2, RestIs, EditorFields
       DEF DutyInv, Running, OneEditor, Preferring, StoppedIsSaved
  <1>5. SaveInv'
    BY <1>1, <1>3, WorkFields DEF SaveInv, Keeping, Finished, Tip, TreeOf
  <1> QED  BY <1>1, <1>3, <1>4, <1>5, EditorFields DEF AgentInv

LEMMA WritesOK ==
  ASSUME AgentInv, Writes
  PROVE  AgentInv'
  <1>1. UNCHANGED <<editor, profile, duty, saving, answers>>  BY DEF Writes
  <1>2. CASE \/ work.content < MaxContent /\ work' = [work EXCEPT !.content = work.content + 1]
             \/ work' = [work EXCEPT !.index = work.content]
    <2>1. work.content < MaxContent => work.content + 1 \in 0..MaxContent
      BY WorkFields, AgentAssumption
    <2>2. work' \in Work /\ work'.commits = work.commits /\ work'.remote = work.remote
      BY <1>2, <2>1, WorkFields DEF Work
    <2>3. SaveInv'
      BY <1>1, <2>2, WorkFields DEF SaveInv, Keeping, Finished, Tip, TreeOf
    <2> QED  BY <1>1, <2>3, EditorFields, SaveStays
  <1>3. CASE Tip < MaxCommits /\ work' = [work EXCEPT !.commits = Append(work.commits, work.index)]
    <2>1. Append(work.commits, work.index) \in Seq(0..MaxContent)
      BY WorkFields, AppendProperties
    <2>2. Grown(work.index)
      BY <1>3, <2>1, WorkFields DEF Work, Grown
    <2>3. /\ Tip' = Tip + 1 /\ Tip' \in 1..MaxCommits
          /\ \A c \in 1..Tip : TreeOf(c)' = TreeOf(c)
      BY <1>3, <2>2, Grows, WorkFields
    <2>4. \A f \in answers.finished : Finished(f)'
      <3>1. Tip \in Nat /\ Tip' \in Nat /\ Tip' >= Tip
        BY <2>3, WorkFields, AgentAssumption
      <3>2. work'.remote = work.remote /\ work.remote \in Nat
        BY <2>2, WorkFields, AgentAssumption DEF Grown
      <3>3. work'.remote \in Nat /\ work'.remote >= work.remote
        BY <3>2
      <3> QED  BY <2>3, <3>1, <3>3, FinishedStays
    <2>5. saving.pc = "last" => \E c \in saving.head..Tip' : TreeOf(c)' = saving.tree
      <3> SUFFICES ASSUME saving.pc = "last"
                   PROVE  \E c \in saving.head..Tip' : TreeOf(c)' = saving.tree
        OBVIOUS
      <3>1. PICK c \in saving.head..Tip : TreeOf(c) = saving.tree
        BY WorkFields DEF Keeping
      <3>2. saving.head \in 1..Tip  BY WorkFields DEF Keeping
      <3>3. c \in 1..Tip /\ c \in saving.head..Tip'  BY <2>3, <3>1, <3>2, WorkFields
      <3>4. TreeOf(c)' = saving.tree  BY <2>3, <3>1, <3>3
      <3> QED  BY <3>3, <3>4
    <2>6. Keeping'
      <3>1. saving.pc # "idle" => saving.head \in 1..Tip  BY WorkFields DEF Keeping
      <3>2. saving.pc = "end" /\ saving.clean => work'.commits[saving.head] = saving.tree
        <4>1. TreeOf(saving.head) = saving.tree /\ saving.head \in 1..Tip => work'.commits[saving.head] = saving.tree
          BY <2>3 DEF TreeOf
        <4> QED  BY <3>1, <4>1, WorkFields DEF Keeping, SavePcs
      <3>3. (saving.pc = "end" /\ saving.clean => TreeOf(saving.head) = saving.tree)'
        BY <1>1, <3>2 DEF TreeOf
      <3> QED  BY <1>1, <2>2, <2>3, <2>5, <3>1, <3>3, WorkFields DEF Keeping, Grown
    <2>7. SaveInv'
      BY <1>1, <2>2, <2>4, <2>6, WorkFields DEF SaveInv, Grown
    <2> QED  BY <1>1, <2>7, EditorFields, SaveStays
  <1>4. CASE work' = [work EXCEPT !.remote = Tip]
    <2>1. work' \in Work /\ work'.commits = work.commits /\ work'.remote = Tip
      BY <1>4, WorkFields DEF Work
    <2>2. Tip' = Tip /\ \A c \in 1..Tip : TreeOf(c)' = TreeOf(c)
      BY <2>1 DEF Tip, TreeOf
    <2>3. \A f \in answers.finished : Finished(f)'
      BY <2>1, <2>2, FinishedStays, WorkFields
    <2>4. Keeping'
      BY <1>1, <2>1, <2>2, WorkFields DEF Keeping, Tip, TreeOf
    <2>5. SaveInv'
      BY <1>1, <2>1, <2>3, <2>4, WorkFields DEF SaveInv
    <2> QED  BY <1>1, <2>5, EditorFields, SaveStays
  <1> QED  BY <1>2, <1>3, <1>4 DEF Writes

LEMMA AgentInitOK == AgentInit => AgentInv
  <1> SUFFICES ASSUME AgentInit PROVE AgentInv  OBVIOUS
  <1>1. 0 \in 0..MaxContent /\ 0 \in 0..MaxProfile /\ 1 \in 1..MaxCommits /\ 1 \in 0..MaxCommits
    BY AgentAssumption
  <1>2. editor \in Editor /\ profile \in Profile
    BY <1>1 DEF AgentInit, Editor, Profile
  <1>3. duty \in Duty /\ duty.pc = "idle" /\ saving \in Saving /\ saving.pc = "idle"
        /\ ~saving.clean
    BY RestIs, NoSaveIs DEF AgentInit
  <1>4. Running /\ Preferring /\ StoppedIsSaved
    BY <1>3 DEF AgentInit, Running, OneEditor, Preferring, StoppedIsSaved
  <1>5. <<0>> \in Seq(0..MaxContent) /\ Len(<<0>>) = 1
    BY <1>1
  <1>6. work \in Work /\ Tip = 1 /\ work.remote = 1
    BY <1>1, <1>5 DEF AgentInit, Work, Tip
  <1>7. Keeping  BY <1>1, <1>3, <1>6 DEF Keeping
  <1>8. answers.finished = {} /\ answers \in [stopped: BOOLEAN, finished: SUBSET Answer]
    BY DEF AgentInit
  <1> QED  BY <1>2, <1>3, <1>4, <1>6, <1>7, <1>8 DEF AgentInv, DutyInv, SaveInv

LEMMA AgentStep == AgentInv /\ [AgentNext]_agentVars => AgentInv'
  <1> SUFFICES ASSUME AgentInv, [AgentNext]_agentVars PROVE AgentInv'
    OBVIOUS
  <1>1. CASE UNCHANGED agentVars
    <2>1. UNCHANGED <<editor, profile, duty, work, saving, answers>>
      BY <1>1 DEF agentVars
    <2>2. DutyInv'
      BY <2>1, EditorFields DEF DutyInv, Running, OneEditor, Preferring, StoppedIsSaved
    <2> QED  BY <2>1, <2>2, EditorFields, DutyStep
  <1>2. CASE DutyRuns
    BY <1>2, StartBeginsOK, StartReapsOK, StartPreparesOK, StartMarksOK, StartSpawnsOK,
       StartAnswersOK, StopKillsOK, StopConfirmsOK, StopSavesOK, DutyFailsOK DEF DutyRuns
  <1>3. CASE SaveRuns
    BY <1>3, SaveStatusOK, SaveAddsOK, SaveTreesOK, SaveMovesOK, SaveLooksOK, SavePushesOK,
       SaveChecksOK, SaveFindsCleanOK, SaveLastOK, SaveEndsOK, SaveFailsOK DEF SaveRuns
  <1>4. ASSUME NEW finish \in BOOLEAN, StopBegins(finish) PROVE AgentInv'
    BY <1>4, StopBeginsOK
  <1>5. ASSUME NEW commit \in BOOLEAN, NEW clean \in BOOLEAN, SaveBegins(commit, clean)
        PROVE  AgentInv'
    BY <1>5, SaveBeginsOK
  <1>6. CASE AgentRestart  BY <1>6, AgentRestartOK
  <1>7. CASE EditorDies  BY <1>7, EditorDiesOK
  <1>8. CASE ProfileChanges  BY <1>8, ProfileChangesOK
  <1>9. CASE Writes  BY <1>9, WritesOK
  <1> QED  BY <1>1, <1>2, <1>3, <1>4, <1>5, <1>6, <1>7, <1>8, <1>9 DEF AgentNext

LEMMA AgentKeeps == AgentSpec => []AgentInv
  BY AgentInitOK, AgentStep, PTL DEF AgentSpec

LEMMA AgentParts ==
  ASSUME AgentInv
  PROVE  AgentSound /\ AgentTypeOK
  <1>1. AgentSound
    BY EditorFields, WorkFields DEF AgentSound, FinishedIsPushed, Finished, Running
  <1>2. AgentTypeOK
    BY EditorFields, WorkFields DEF AgentTypeOK, Answer
  <1> QED  BY <1>1, <1>2

-----------------------------------------------------------------------------
(* Capacity, and the types of every component of the run *)

\* A credential in doubt was issued; a request that sends one has one.
Issued ==
  /\ doubt \subseteq Logins \X (1..MaxRefresh)
  /\ \A r \in Requests : request[r].pc = "exchange" => request[r].credential \in 1..MaxRefresh

Capacity ==
  /\ IsFiniteSet(Open) /\ Cardinality(Open) <= MaxLogins
  /\ IsFiniteSet(Present) /\ Cardinality(Present) <= MaxSessions

\* No more than before, or one in an empty place.
LEMMA NoMore ==
  ASSUME NEW S, NEW T, NEW max \in Nat, IsFiniteSet(S), Cardinality(S) <= max, T \subseteq S
  PROVE  IsFiniteSet(T) /\ Cardinality(T) <= max
  <1>1. /\ IsFiniteSet(T) /\ Cardinality(T) <= Cardinality(S)
        /\ Cardinality(S) \in Nat /\ Cardinality(T) \in Nat
    BY FS_Subset, FS_CardinalityType
  <1> QED  BY <1>1

LEMMA OneMore ==
  ASSUME NEW S, NEW T, NEW x, NEW max \in Nat,
         IsFiniteSet(S), Cardinality(S) < max, T \subseteq S \cup {x}
  PROVE  IsFiniteSet(T) /\ Cardinality(T) <= max
  <1>1. /\ IsFiniteSet(S \cup {x}) /\ Cardinality(S) \in Nat
        /\ Cardinality(S \cup {x}) <= Cardinality(S) + 1
        /\ Cardinality(S \cup {x}) \in Nat
    <2>1. /\ IsFiniteSet(S \cup {x})
          /\ Cardinality(S \cup {x}) = IF x \in S THEN Cardinality(S) ELSE Cardinality(S) + 1
      BY FS_AddElement
    <2>2. Cardinality(S) \in Nat  BY FS_CardinalityType
    <2> QED  BY <2>1, <2>2
  <1>2. Cardinality(S \cup {x}) <= max  BY <1>1
  <1> QED  BY <1>1, <1>2, NoMore

\* Nothing opens, nobody comes in.
LEMMA ShrinksOK ==
  ASSUME Capacity, Open' \subseteq Open, Present' \subseteq Present
  PROVE  Capacity'
  BY BrowserAssumption, NoMore DEF Capacity

LEMMA LoginBeginsFits ==
  ASSUME SessionsTyped, Capacity, NEW l \in Logins, NEW s \in Logins \cup {Nothing},
         NEW earlier \in Logins \cup {Nothing}, LoginBegins(l, s, earlier)
  PROVE  Capacity'
  <1> DEFINE others == Without({earlier})
             o == [state |-> "open", replaces |-> IF There(s) THEN s ELSE Nothing]
  <1>1. /\ \A x \in Logins : others[x].state = IF x = earlier /\ x \in Open THEN "gone"
                                               ELSE login[x].state
        /\ others \in [Logins -> Transaction0]
    BY WithoutIs
  <1>2. /\ login' = [others EXCEPT ![l] = o] /\ Cardinality(Open \ {earlier}) < MaxLogins
        /\ UNCHANGED session
    BY DEF LoginBegins
  <1> HIDE DEF others, o
  <1>3. Open' \subseteq (Open \ {earlier}) \cup {l}
    <2> SUFFICES ASSUME NEW x \in Logins, x # l, login'[x].state \in {"open", "in_flight"}
                 PROVE  x \in Open \ {earlier}
      BY DEF Open
    <2>1. login'[x] = others[x]  BY <1>1, <1>2
    <2> QED  BY <1>1, <2>1 DEF Open
  <1>4. IsFiniteSet(Open \ {earlier})
    BY FS_RemoveElement DEF Capacity
  <1>5. IsFiniteSet(Open') /\ Cardinality(Open') <= MaxLogins
    BY <1>2, <1>3, <1>4, OneMore, BrowserAssumption
  <1>6. Present' = Present  BY <1>2 DEF Present
  <1> QED  BY <1>5, <1>6 DEF Capacity

\* Who takes the place of a session that is there needs no room.
LEMMA CallbackEndsFits ==
  ASSUME SessionsTyped, Capacity, NEW l \in Logins, CallbackEnds(l)
  PROVE  Capacity'
  <1> DEFINE old == login[l].replaces
             others == Removed({old})
             n == [NoSession EXCEPT !.there = TRUE, !.refresh = 1, !.issued = 1, !.replaced = old]
  <1>1. /\ others \in [Logins -> Session]
        /\ \A x \in Logins : others[x].there = (x # old /\ session[x].there)
    BY RemovedIs
  <1>2. /\ Room(old) /\ login' = Without({l}) /\ session' = [others EXCEPT ![l] = n]
    BY DEF CallbackEnds
  <1> HIDE DEF others, n, old
  <1>3. Open' \subseteq Open
    <2>1. \A x \in Logins : Without({l})[x].state = IF x \in {l} /\ x \in Open THEN "gone"
                                                    ELSE login[x].state
      BY WithoutIs
    <2> QED  BY <1>2, <2>1 DEF Open
  <1>4. Present' \subseteq (Present \ {old}) \cup {l}
    <2> SUFFICES ASSUME NEW x \in Logins, x # l, session'[x].there
                 PROVE  x \in Present \ {old}
      BY DEF Present
    <2>1. session'[x] = others[x]  BY <1>1, <1>2
    <2> QED  BY <1>1, <2>1 DEF Present
  <1>5. /\ IsFiniteSet(Present \ {old}) /\ Cardinality(Present) \in Nat
        /\ Cardinality(Present \ {old}) =
             IF old \in Present THEN Cardinality(Present) - 1 ELSE Cardinality(Present)
    BY FS_RemoveElement, FS_CardinalityType DEF Capacity
  <1>6. Cardinality(Present \ {old}) < MaxSessions
    <2>1. CASE old \in Present  BY <1>5, <2>1, BrowserAssumption DEF Capacity
    <2>2. CASE old \notin Present
      <3>1. ~There(old)  BY <2>2 DEF There, Present
      <3> QED  BY <1>2, <1>5, <2>2, <3>1 DEF Room
    <2> QED  BY <2>1, <2>2
  <1>7. IsFiniteSet(Present') /\ Cardinality(Present') <= MaxSessions
    BY <1>4, <1>5, <1>6, OneMore, BrowserAssumption
  <1>8. IsFiniteSet(Open') /\ Cardinality(Open') <= MaxLogins
    BY <1>3, NoMore, BrowserAssumption DEF Capacity
  <1> QED  BY <1>7, <1>8 DEF Capacity

LEMMA OthersFit ==
  ASSUME SessionsInv, SessionsInv', Capacity, BrowserNext,
         ~(\E l \in Logins : CallbackEnds(l)),
         ~(\E l \in Logins, s, b \in Logins \cup {Nothing} : LoginBegins(l, s, b))
  PROVE  Capacity'
  <1>0. SessionsTyped  BY DEF SessionsInv
  <1>1. \A some : \A x \in Logins :
          /\ Without(some)[x].state = IF x \in some /\ x \in Open THEN "gone" ELSE login[x].state
          /\ Removed(some)[x].there = (x \notin some /\ session[x].there)
    BY <1>0, WithoutIs, RemovedIs
  <1>2. ASSUME \A x \in Logins : login'[x].state = login[x].state \/ login'[x].state = "gone"
                                 \/ x \in Open
        PROVE  Open' \subseteq Open
    BY <1>2 DEF Open
  <1>3. ASSUME \A x \in Logins : session'[x].there => session[x].there
        PROVE  Present' \subseteq Present
    BY <1>3 DEF Present
  <1>4. ASSUME NEW l \in Logins, CallbackBegins(l) \/ LoginEnds(l) PROVE Capacity'
    <2>1. \A x \in Logins : login'[x].state = login[x].state \/ login'[x].state = "gone"
                            \/ x \in Open
      <3>1. CASE CallbackBegins(l)
        <4>1. l \in Open /\ login' = [login EXCEPT ![l].state = "in_flight"]
          BY <3>1 DEF CallbackBegins, Open
        <4> QED  BY <1>0, <4>1 DEF SessionsTyped
      <3>2. CASE LoginEnds(l)  BY <1>1, <3>2 DEF LoginEnds
      <3> QED  BY <1>4, <3>1, <3>2
    <2>2. UNCHANGED session  BY <1>4 DEF CallbackBegins, LoginEnds
    <2> QED  BY <1>2, <1>3, <2>1, <2>2, ShrinksOK
  <1>5. ASSUME NEW r \in Requests, RequestRuns(r)
                                   \/ \E s \in Logins : RequestBegins(r, s)
        PROVE  Capacity'
    <2>1. UNCHANGED login
      BY <1>5 DEF RequestRuns, RequestResolves, RefreshBegins, RefreshFails, RefreshEnds,
                  RequestEnds, RequestBegins
    <2>2. \A x \in Logins : session'[x].there => session[x].there
      <3>1. CASE RequestResolves(r) \/ RequestEnds(r) \/ \E s \in Logins : RequestBegins(r, s)
        BY <3>1 DEF RequestResolves, RequestEnds, RequestBegins
      <3>2. CASE RefreshBegins(r)
        <4> DEFINE s == request[r].of
        <4>1. session' = Removed({s}) \/ session' = [session EXCEPT ![s].holder = r,
                                                                    ![s].refresh = 0]
          BY <3>2 DEF RefreshBegins
        <4> HIDE DEF s
        <4>2. CASE session' = Removed({s})  BY <1>1, <4>2
        <4>3. CASE session' = [session EXCEPT ![s].holder = r, ![s].refresh = 0]
          BY <1>0, <4>3 DEF SessionsTyped, Session
        <4> QED  BY <4>1, <4>2, <4>3
      <3>3. CASE RefreshFails(r)
        <4> DEFINE s == request[r].of
                   o == Removed({s})
        <4>1. session' = [o EXCEPT ![s].holder = Nothing]
          BY <3>3 DEF RefreshFails
        <4>2. /\ o \in [Logins -> Session]
              /\ \A x \in Logins : o[x].there => session[x].there
          BY <1>0, RemovedIs
        <4> HIDE DEF s, o
        <4> QED  BY <4>1, <4>2 DEF Session
      <3>4. CASE RefreshEnds(r)
        <4> DEFINE s == request[r].of
        <4>1. \/ \E n \in Nat, i \in Nat :
                   session' = [session EXCEPT ![s].holder = Nothing, ![s].stale = FALSE,
                                              ![s].refresh = n, ![s].issued = i]
              \/ session' = [session EXCEPT ![s].holder = Nothing]
          <5>1. CASE session[s].there
            <6>1. PICK n \in {request[r].credential, session[s].issued + 1} :
                    session' = [session EXCEPT
                          ![s].holder = Nothing, ![s].stale = FALSE, ![s].refresh = n,
                          ![s].issued = IF n > session[s].issued THEN n ELSE session[s].issued]
              BY <3>4, <5>1 DEF RefreshEnds
            <6>2. s \in Logins
              BY <3>4 DEF RefreshEnds, SessionsInv, InHand, Awaits
            <6>3. n \in Nat /\ session[s].issued \in Nat
              BY <1>0, <6>2 DEF SessionsTyped, Session, Request
            <6> QED  BY <6>1, <6>3
          <5>2. CASE ~session[s].there
            BY <3>4, <5>2 DEF RefreshEnds
          <5> QED  BY <5>1, <5>2
        <4> HIDE DEF s
        <4>2. ASSUME NEW n \in Nat, NEW i \in Nat,
                     session' = [session EXCEPT ![s].holder = Nothing, ![s].stale = FALSE,
                                              ![s].refresh = n, ![s].issued = i]
              PROVE  \A x \in Logins : session'[x].there => session[x].there
          BY <1>0, <4>2 DEF SessionsTyped, Session
        <4>3. CASE session' = [session EXCEPT ![s].holder = Nothing]
          BY <1>0, <4>3 DEF SessionsTyped, Session
        <4> QED  BY <4>1, <4>2, <4>3
      <3> QED  BY <1>5, <3>1, <3>2, <3>3, <3>4 DEF RequestRuns
    <2> QED  BY <1>2, <1>3, <2>1, <2>2, ShrinksOK
  <1>6. ASSUME NEW s \in Logins,
               SessionExpires(s) \/ TokenAges(s) \/ \E b \in Logins \cup {Nothing} : Logout(s, b)
        PROVE  Capacity'
    <2>1. \A x \in Logins : login'[x].state = login[x].state \/ login'[x].state = "gone"
      <3>1. UNCHANGED login \/ \E some : login' = Without(some)
        BY <1>6 DEF SessionExpires, TokenAges, Logout
      <3> QED  BY <1>1, <3>1
    <2>2. \A x \in Logins : session'[x].there => session[x].there
      <3>1. CASE SessionExpires(s) \/ \E b \in Logins \cup {Nothing} : Logout(s, b)
        BY <1>1, <3>1 DEF SessionExpires, Logout
      <3>2. CASE TokenAges(s)
        BY <1>0, <3>2 DEF TokenAges, SessionsTyped, Session
      <3> QED  BY <1>6, <3>1, <3>2
    <2> QED  BY <1>2, <1>3, <2>1, <2>2, ShrinksOK
  <1>7. ASSUME BrowserRestart PROVE Capacity'
    <2>1. \A x \in Logins : login'[x].state = login[x].state \/ login'[x].state = "gone"
      BY <1>1, <1>7 DEF BrowserRestart
    <2>2. \A x \in Logins : ~session'[x].there
      BY <1>0, <1>7 DEF BrowserRestart, SessionsTyped, Session
    <2> QED  BY <1>2, <1>3, <2>1, <2>2, ShrinksOK
  <1> QED  BY <1>4, <1>5, <1>6, <1>7 DEF BrowserNext, BrowserSteps, LoginRuns

\* What a request may come to carry.
LEMMA IssuedKeeps ==
  ASSUME SessionsInv, Issued, BrowserNext
  PROVE  Issued'
  <1>0. SessionsTyped /\ (\A r \in Requests : Awaits(r))  BY DEF SessionsInv, InHand
  <1>1. ASSUME doubt' = doubt, UNCHANGED request PROVE Issued'
    BY <1>1 DEF Issued
  <1>2. ASSUME doubt' = doubt, NEW r \in Requests, NEW q \in Request,
               request' = [request EXCEPT ![r] = q],
               q.pc = "exchange" => q.credential \in 1..MaxRefresh
        PROVE  Issued'
    <2>1. \A x \in Requests : request'[x] = request[x] \/ request'[x] = q
      BY <1>0, <1>2 DEF SessionsTyped
    <2> QED  BY <1>2, <2>1 DEF Issued
  <1>3. ASSUME NEW r \in Requests, RequestRuns(r)  PROVE Issued'
    <2> DEFINE s == request[r].of
    <2>0. request[r] \in Request /\ request[r].credential \in 0..MaxRefresh
      BY <1>0 DEF SessionsTyped, Request
    <2>1. CASE RequestResolves(r)
      <3> DEFINE q == [request[r] EXCEPT !.pc = IF session[s].there THEN "resolved" ELSE "refused"]
      <3>1. request' = [request EXCEPT ![r] = q] /\ doubt' = doubt
        BY <1>0, <2>1 DEF RequestResolves, SessionsTyped
      <3>2. q \in Request /\ q.pc # "exchange"  BY <2>0 DEF Request, RequestPcs
      <3> HIDE DEF q
      <3> QED  BY <1>2, <3>1, <3>2
    <2>2. CASE RefreshBegins(r)
      <3>0. s \in Logins  BY <1>0, <2>2 DEF RefreshBegins, Awaits
      <3>1. session[s].refresh \in 0..MaxRefresh  BY <1>0, <3>0 DEF SessionsTyped, Session
      <3>2. CASE session[s].refresh = 0
        <4> DEFINE q == [request[r] EXCEPT !.pc = "refused"]
        <4>1. request' = [request EXCEPT ![r] = q] /\ doubt' = doubt
          BY <1>0, <2>2, <3>2 DEF RefreshBegins, SessionsTyped
        <4>2. q \in Request /\ q.pc # "exchange"  BY <2>0 DEF Request, RequestPcs
        <4> HIDE DEF q
        <4> QED  BY <1>2, <4>1, <4>2
      <3>3. CASE session[s].refresh # 0
        <4> DEFINE c == session[s].refresh
                   m == [request[r] EXCEPT !.pc = "exchange"]
                   q == [m EXCEPT !.credential = c]
        <4>1. request' = [request EXCEPT ![r].pc = "exchange", ![r].credential = c]
              /\ doubt' = doubt
          BY <2>2, <3>3 DEF RefreshBegins
        <4>2. m \in Request /\ m.pc = "exchange" BY <2>0 DEF Request, RequestPcs
        <4>3. c \in 1..MaxRefresh /\ c \in 0..MaxRefresh  BY <3>1, <3>3, BrowserAssumption
        <4> HIDE DEF c
        <4>4. request' = [request EXCEPT ![r] = q]
          BY <1>0, <4>1 DEF SessionsTyped
        <4> HIDE DEF m
        <4>5. q \in Request /\ q.credential = c  BY <4>2, <4>3 DEF Request
        <4> HIDE DEF q
        <4> QED  BY <1>2, <4>1, <4>3, <4>4, <4>5
      <3> QED  BY <3>2, <3>3
    <2>3. CASE RefreshFails(r)
      <3> DEFINE q == [request[r] EXCEPT !.pc = "refused"]
      <3>0. s \in Logins  BY <1>0, <2>3 DEF RefreshFails, Awaits
      <3>1. /\ request' = [request EXCEPT ![r] = q]
            /\ doubt' = doubt \cup {<<s, request[r].credential>>}
            /\ request[r].credential \in 1..MaxRefresh
        BY <1>0, <2>3 DEF RefreshFails, SessionsTyped, Issued
      <3>2. q \in Request /\ q.pc # "exchange"  BY <2>0 DEF Request, RequestPcs
      <3> HIDE DEF q
      <3>3. \A x \in Requests : request'[x] = request[x] \/ request'[x] = q
        BY <1>0, <3>1, <3>2 DEF SessionsTyped
      <3>4. doubt' \subseteq Logins \X (1..MaxRefresh)  BY <3>0, <3>1 DEF Issued
      <3> QED  BY <3>2, <3>3, <3>4 DEF Issued
    <2>4. CASE RefreshEnds(r)
      <3>1. PICK pc \in {"resolved", "refused"} :
              request' = [request EXCEPT ![r].pc = pc] /\ doubt' = doubt
        BY <2>4 DEF RefreshEnds
      <3> DEFINE q == [request[r] EXCEPT !.pc = pc]
      <3>2. request' = [request EXCEPT ![r] = q]  BY <1>0, <3>1 DEF SessionsTyped
      <3>3. q \in Request /\ q.pc # "exchange"  BY <2>0 DEF Request, RequestPcs
      <3> HIDE DEF q
      <3> QED  BY <1>2, <3>1, <3>2, <3>3
    <2>5. CASE RequestEnds(r)
      <3> DEFINE q == [pc |-> "idle", of |-> Nothing, credential |-> 0]
      <3>1. request' = [request EXCEPT ![r] = q] /\ doubt' = doubt  BY <2>5 DEF RequestEnds
      <3>2. 0 \in 0..MaxRefresh  BY BrowserAssumption
      <3>3. q \in Request /\ q.pc # "exchange"  BY <3>2 DEF Request, RequestPcs
      <3> HIDE DEF q
      <3> QED  BY <1>2, <3>1, <3>3
    <2> QED  BY <1>3, <2>1, <2>2, <2>3, <2>4, <2>5 DEF RequestRuns
  <1>4. ASSUME NEW r \in Requests, NEW s \in Logins, RequestBegins(r, s)  PROVE Issued'
    <2> DEFINE q == [pc |-> "credentials", of |-> s, credential |-> 0]
    <2>1. request' = [request EXCEPT ![r] = q] /\ doubt' = doubt  BY <1>4 DEF RequestBegins
    <2>2. 0 \in 0..MaxRefresh  BY BrowserAssumption
    <2>3. q \in Request /\ q.pc # "exchange"  BY <2>2 DEF Request, RequestPcs
    <2> HIDE DEF q
    <2> QED  BY <1>2, <2>1, <2>3
  <1>5. ASSUME NEW l \in Logins,
               LoginRuns(l) \/ \E s, b \in Logins \cup {Nothing} : LoginBegins(l, s, b)
        PROVE  Issued'
    BY <1>1, <1>5 DEF LoginRuns, LoginBegins, CallbackBegins, LoginEnds, CallbackEnds
  <1>6. ASSUME NEW s \in Logins,
               SessionExpires(s) \/ TokenAges(s) \/ \E b \in Logins \cup {Nothing} : Logout(s, b)
        PROVE  Issued'
    BY <1>1, <1>6 DEF SessionExpires, TokenAges, Logout
  <1>7. ASSUME BrowserRestart  PROVE Issued'
    <2>1. \A r \in Requests : request'[r].pc = "idle"
      BY <1>7 DEF BrowserRestart
    <2>2. ASSUME NEW r \in Requests, request[r].pc = "exchange"
          PROVE  <<request[r].of, request[r].credential>> \in Logins \X (1..MaxRefresh)
      BY <1>0, <2>2 DEF Awaits, Issued
    <2>3. doubt' \subseteq Logins \X (1..MaxRefresh)
      BY <1>7, <2>2 DEF BrowserRestart, Issued
    <2> QED  BY <2>1, <2>3 DEF Issued
  <1> QED  BY <1>3, <1>4, <1>5, <1>6, <1>7 DEF BrowserNext, BrowserSteps

TypedInv == SessionsInv /\ Issued /\ Capacity

LEMMA TypedInitOK == BrowserInit => TypedInv
  <1> SUFFICES ASSUME BrowserInit PROVE TypedInv  OBVIOUS
  <1>1. SessionsInv  BY BrowserInitInv
  <1>2. Issued  BY DEF BrowserInit, Issued
  <1>3. Open = {} /\ Present = {}  BY DEF BrowserInit, Open, Present, NoSession
  <1>4. Capacity  BY <1>3, FS_EmptySet, BrowserAssumption DEF Capacity
  <1> QED  BY <1>1, <1>2, <1>4 DEF TypedInv

LEMMA TypedStepOK == TypedInv /\ [BrowserNext]_browserVars => TypedInv'
  <1> SUFFICES ASSUME TypedInv, [BrowserNext]_browserVars PROVE TypedInv'
    OBVIOUS
  <1>1. CASE UNCHANGED browserVars
    BY <1>1 DEF browserVars, TypedInv, SessionsInv, SessionsTyped, Succession, InHand, Numbered,
                Awaits, Exchanges, Open, Issued, Capacity, Present
  <1>2. CASE BrowserNext
    <2>1. SessionsInv'  BY <1>2, BrowserStepKeeps DEF TypedInv
    <2>2. Issued'  BY <1>2, IssuedKeeps DEF TypedInv
    <2>3. Capacity'
      BY <1>2, <2>1, LoginBeginsFits, CallbackEndsFits, OthersFit DEF TypedInv, SessionsInv
    <2> QED  BY <2>1, <2>2, <2>3 DEF TypedInv
  <1> QED  BY <1>1, <1>2

LEMMA TypedIs == TypedInv => BrowserTypeOK
  BY DEF TypedInv, SessionsInv, SessionsTyped, Issued, Capacity, BrowserTypeOK

\* Every step of the run is a step of each component, or leaves it alone.
LEMMA RunSteps ==
  ASSUME [MCNext]_MCVars
  PROVE  /\ [BrowserNext]_browserVars /\ [GatewaySteps \/ GatewayRestart]_gatewayVars
         /\ [HandoffNext]_handoffVars /\ [ResearchNext]_researchVars
         /\ [ActivityNext]_activityVars /\ [AgentNext]_agentVars
  <1> DEFINE Goal == /\ [BrowserNext]_browserVars /\ [GatewaySteps \/ GatewayRestart]_gatewayVars
                     /\ [HandoffNext]_handoffVars /\ [ResearchNext]_researchVars
                     /\ [ActivityNext]_activityVars /\ [AgentNext]_agentVars
  <1>1. CASE UNCHANGED MCVars
    BY <1>1 DEF MCVars
  <1>2. CASE Rest("sessions") /\ BrowserNext
    BY Zenon, <1>2 DEF Rest
  <1>3. CASE Rest("gateway") /\ GatewayNext
    <2>1. /\ UNCHANGED handoffVars /\ UNCHANGED researchVars /\ UNCHANGED activityVars
          /\ UNCHANGED agentVars
      BY Zenon, <1>3 DEF Rest
    <2>2. [BrowserNext]_browserVars /\ [GatewaySteps \/ GatewayRestart]_gatewayVars
      BY Zenon, <1>3 DEF GatewayNext, GatewayRestart, BrowserNext
    <2> QED  BY Zenon, <2>1, <2>2
  <1>4. CASE Rest("handoff") /\ HandoffNext
    BY Zenon, <1>4 DEF Rest
  <1>5. CASE Rest("research") /\ ResearchNext
    BY Zenon, <1>5 DEF Rest
  <1>6. CASE Rest("activity") /\ ActivityNext
    BY Zenon, <1>6 DEF Rest
  <1>7. CASE Rest("agent") /\ AgentNext
    BY Zenon, <1>7 DEF Rest
  <1> QED  BY Zenon, <1>1, <1>2, <1>3, <1>4, <1>5, <1>6, <1>7 DEF MCNext

\* What the agent in a workspace says is so, for any terminals, limits, delays, contents
\* and commits: an editor is called idle only on the newest evidence of the only observer
\* there is, one editor runs at a time, one reported stopped is gone and published, and
\* work reported finished is on the remote branch.
THEOREM AgentTells == ActivitySpec /\ AgentSpec => []AgentTruthful
  <1>1. AgentInv => AgentSound  BY AgentParts
  <1>2. IdleWasObserved /\ AgentSound => AgentTruthful  BY DEF AgentTruthful
  <1> QED  BY <1>1, <1>2, IdleObserved, AgentKeeps, PTL

\* The run's components keep their types whichever moves, and with them the limits the
\* code sets on logins under way and on sessions, however callbacks and logouts cross:
\* at the limit a login passes only in the place of a session still there.
THEOREM RunTyped == MCSpec => []MCTypeOK
  <1> DEFINE All == /\ TypedInv /\ GatewayInv /\ HandoffInv /\ ResearchInv
                    /\ frozen \in BOOLEAN /\ ActivityInv /\ AgentInv
  <1>1. MCInit => All
    <2> SUFFICES ASSUME MCInit PROVE All
      OBVIOUS
    <2>1. frozen \in BOOLEAN  BY DEF MCInit, ResearchInit
    <2> QED  BY <2>1, TypedInitOK, GatewayInitOK, HandoffInitOK, ResearchInitOK,
                ActivityInitOK, AgentInitOK DEF MCInit
  <1>2. All /\ [MCNext]_MCVars => All'
    <2> SUFFICES ASSUME All, [MCNext]_MCVars PROVE All'
      OBVIOUS
    <2>1. /\ [BrowserNext]_browserVars /\ [GatewaySteps \/ GatewayRestart]_gatewayVars
          /\ [HandoffNext]_handoffVars /\ [ResearchNext]_researchVars
          /\ [ActivityNext]_activityVars /\ [AgentNext]_agentVars
      BY RunSteps
    <2>2. TypedInv' /\ GatewayInv'  BY <2>1, TypedStepOK, GatewayNextOK
    <2>3. HandoffInv'  BY <2>1, HandoffStepOK, HandoffStutters
    <2>4. ResearchInv' /\ frozen' \in BOOLEAN  BY <2>1, ResearchStep, FrozenTyped
    <2>5. ActivityInv' /\ AgentInv'  BY <2>1, ActivityStep, AgentStep
    <2> QED  BY <2>2, <2>3, <2>4, <2>5
  <1>3. All => MCTypeOK
    <2> SUFFICES ASSUME All PROVE MCTypeOK
      OBVIOUS
    <2>1. BrowserTypeOK /\ AgentTypeOK  BY TypedIs, AgentParts
    <2>2. GatewayTypeOK /\ HandoffTypeOK /\ ActivityTypeOK
      BY DEF GatewayInv, HandoffInv, ActivityInv
    <2>3. ResearchTypeOK
      BY DEF ResearchInv, ResearchTyped, ResearchTypeOK, PostRecord
    <2> QED  BY <2>1, <2>2, <2>3 DEF MCTypeOK
  <1> HIDE DEF All
  <1> QED  BY <1>1, <1>2, <1>3, PTL DEF MCSpec

=============================================================================
