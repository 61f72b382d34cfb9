------------------------------ MODULE Research ------------------------------
(***************************************************************************)
(* Research operations: a durable intent with a private key, written       *)
(* before the research service is asked, and the run it accepted for it.   *)
(* Calls and answers are lost, saves fail half way and freeze the store,   *)
(* users retry or recover, the control plane restarts.                     *)
(*                                                                         *)
(* Code: sigiledd/src/browser/research/operations.rs. One actor and        *)
(* project. The service is external: it starts one run per key and answers *)
(* a repeated key with the run it started.                                 *)
(***************************************************************************)
EXTENDS Naturals, FiniteSets

CONSTANTS
  Operations,  \* identifiers the browser chooses
  Payloads,    \* problems, contexts and options
  Posts,       \* requests; each is made once
  MaxKey       \* bound on the private keys ever made

ASSUME ResearchAssumption ==
  /\ Operations # {} /\ Payloads # {}
  /\ MaxKey \in Nat

VARIABLES
  intent,      \* the file: it is read again in every transaction
  frozen,      \* a save failed: nothing is written before a restart
  post,        \* the requests
  keys,        \* private keys made so far
  runs         \* external: the runs of the service, by key

researchVars == <<intent, frozen, post, keys, runs>>

-----------------------------------------------------------------------------
\* Intent0: key 0 is no intent; run 0 is acceptance unknown. A run has its key's number.
Intent0  == [key: 0..MaxKey, payload: Payloads, run: 0..MaxKey]
NoIntent0 == [key |-> 0, payload |-> CHOOSE p \in Payloads : TRUE, run |-> 0]
PostPcs  == {"idle", "submit", "accept", "over"}

ResearchInit ==
  /\ intent = [o \in Operations |-> NoIntent0]
  /\ frozen = FALSE
  /\ post = [r \in Posts |-> [pc |-> "idle", op |-> CHOOSE o \in Operations : TRUE,
                              intent |-> NoIntent0]]
  /\ keys = 0
  /\ runs = {}

PostIs(r, pc, o, i) == post' = [post EXCEPT ![r] = [pc |-> pc, op |-> o, intent |-> i]]
PostEnds(r)         == post' = [post EXCEPT ![r].pc = "over"]

\* transaction(write): a failed one may have replaced the file all the same.
Stores(r, o, i, pc) ==
  /\ ~frozen
  /\ \/ /\ intent' = [intent EXCEPT ![o] = i]
        /\ PostIs(r, pc, o, i)
        /\ UNCHANGED frozen
     \/ /\ intent' \in {intent, [intent EXCEPT ![o] = i]}
        /\ PostEnds(r)
        /\ frozen' = TRUE

-----------------------------------------------------------------------------
\* create: reserve returns the intent there is, if it is for the same request.
CreateNew(r, o, p) ==
  /\ post[r].pc = "idle"
  /\ intent[o].key = 0
  /\ keys < MaxKey
  /\ keys' = keys + 1
  /\ Stores(r, o, [key |-> keys + 1, payload |-> p, run |-> 0], "submit")
  /\ UNCHANGED runs

\* Mutant: a retry gets a key of its own.
CreateSameAnew(r, o, p) ==
  /\ post[r].pc = "idle"
  /\ intent[o].key # 0
  /\ intent[o].payload = p
  /\ keys < MaxKey
  /\ keys' = keys + 1
  /\ Stores(r, o, [intent[o] EXCEPT !.key = keys + 1], "submit")
  /\ UNCHANGED runs

CreateSame(r, o, p) ==
  /\ post[r].pc = "idle"
  /\ intent[o].key # 0
  /\ intent[o].payload = p
  /\ Stores(r, o, intent[o], "submit")
  /\ UNCHANGED <<keys, runs>>

CreateConflict(r, o, p) ==
  /\ post[r].pc = "idle"
  /\ intent[o].key # 0
  /\ intent[o].payload # p
  /\ PostEnds(r)
  /\ UNCHANGED <<intent, frozen, keys, runs>>

\* recover: the intent as it is, its key and its request.
Recover(r, o) ==
  /\ post[r].pc = "idle"
  /\ intent[o].key # 0
  /\ PostIs(r, "submit", o, intent[o])
  /\ UNCHANGED <<intent, frozen, keys, runs>>

\* submit: the store must be writable; the request or its answer may be lost.
Submit(r) ==
  LET i == post[r].intent
  IN  /\ post[r].pc = "submit"
      /\ \/ frozen /\ PostEnds(r) /\ UNCHANGED runs
         \/ ~frozen /\ PostEnds(r) /\ UNCHANGED runs
         \/ /\ ~frozen
            /\ runs' = runs \cup {[key |-> i.key, op |-> post[r].op, payload |-> i.payload]}
            /\ PostIs(r, "accept", post[r].op, i) \/ PostEnds(r)
      /\ UNCHANGED <<intent, frozen, keys>>

\* accept: a run once associated stays.
Accept(r) ==
  LET o == post[r].op
      i == post[r].intent
  IN  /\ post[r].pc = "accept"
      /\ \/ /\ intent[o].run \in {0, i.key}
            /\ Stores(r, o, [intent[o] EXCEPT !.run = i.key], "over")
         \/ /\ frozen \/ intent[o].run \notin {0, i.key}
            /\ PostEnds(r)
            /\ UNCHANGED <<intent, frozen>>
      /\ UNCHANGED <<keys, runs>>

ResearchRestart ==
  /\ frozen' = FALSE
  /\ post' = [r \in Posts |-> IF post[r].pc = "idle" THEN post[r]
                              ELSE [post[r] EXCEPT !.pc = "over"]]
  /\ UNCHANGED <<intent, keys, runs>>

ResearchNext ==
  \/ \E r \in Posts :
       \/ \E o \in Operations :
            \/ Recover(r, o)
            \/ \E p \in Payloads : CreateNew(r, o, p) \/ CreateSame(r, o, p)
                                   \/ CreateConflict(r, o, p)
       \/ Submit(r) \/ Accept(r)
  \/ ResearchRestart

ResearchSpec == ResearchInit /\ [][ResearchNext]_researchVars

-----------------------------------------------------------------------------
(* Properties *)

ResearchTypeOK ==
  /\ intent \in [Operations -> Intent0]
  /\ frozen \in BOOLEAN
  /\ post \in [Posts -> [pc: PostPcs, op: Operations, intent: Intent0]]
  /\ keys \in 0..MaxKey
  /\ runs \subseteq [key: 1..MaxKey, op: Operations, payload: Payloads]

\* "An ambiguous POST never creates a replacement key": whatever is lost, frozen or
\* restarted in between, an operation has one run at the service, for the request that
\* is on file, and that run is the one associated with it.
OneRunPerOperation ==
  \A r \in runs :
    /\ \A s \in runs : s.op = r.op => s = r
    /\ intent[r.op].key = r.key
    /\ intent[r.op].payload = r.payload
    /\ intent[r.op].run \in {0, r.key}

=============================================================================
