----------------------------- MODULE Approvals -----------------------------
(***************************************************************************)
(* The human leg of authorization: a driver's elevation by the device      *)
(* flow, the poller each elevation spawns, the one approval kept per       *)
(* driver, and what a restart makes of them.                               *)
(*                                                                         *)
(* Code: sigiledd/src/auth.rs. The operator is external: a flow is         *)
(* undecided, approved or denied. So is what answers at the address of the *)
(* token endpoint, the identity provider or what stands before it: the     *)
(* poller knows an answer by its field "error" alone, whatever its status, *)
(* and nothing binds an answer to what the operator decided.               *)
(***************************************************************************)
EXTENDS Naturals

CONSTANTS
  Drivers,     \* machine callers
  Flows,       \* elevations; each is asked for once
  Window,      \* seconds a device code lives
  Lifetimes,   \* seconds a grant may live: what the answer says, or twelve hours
  MaxEpoch,    \* bound on the clock
  NoDriver     \* a flow nobody asked for yet

ASSUME ApprovalsAssumption ==
  /\ NoDriver \notin Drivers
  /\ Window \in Nat \ {0}
  /\ Lifetimes \subseteq Nat
  /\ MaxEpoch \in Nat

VARIABLES
  epoch,       \* now_epoch
  approvals,   \* ApprovalStore: the one entry per driver
  flow,        \* the device flows and their pollers
  decision,    \* external: what the operator told the identity provider
  approvalDisk \* the approvals of the last snapshot

approvalVars == <<epoch, approvals, flow, decision, approvalDisk>>

-----------------------------------------------------------------------------
ApprovalState == {"none", "pending", "granted", "denied", "expired"}
Approval      == [state: ApprovalState, expires: Nat]
NoApproval    == [state |-> "none", expires |-> 0]

\* "answer" and "until" are history: what ended the poller, and until when it granted.
Flow == [pc: {"idle", "sleeping", "asked", "over"}, driver: Drivers \cup {NoDriver},
         expires: Nat, answer: {"none", "error", "granted"}, until: Nat]
NoFlow == [pc |-> "idle", driver |-> NoDriver, expires |-> 0, answer |-> "none", until |-> 0]

\* ApprovalStore::live
Live(d) == approvals[d].state = "granted" /\ approvals[d].expires > epoch

\* authorize: an administrator always, a driver where no approval is required or
\* one is live.
Authorized(d, admin, required) == admin \/ ~required \/ Live(d)

\* AppState::persist: a failure is only logged.
ApprovalsPersisted == approvalDisk' \in {approvals', approvalDisk}

\* ApprovalStore::mark: the driver's entry, whichever flow wrote it.
Marked(d, state) ==
  IF approvals[d] = NoApproval THEN approvals
                               ELSE [approvals EXCEPT ![d].state = state]

Ends(f, answer, until) ==
  flow' = [flow EXCEPT ![f].pc = "over", ![f].answer = answer, ![f].until = until]

ApprovalsInit ==
  /\ epoch = 0
  /\ approvals = [d \in Drivers |-> NoApproval]
  /\ flow = [f \in Flows |-> NoFlow]
  /\ decision = [f \in Flows |-> "open"]
  /\ approvalDisk = approvals

-----------------------------------------------------------------------------
\* Mutant: a new elevation keeps a grant there is, and moves its end.
ElevateRenews(f, d) ==
  /\ flow[f].pc = "idle"
  /\ flow' = [flow EXCEPT ![f] = [NoFlow EXCEPT !.pc = "sleeping", !.driver = d,
                                                !.expires = epoch + Window]]
  /\ approvals' = [approvals EXCEPT ![d] =
                     [state |-> IF Live(d) THEN "granted" ELSE "pending",
                      expires |-> epoch + Window]]
  /\ ApprovalsPersisted
  /\ UNCHANGED <<epoch, decision>>

\* elevate: the identity provider issued a code; the driver's entry becomes pending,
\* a live grant included, and a poller starts.
Elevate(f, d) ==
  /\ flow[f].pc = "idle"
  /\ flow' = [flow EXCEPT ![f] = [NoFlow EXCEPT !.pc = "sleeping", !.driver = d,
                                                !.expires = epoch + Window]]
  /\ approvals' = [approvals EXCEPT ![d] = [state |-> "pending",
                                            expires |-> epoch + Window]]
  /\ ApprovalsPersisted
  /\ UNCHANGED <<epoch, decision>>

\* The poller wakes: its code ran out, or it asks.
PollExpired(f) ==
  /\ flow[f].pc = "sleeping"
  /\ epoch >= flow[f].expires
  /\ approvals' = Marked(flow[f].driver, "expired")
  /\ ApprovalsPersisted
  /\ Ends(f, "none", 0)
  /\ UNCHANGED <<epoch, decision>>

PollAsks(f) ==
  /\ flow[f].pc = "sleeping"
  /\ epoch < flow[f].expires
  /\ flow' = [flow EXCEPT ![f].pc = "asked"]
  /\ UNCHANGED <<epoch, approvals, decision, approvalDisk>>

\* No answer, an unreadable one, "authorization_pending" or "slow_down".
PollAgain(f) ==
  /\ flow[f].pc = "asked"
  /\ flow' = [flow EXCEPT ![f].pc = "sleeping"]
  /\ UNCHANGED <<epoch, approvals, decision, approvalDisk>>

\* Any other error, whoever reports it and of whatever: the request counts as denied.
PollDenied(f) ==
  /\ flow[f].pc = "asked"
  /\ approvals' = Marked(flow[f].driver, "denied")
  /\ ApprovalsPersisted
  /\ Ends(f, "error", 0)
  /\ UNCHANGED <<epoch, decision>>

\* JSON without an error: ApprovalStore::grant, whatever else is in it. The code may
\* have run out since the poller asked.
PollGranted(f) ==
  /\ flow[f].pc = "asked"
  /\ \E ttl \in Lifetimes :
       /\ approvals' = [approvals EXCEPT ![flow[f].driver] =
                          [state |-> "granted", expires |-> epoch + ttl]]
       /\ Ends(f, "granted", epoch + ttl)
  /\ ApprovalsPersisted
  /\ UNCHANGED <<epoch, decision>>

\* External: the operator answers a code while it lives.
Decide(f) ==
  /\ flow[f].pc # "idle"
  /\ decision[f] = "open"
  /\ epoch < flow[f].expires
  /\ decision' \in {[decision EXCEPT ![f] = a] : a \in {"approved", "denied"}}
  /\ UNCHANGED <<epoch, approvals, flow, approvalDisk>>

ApprovalClock ==
  /\ epoch < MaxEpoch
  /\ epoch' = epoch + 1
  /\ UNCHANGED <<approvals, flow, decision, approvalDisk>>

\* Another component's persist writes the same snapshot.
ApprovalsByOthers ==
  /\ approvalDisk' = approvals
  /\ UNCHANGED <<epoch, approvals, flow, decision>>

\* A restart hydrates the entries as they are; the pollers are gone.
ApprovalsRestart ==
  /\ approvals' = approvalDisk
  /\ flow' = [f \in Flows |-> IF flow[f].pc = "idle" THEN flow[f]
                                                     ELSE [flow[f] EXCEPT !.pc = "over"]]
  /\ UNCHANGED <<epoch, decision, approvalDisk>>

PollerStep(f) ==
  \/ PollExpired(f) \/ PollAsks(f) \/ PollAgain(f) \/ PollDenied(f) \/ PollGranted(f)

ApprovalsNext ==
  \/ \E f \in Flows : PollerStep(f) \/ Decide(f) \/ \E d \in Drivers : Elevate(f, d)
  \/ ApprovalClock
  \/ ApprovalsByOthers
  \/ ApprovalsRestart

ApprovalsSpec == ApprovalsInit /\ [][ApprovalsNext]_approvalVars

-----------------------------------------------------------------------------
(* Properties *)

ApprovalsTypeOK ==
  /\ epoch \in 0..MaxEpoch
  /\ approvals \in [Drivers -> Approval]
  /\ approvalDisk \in [Drivers -> Approval]
  /\ flow \in [Flows -> Flow]
  /\ decision \in [Flows -> {"open", "approved", "denied"}]

\* What a store holds as granted to d goes back to an elevation of that very driver
\* whose poller is through with that result, and ends when its answer said.
GrantedBy(store, d) ==
  store[d].state = "granted" =>
    \E f \in Flows : /\ flow[f].driver = d /\ flow[f].pc = "over"
                     /\ flow[f].answer = "granted"
                     /\ store[d].expires = flow[f].until

\* Whatever pollers of one driver overlap, answers come late, marks fall on entries of
\* another flow and snapshots are refused and restored: a driver passes a guarded verb
\* only on the answer to an elevation of its own, only until that answer's end, and an
\* elevation that ended otherwise, or was cut off by a restart, never grants again.
AnswerBehindEveryGrant ==
  \A d \in Drivers :
    /\ GrantedBy(approvals, d) /\ GrantedBy(approvalDisk, d)
    /\ Authorized(d, FALSE, TRUE) =>
         \E f \in Flows : /\ flow[f].driver = d
                          /\ flow[f].answer = "granted" /\ epoch < flow[f].until

\* A live approval, and the operator's: the answer that granted was to an approved flow.
Approved(d) ==
  /\ Live(d)
  /\ \E f \in Flows : /\ flow[f].driver = d /\ decision[f] = "approved"
                      /\ flow[f].answer = "granted"

\* The contract: the operator approves once, and SIGILED keeps the approval. It ends by
\* its expiry, a restart, or a new elevation of the same driver.
ApprovalKept ==
  [][\A d \in Drivers :
       \/ ~Approved(d)
       \/ Live(d)'
       \/ ApprovalsRestart
       \/ epoch' # epoch
       \/ \E f \in Flows : Elevate(f, d)]_approvalVars

=============================================================================
