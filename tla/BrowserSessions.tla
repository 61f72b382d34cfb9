--------------------------- MODULE BrowserSessions ---------------------------
(***************************************************************************)
(* Browser sessions: login transactions that overlap, callbacks that wait  *)
(* for the identity provider, requests that refresh a session's rotating   *)
(* credential one at a time, and the logout, expiry, cancellation or       *)
(* restart that comes in between.                                          *)
(*                                                                         *)
(* Code: sigiledd/src/browser/mod.rs and provider.rs. What has expired is  *)
(* pruned before anything looks at the store, so expiring is being removed.*)
(* The identity provider and the browsers' cookies are external.           *)
(***************************************************************************)
EXTENDS Naturals, FiniteSets

CONSTANTS
  Logins,       \* login transactions; the session of one has its name
  Requests,     \* requests that resolve a session
  MaxLogins,    \* transactions at a time (1024 in the code)
  MaxSessions,  \* sessions at a time (4096 in the code)
  MaxRefresh,   \* bound on the credentials the provider issues to one session
  Nothing       \* no login, no session, no request

ASSUME BrowserAssumption ==
  /\ Nothing \notin Logins \cup Requests
  /\ MaxLogins \in Nat /\ MaxSessions \in Nat /\ MaxRefresh \in Nat \ {0}

VARIABLES
  login,    \* Store.logins
  session,  \* Store.sessions, and what requests still hold of removed ones
  request,  \* the handlers
  left,     \* history: sessions their users logged out of
  doubt     \* history: credentials sent to the provider, to no known effect

browserVars == <<login, session, request, left, doubt>>

-----------------------------------------------------------------------------
\* Transaction: replaces is the session the browser had when it began.
Transaction0 == [state: {"unused", "open", "in_flight", "gone"},
                 replaces: Logins \cup {Nothing}]

\* Session: stale is an access token about to expire; refresh numbers the rotating
\* credential, 0 while a request has taken it; holder has the credentials lock.
Session == [there: BOOLEAN, stale: BOOLEAN, refresh: 0..MaxRefresh, issued: 0..MaxRefresh,
            holder: Requests \cup {Nothing}, replaced: Logins \cup {Nothing}]
NoSession == [there |-> FALSE, stale |-> FALSE, refresh |-> 0, issued |-> 0,
              holder |-> Nothing, replaced |-> Nothing]

RequestPcs == {"idle", "credentials", "exchange", "resolved", "refused"}
Request    == [pc: RequestPcs, of: Logins \cup {Nothing}, credential: 0..MaxRefresh]

There(s) == s \in Logins /\ session[s].there
Open     == {l \in Logins : login[l].state \in {"open", "in_flight"}}
Present  == {s \in Logins : session[s].there}

Without(some) == [l \in Logins |-> IF l \in some /\ l \in Open
                                     THEN [login[l] EXCEPT !.state = "gone"] ELSE login[l]]
Removed(some) == [s \in Logins |-> IF s \in some THEN [session[s] EXCEPT !.there = FALSE]
                                                 ELSE session[s]]

BrowserInit ==
  /\ login = [l \in Logins |-> [state |-> "unused", replaces |-> Nothing]]
  /\ session = [s \in Logins |-> NoSession]
  /\ request = [r \in Requests |-> [pc |-> "idle", of |-> Nothing, credential |-> 0]]
  /\ left = {}
  /\ doubt = {}

-----------------------------------------------------------------------------
\* login: the browser shows the session it has, and the binding of a login it began
\* before, which this one takes the place of.
LoginBegins(l, s, earlier) ==
  /\ login[l].state = "unused"
  /\ Cardinality(Open \ {earlier}) < MaxLogins
  /\ login' = [Without({earlier}) EXCEPT
       ![l] = [state |-> "open", replaces |-> IF There(s) THEN s ELSE Nothing]]
  /\ UNCHANGED <<session, request, left, doubt>>

\* callback, with the binding's cookie: the attempt is in flight, and asks the provider.
CallbackBegins(l) ==
  /\ login[l].state = "open"
  /\ login' = [login EXCEPT ![l].state = "in_flight"]
  /\ UNCHANGED <<session, request, left, doubt>>

\* LoginGuard: an error, a timeout or a cancelled handler consumes this attempt only;
\* so does the time a login may take.
LoginEnds(l) ==
  /\ l \in Open
  /\ login' = Without({l})
  /\ UNCHANGED <<session, request, left, doubt>>

\* Mutant: one session too many.
OneMoreRoom(old) == Cardinality(Present) <= MaxSessions \/ There(old)

\* A session is replaced, or there is room for one more; none is evicted.
Room(old) == Cardinality(Present) < MaxSessions \/ There(old)

\* Mutant: the transaction copied before the exchange is as good as the one in the store.
CallbackEndsUnchecked(l) ==
  LET old == login[l].replaces
  IN  /\ login[l].state \in {"in_flight", "gone"}
      /\ session[l] = NoSession
      /\ Room(old)
      /\ login' = [login EXCEPT ![l].state = "gone"]
      /\ session' = [Removed({old}) EXCEPT
           ![l] = [NoSession EXCEPT !.there = TRUE, !.refresh = 1, !.issued = 1,
                                    !.replaced = old]]
      /\ UNCHANGED <<request, left, doubt>>

\* The provider answered and was believed; the transaction must still be the one in
\* the store. The new session takes the place of the one it replaces.
CallbackEnds(l) ==
  LET old == login[l].replaces
  IN  /\ login[l].state = "in_flight"
      /\ Room(old)
      /\ login' = Without({l})
      /\ session' = [Removed({old}) EXCEPT
           ![l] = [NoSession EXCEPT !.there = TRUE, !.refresh = 1, !.issued = 1,
                                    !.replaced = old]]
      /\ UNCHANGED <<request, left, doubt>>

-----------------------------------------------------------------------------
\* resolve_session: the session exists; its credentials are locked next.
RequestBegins(r, s) ==
  /\ request[r].pc = "idle"
  /\ There(s)
  /\ request' = [request EXCEPT ![r] = [pc |-> "credentials", of |-> s, credential |-> 0]]
  /\ UNCHANGED <<login, session, left, doubt>>

\* With the lock, the session is looked for again: a fresh token will do.
RequestResolves(r) ==
  LET s == request[r].of
  IN  /\ request[r].pc = "credentials"
      /\ session[s].holder = Nothing
      /\ ~session[s].there \/ ~session[s].stale
      /\ request' = [request EXCEPT
           ![r].pc = IF session[s].there THEN "resolved" ELSE "refused"]
      /\ UNCHANGED <<login, session, left, doubt>>

\* RefreshGuard: the credential is taken out before it is sent. One already taken, or
\* never issued, ends the session.
RefreshBegins(r) ==
  LET s == request[r].of
  IN  /\ request[r].pc = "credentials"
      /\ session[s].holder = Nothing
      /\ session[s].there /\ session[s].stale
      /\ IF session[s].refresh = 0
           THEN /\ session' = Removed({s})
                /\ request' = [request EXCEPT ![r].pc = "refused"]
           ELSE /\ session' = [session EXCEPT ![s].holder = r, ![s].refresh = 0]
                /\ request' = [request EXCEPT ![r].pc = "exchange",
                                              ![r].credential = session[s].refresh]
      /\ UNCHANGED <<login, left, doubt>>

\* The exchange or the verification fails, the handler times out or is dropped: nobody
\* knows whether the provider rotated the credential, and the session is removed.
RefreshFails(r) ==
  LET s == request[r].of
  IN  /\ request[r].pc = "exchange"
      /\ session' = [Removed({s}) EXCEPT ![s].holder = Nothing]
      /\ request' = [request EXCEPT ![r].pc = "refused"]
      /\ doubt' = doubt \cup {<<s, request[r].credential>>}
      /\ UNCHANGED <<login, left>>

\* New tokens, verified. The provider may have issued a new credential; a session that
\* is gone meanwhile stays so.
RefreshEnds(r) ==
  LET s == request[r].of
  IN  /\ request[r].pc = "exchange"
      /\ IF session[s].there
           THEN /\ \E n \in {request[r].credential, session[s].issued + 1} :
                     /\ n <= MaxRefresh
                     /\ session' = [session EXCEPT
                          ![s].holder = Nothing, ![s].stale = FALSE, ![s].refresh = n,
                          ![s].issued = IF n > @ THEN n ELSE @]
                /\ request' = [request EXCEPT ![r].pc = "resolved"]
           ELSE /\ session' = [session EXCEPT ![s].holder = Nothing]
                /\ request' = [request EXCEPT ![r].pc = "refused"]
      /\ UNCHANGED <<login, left, doubt>>

\* A handler dropped while it waits for the lock; a request that was answered.
RequestEnds(r) ==
  /\ request[r].pc \in {"credentials", "resolved", "refused"}
  /\ request' = [request EXCEPT ![r] = [pc |-> "idle", of |-> Nothing, credential |-> 0]]
  /\ UNCHANGED <<login, session, left, doubt>>

-----------------------------------------------------------------------------
\* logout: the session, the logins begun to replace it, the login of this browser.
Logout(s, binding) ==
  /\ There(s)
  /\ session' = Removed({s})
  /\ login' = Without({binding} \cup {l \in Logins : login[l].replaces = s})
  /\ left' = left \cup {s}
  /\ UNCHANGED <<request, doubt>>

\* Time: idle or absolute lifetime, access token.
SessionExpires(s) ==
  /\ There(s)
  /\ session' = Removed({s})
  /\ UNCHANGED <<login, request, left, doubt>>

TokenAges(s) ==
  /\ There(s)
  /\ ~session[s].stale
  /\ session' = [session EXCEPT ![s].stale = TRUE]
  /\ UNCHANGED <<login, request, left, doubt>>

\* A restart keeps none of it; what was being sent may have arrived.
BrowserRestart ==
  /\ login' = Without(Logins)
  /\ session' = [s \in Logins |-> [session[s] EXCEPT !.there = FALSE, !.holder = Nothing]]
  /\ request' = [r \in Requests |-> [pc |-> "idle", of |-> Nothing, credential |-> 0]]
  /\ doubt' = doubt \cup {<<request[r].of, request[r].credential>> :
                            r \in {q \in Requests : request[q].pc = "exchange"}}
  /\ UNCHANGED left

RequestRuns(r) ==
  \/ RequestResolves(r) \/ RefreshBegins(r) \/ RefreshFails(r) \/ RefreshEnds(r)
  \/ RequestEnds(r)

LoginRuns(l) == CallbackBegins(l) \/ LoginEnds(l) \/ CallbackEnds(l)

BrowserSteps ==
  \/ \E l \in Logins : \/ LoginRuns(l)
                       \/ \E s, b \in Logins \cup {Nothing} : LoginBegins(l, s, b)
  \/ \E r \in Requests : RequestRuns(r) \/ \E s \in Logins : RequestBegins(r, s)
  \/ \E s \in Logins : \/ SessionExpires(s) \/ TokenAges(s)
                       \/ \E b \in Logins \cup {Nothing} : Logout(s, b)

BrowserNext == BrowserSteps \/ BrowserRestart

BrowserSpec == BrowserInit /\ [][BrowserNext]_browserVars

-----------------------------------------------------------------------------
(* Properties *)

BrowserTypeOK ==
  /\ login \in [Logins -> Transaction0]
  /\ session \in [Logins -> Session]
  /\ request \in [Requests -> Request]
  /\ left \subseteq Logins
  /\ doubt \subseteq Logins \X (1..MaxRefresh)
  /\ Cardinality(Open) <= MaxLogins /\ Cardinality(Present) <= MaxSessions

\* "Preserve logout/expiry across concurrent refresh": a session its user left never
\* comes back, neither by a refresh under way nor as the session of a login that was
\* to replace it and whose callback was waiting for the provider.
LogoutIsFinal ==
  \A s \in Logins : There(s) => s \notin left /\ session[s].replaced \notin left

\* "No uncertain refresh credential is retried": a credential is in one place, and one
\* that was sent to no known effect is in none.
CredentialNotRetried ==
  /\ \A s \in Logins : session[s].refresh # 0 /\ session[s].there =>
       <<s, session[s].refresh>> \notin doubt
  /\ \A r \in Requests : request[r].pc = "exchange" =>
       /\ <<request[r].of, request[r].credential>> \notin doubt
       /\ session[request[r].of].holder = r
       /\ session[request[r].of].refresh = 0

BrowserSound == LogoutIsFinal /\ CredentialNotRetried

=============================================================================
