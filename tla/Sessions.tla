------------------------------ MODULE Sessions ------------------------------
(***************************************************************************)
(* Sign-in and the session store (backend/auth.py, the login routes of     *)
(* backend/main.py): one PVE ticket per session, refreshed on the request  *)
(* path once it is old, an idle timeout only the user's own requests       *)
(* reset, and background polls that use the session without keeping it.    *)
(*                                                                         *)
(* time.time() is the ages of the two stamps a session carries, in ticks,  *)
(* capped where they no longer make a difference.                          *)
(***************************************************************************)
EXTENDS Naturals

CONSTANTS
  Browsers,     \* browsers, each with one person at it
  Ids,          \* session ids secrets.token_urlsafe() can hand out
  Flows,        \* OIDC state values PVE can hand out
  Requests,     \* authenticated requests at a time
  IdleLimit,    \* SESSION_IDLE_TIMEOUT_MINUTES
  RefreshAge,   \* _TICKET_REFRESH_AGE_SECONDS
  TicketLife,   \* how long PVE accepts a ticket
  None

ASSUME AgesAssumption ==
  /\ IdleLimit \in Nat
  /\ RefreshAge \in Nat
  /\ TicketLife \in Nat
  /\ RefreshAge < TicketLife

ASSUME NoneAssumption == None \notin Ids \cup Browsers \cup Flows

VARIABLES
  store,     \* keys of auth._sessions
  owner,     \* username: whose ticket each session holds
  idle,      \* age of last_activity_at
  age,       \* age of ticket_issued_at
  cookie,    \* each browser's session_id cookie
  binding,   \* each browser's oidc_binding cookie
  starter,   \* the browser that started each OIDC flow
  req        \* requests past the session lookup

vars == <<store, owner, idle, age, cookie, binding, starter, req>>
logins == <<owner, cookie, binding, starter>>

IdleAges   == 0..(IdleLimit + 1)
TicketAges == 0..(TicketLife + 1)

NoRequest == [pc |-> "idle", id |-> None, touch |-> FALSE]
AtWork == [pc : {"refreshing", "admitted"}, id : Ids, touch : BOOLEAN]

Init ==
  /\ store = {}
  /\ owner = [s \in Ids |-> None]
  /\ idle = [s \in Ids |-> 0]
  /\ age = [s \in Ids |-> 0]
  /\ cookie = [b \in Browsers |-> None]
  /\ binding = [b \in Browsers |-> None]
  /\ starter = [f \in Flows |-> None]
  /\ req = [r \in Requests |-> NoRequest]

-----------------------------------------------------------------------------
(* Sign-in.                                                                 *)

(* _store_ticket and the cookie of the answer.                              *)
StoreTicket(b, s, user) ==
  /\ owner[s] = None
  /\ store' = store \cup {s}
  /\ owner' = [owner EXCEPT ![s] = user]
  /\ idle' = [idle EXCEPT ![s] = 0]
  /\ age' = [age EXCEPT ![s] = 0]
  /\ cookie' = [cookie EXCEPT ![b] = s]

(* POST /login that PVE accepts: login() of an account without a second     *)
(* factor, or finish_tfa_login() with the challenge the form carries.  One  *)
(* that is refused or asks for the second factor changes nothing here.      *)
LogIn(b, s) ==
  /\ StoreTicket(b, s, b)
  /\ UNCHANGED <<binding, starter, req>>

(* GET /login/oidc/{realm}: the flow's state goes to the identity provider  *)
(* and, hashed, into the browser's cookie.                                  *)
OidcStart(b, f) ==
  /\ starter[f] = None
  /\ starter' = [starter EXCEPT ![f] = b]
  /\ binding' = [binding EXCEPT ![b] = f]
  /\ UNCHANGED <<store, owner, idle, age, cookie, req>>

(* A bug: the callback does not look at the binding cookie.                 *)
OidcCallbackUnbound(b, f, s) ==
  /\ starter[f] # None
  /\ StoreTicket(b, s, starter[f])
  /\ binding' = [binding EXCEPT ![b] = None]
  /\ UNCHANGED <<starter, req>>

(* GET /login/oidc/callback in some browser, with the state of some flow:   *)
(* PVE answers with the ticket of whoever signed in at the provider.        *)
OidcCallback(b, f, s) ==
  /\ starter[f] # None
  /\ binding[b] = f
  /\ StoreTicket(b, s, starter[f])
  /\ binding' = [binding EXCEPT ![b] = None]
  /\ UNCHANGED <<starter, req>>

(* The binding cookie lives ten minutes.                                    *)
BindingExpires(b) ==
  /\ binding[b] # None
  /\ binding' = [binding EXCEPT ![b] = None]
  /\ UNCHANGED <<store, owner, idle, age, cookie, starter, req>>

(* POST /logout: the session goes whatever its requests are doing.          *)
Logout(b) ==
  /\ cookie[b] # None
  /\ store' = store \ {cookie[b]}
  /\ cookie' = [cookie EXCEPT ![b] = None]
  /\ UNCHANGED <<owner, idle, age, binding, starter, req>>

-----------------------------------------------------------------------------
(* _resolve_session.                                                        *)

IdleTimeout(b) ==
  LET s == cookie[b] IN
  /\ s \in store
  /\ idle[s] > IdleLimit
  /\ store' = store \ {s}
  /\ UNCHANGED <<logins, idle, age, req>>

(* Bugs: every request counts as activity, and a poll never refreshes.      *)
ResolveTouching(r, b, touch) ==
  LET s == cookie[b] IN
  /\ req[r].pc = "idle"
  /\ s \in store
  /\ idle[s] <= IdleLimit
  /\ idle' = [idle EXCEPT ![s] = 0]
  /\ req' = [req EXCEPT ![r] =
       [pc |-> IF age[s] > RefreshAge THEN "refreshing" ELSE "admitted",
        id |-> s, touch |-> touch]]
  /\ UNCHANGED <<store, logins, age>>

ResolveLazily(r, b, touch) ==
  LET s == cookie[b] IN
  /\ req[r].pc = "idle"
  /\ s \in store
  /\ idle[s] <= IdleLimit
  /\ idle' = IF touch THEN [idle EXCEPT ![s] = 0] ELSE idle
  /\ req' = [req EXCEPT ![r] =
       [pc |-> IF age[s] > TicketLife THEN "refreshing" ELSE "admitted",
        id |-> s, touch |-> touch]]
  /\ UNCHANGED <<store, logins, age>>

(* get_session (touch) or get_session_keepalive of a request whose session  *)
(* is known and not idle: on to the handler, or to the refresh.             *)
Resolve(r, b, touch) ==
  LET s == cookie[b] IN
  /\ req[r].pc = "idle"
  /\ s \in store
  /\ idle[s] <= IdleLimit
  /\ idle' = IF touch THEN [idle EXCEPT ![s] = 0] ELSE idle
  /\ req' = [req EXCEPT ![r] =
       [pc |-> IF age[s] > RefreshAge THEN "refreshing" ELSE "admitted",
        id |-> s, touch |-> touch]]
  /\ UNCHANGED <<store, logins, age>>

(* A bug: the refreshed session is written back into the store.             *)
RefreshStored(r) ==
  LET s == req[r].id IN
  /\ req[r].pc = "refreshing"
  /\ age[s] <= TicketLife
  /\ age' = [age EXCEPT ![s] = 0]
  /\ store' = store \cup {s}
  /\ req' = [req EXCEPT ![r].pc = "admitted"]
  /\ UNCHANGED <<logins, idle>>

(* PVE renews a ticket it still accepts; the session object is updated,     *)
(* which the store may have dropped meanwhile.                              *)
Refresh(r) ==
  LET s == req[r].id IN
  /\ req[r].pc = "refreshing"
  /\ age[s] <= TicketLife
  /\ age' = [age EXCEPT ![s] = 0]
  /\ req' = [req EXCEPT ![r].pc = "admitted"]
  /\ UNCHANGED <<store, logins, idle>>

(* PVE refuses or cannot be reached: the session goes, also when another    *)
(* request has refreshed it in the meantime.                                *)
RefreshFails(r) ==
  /\ req[r].pc = "refreshing"
  /\ store' = store \ {req[r].id}
  /\ req' = [req EXCEPT ![r] = NoRequest]
  /\ UNCHANGED <<logins, idle, age>>

Answer(r) ==
  /\ req[r].pc = "admitted"
  /\ req' = [req EXCEPT ![r] = NoRequest]
  /\ UNCHANGED <<store, logins, idle, age>>

-----------------------------------------------------------------------------
(* The process stops and starts again: the store is memory only.            *)
Restart ==
  /\ store # {}
  /\ store' = {}
  /\ req' = [r \in Requests |-> NoRequest]
  /\ UNCHANGED <<logins, idle, age>>

Held(s) == s \in store \/ \E r \in Requests : req[r].id = s

Older(a, limit) == IF a < limit THEN a + 1 ELSE a

Tick ==
  /\ idle' = [s \in Ids |-> IF Held(s) THEN Older(idle[s], IdleLimit + 1) ELSE idle[s]]
  /\ age' = [s \in Ids |-> IF Held(s) THEN Older(age[s], TicketLife + 1) ELSE age[s]]
  /\ UNCHANGED <<store, logins, req>>

Next ==
  \/ \E b \in Browsers, s \in Ids : LogIn(b, s)
  \/ \E b \in Browsers, f \in Flows : OidcStart(b, f)
  \/ \E b \in Browsers, f \in Flows, s \in Ids : OidcCallback(b, f, s)
  \/ \E b \in Browsers : BindingExpires(b) \/ Logout(b) \/ IdleTimeout(b)
  \/ \E r \in Requests, b \in Browsers, touch \in BOOLEAN : Resolve(r, b, touch)
  \/ \E r \in Requests : Refresh(r) \/ RefreshFails(r) \/ Answer(r)
  \/ Restart
  \/ Tick

Spec == Init /\ [][Next]_vars

(* Time passes.  Nobody has to sign in, ask for anything or sign out.       *)
FairSpec == Spec /\ WF_vars(Tick)

-----------------------------------------------------------------------------
(* Type correctness: sessions, cookies and requests are ones there can be.  *)
TypeOK ==
  /\ store \subseteq Ids
  /\ owner \in [Ids -> Browsers \cup {None}]
  /\ idle \in [Ids -> IdleAges]
  /\ age \in [Ids -> TicketAges]
  /\ cookie \in [Browsers -> Ids \cup {None}]
  /\ binding \in [Browsers -> Flows \cup {None}]
  /\ starter \in [Flows -> Browsers \cup {None}]
  /\ req \in [Requests -> AtWork \cup {NoRequest}]

(* The two clocks of a session work together: however requests, polls and   *)
(* refreshes interleave, a ticket nobody is refreshing is older than the    *)
(* refresh age by no more than the time the user has done nothing.  So with *)
(* an idle timeout of at most TicketLife - RefreshAge (30 and 120 - 90      *)
(* minutes by default) a session that is not idle has a ticket PVE takes.   *)
FreshWhileUsed ==
  \A s \in store : idle[s] <= IdleLimit =>
    \/ age[s] <= RefreshAge + idle[s]
    \/ \E r \in Requests : req[r].pc = "refreshing" /\ req[r].id = s

(* The session a browser ends up with is its own person's, whichever login  *)
(* path it came by and wherever an OIDC redirect landed.                    *)
OwnSession ==
  \A b \in Browsers : cookie[b] # None => owner[cookie[b]] = b

(* A session that was logged out, timed out or evicted is gone for good: no *)
(* request that held it across its refresh brings it back.                  *)
NeverResurrected ==
  [][\A s \in Ids : owner[s] # None /\ s \notin store => s \notin store']_vars

Served(s, touch) ==
  \E r \in Requests :
    /\ req[r].pc = "idle"
    /\ req'[r].id = s
    /\ req'[r].touch = touch

(* auth.py:282-287, "a tab left open on an otherwise-idle session still     *)
(* times out on schedule": polls alone are not served for ever.             *)
IdleTabTimesOut ==
  \A s \in Ids : []<><<Served(s, FALSE)>>_vars => []<><<Served(s, TRUE)>>_vars
=============================================================================
