--------------------------- MODULE SessionsProof ---------------------------
(***************************************************************************)
(* Theorems about Sessions, for any number of browsers, sessions, flows    *)
(* and requests and any three limits.                                      *)
(***************************************************************************)
EXTENDS Sessions, TLAPS

(* A flow's state is in the cookie of no browser but the one that began it. *)
FlowsAreBound ==
  \A b \in Browsers : binding[b] # None => starter[binding[b]] = b

SessionInv == TypeOK /\ FreshWhileUsed /\ OwnSession /\ FlowsAreBound

(* What the actions have in common: a login, a step of one request, time.   *)
SignIn(b, s) ==
  \/ LogIn(b, s)
  \/ \E f \in Flows : OidcCallback(b, f, s)

RequestStep(r) ==
  \/ \E b \in Browsers, touch \in BOOLEAN : Resolve(r, b, touch)
  \/ Refresh(r)
  \/ RefreshFails(r)
  \/ Answer(r)

LEMMA NextCases ==
  ASSUME [Next]_vars
  PROVE  \/ \E b \in Browsers, s \in Ids : SignIn(b, s)
         \/ \E b \in Browsers, f \in Flows : OidcStart(b, f)
         \/ \E b \in Browsers : BindingExpires(b) \/ Logout(b) \/ IdleTimeout(b)
         \/ \E r \in Requests : RequestStep(r)
         \/ Restart
         \/ Tick
         \/ UNCHANGED vars
BY DEF Next, SignIn, RequestStep

(* Ages that are zero, and ages a tick older, are ages.                     *)
LEMMA Ages ==
  /\ 0 \in IdleAges /\ 0 \in TicketAges
  /\ \A a \in IdleAges : Older(a, IdleLimit + 1) \in IdleAges
  /\ \A a \in TicketAges : Older(a, TicketLife + 1) \in TicketAges
BY AgesAssumption DEF IdleAges, TicketAges, Older

-----------------------------------------------------------------------------
(* Every step keeps every variable within its type.                         *)
LEMMA TypeStep ==
  ASSUME TypeOK, [Next]_vars
  PROVE  TypeOK'
<1> USE Ages DEF TypeOK, logins
<1>1. ASSUME NEW b \in Browsers, NEW s \in Ids, SignIn(b, s) PROVE TypeOK'
  <2>1. PICK user \in Browsers : StoreTicket(b, s, user)
    BY <1>1 DEF SignIn, LogIn, OidcCallback
  <2>2. /\ store' \subseteq Ids
        /\ owner' \in [Ids -> Browsers \cup {None}]
        /\ idle' \in [Ids -> IdleAges]
        /\ age' \in [Ids -> TicketAges]
        /\ cookie' \in [Browsers -> Ids \cup {None}]
    BY <2>1 DEF StoreTicket
  <2> QED
    BY <1>1, <2>2 DEF SignIn, LogIn, OidcCallback
<1>2. ASSUME NEW b \in Browsers, NEW f \in Flows, OidcStart(b, f) PROVE TypeOK'
  BY <1>2 DEF OidcStart
<1>3. ASSUME NEW b \in Browsers, BindingExpires(b) \/ Logout(b) \/ IdleTimeout(b)
      PROVE  TypeOK'
  BY <1>3 DEF BindingExpires, Logout, IdleTimeout
<1>4. ASSUME NEW r \in Requests, RequestStep(r) PROVE TypeOK'
  <2>1. ASSUME NEW b \in Browsers, NEW touch \in BOOLEAN, Resolve(r, b, touch) PROVE TypeOK'
    <3>1. req' \in [Requests -> AtWork \cup {NoRequest}]
      BY <2>1 DEF Resolve, AtWork
    <3> QED
      BY <2>1, <3>1 DEF Resolve
  <2>2. CASE Refresh(r)
    <3>1. req[r] \in AtWork
      BY <2>2 DEF Refresh, NoRequest
    <3>2. req' \in [Requests -> AtWork \cup {NoRequest}]
      BY <2>2, <3>1 DEF Refresh, AtWork
    <3> QED
      BY <2>2, <3>1, <3>2 DEF Refresh
  <2>3. CASE RefreshFails(r) \/ Answer(r)
    BY <2>3 DEF RefreshFails, Answer
  <2> QED
    BY <1>4, <2>1, <2>2, <2>3 DEF RequestStep
<1>5. CASE Restart
  BY <1>5 DEF Restart
<1>6. CASE Tick
  BY <1>6 DEF Tick
<1>7. CASE UNCHANGED vars
  BY <1>7 DEF vars
<1> QED
  BY <1>1, <1>2, <1>3, <1>4, <1>5, <1>6, <1>7, NextCases

-----------------------------------------------------------------------------
(* A ticket ages no faster than its session idles, and whoever resets the   *)
(* idle clock of a session with an old ticket is at work on renewing it.    *)
LEMMA FreshStep ==
  ASSUME TypeOK, FreshWhileUsed, [Next]_vars
  PROVE  FreshWhileUsed'
<1> USE DEF TypeOK, FreshWhileUsed, logins
<1>1. ASSUME NEW b \in Browsers, NEW s \in Ids, SignIn(b, s) PROVE FreshWhileUsed'
  <2>1. /\ store' = store \cup {s}
        /\ idle' = [idle EXCEPT ![s] = 0]
        /\ age' = [age EXCEPT ![s] = 0]
        /\ req' = req
    BY <1>1 DEF SignIn, LogIn, OidcCallback, StoreTicket
  <2> QED
    BY <2>1, AgesAssumption
<1>2. ASSUME NEW b \in Browsers,
             (\E f \in Flows : OidcStart(b, f)) \/ BindingExpires(b) \/ Logout(b)
               \/ IdleTimeout(b)
      PROVE  FreshWhileUsed'
  <2>1. store' \subseteq store /\ idle' = idle /\ age' = age /\ req' = req
    BY <1>2 DEF OidcStart, BindingExpires, Logout, IdleTimeout
  <2> QED
    BY <2>1
<1>3. ASSUME NEW r \in Requests, RequestStep(r) PROVE FreshWhileUsed'
  <2>1. ASSUME NEW b \in Browsers, NEW touch \in BOOLEAN, Resolve(r, b, touch)
        PROVE  FreshWhileUsed'
    <3> DEFINE s == cookie[b]
    <3>1. /\ s \in store /\ store' = store /\ age' = age
          /\ req[r].pc = "idle"
          /\ req' = [req EXCEPT ![r] =
               [pc |-> IF age[s] > RefreshAge THEN "refreshing" ELSE "admitted",
                id |-> s, touch |-> touch]]
          /\ \A t \in Ids \ {s} : idle'[t] = idle[t]
          /\ idle'[s] \in {0, idle[s]}
      BY <2>1 DEF Resolve
    <3> HIDE DEF s
    <3>2. \A q \in Requests : req[q].pc = "refreshing" => req'[q] = req[q]
      BY <3>1
    <3>3. ASSUME NEW t \in store, t # s, idle'[t] <= IdleLimit
          PROVE  \/ age'[t] <= RefreshAge + idle'[t]
                 \/ \E q \in Requests : req'[q].pc = "refreshing" /\ req'[q].id = t
      BY <3>1, <3>2, <3>3
    <3>4. CASE age[s] > RefreshAge
      BY <3>1, <3>3, <3>4
    <3>5. CASE ~(age[s] > RefreshAge)
      <4>1. age'[s] <= RefreshAge + idle'[s]
        BY <3>1, <3>5, AgesAssumption DEF IdleAges, TicketAges
      <4> QED
        BY <3>1, <3>3, <4>1
    <3> QED
      BY <3>4, <3>5
  <2>2. CASE Refresh(r)
    <3> DEFINE s == req[r].id
    <3>1. /\ store' = store /\ idle' = idle
          /\ age' = [age EXCEPT ![s] = 0]
          /\ \A q \in Requests \ {r} : req'[q] = req[q]
      BY <2>2 DEF Refresh
    <3> HIDE DEF s
    <3>2. req[r].id = s
      BY DEF s
    <3>3. ASSUME NEW t \in store, t # s, idle'[t] <= IdleLimit
          PROVE  \/ age'[t] <= RefreshAge + idle'[t]
                 \/ \E q \in Requests : req'[q].pc = "refreshing" /\ req'[q].id = t
      BY <3>1, <3>2, <3>3
    <3>4. ASSUME s \in store
          PROVE  age'[s] <= RefreshAge + idle'[s]
      BY <3>1, <3>4, AgesAssumption DEF IdleAges
    <3> QED
      BY <3>1, <3>3, <3>4
  <2>3. CASE RefreshFails(r)
    BY <2>3 DEF RefreshFails
  <2>4. CASE Answer(r)
    BY <2>4 DEF Answer
  <2> QED
    BY <1>3, <2>1, <2>2, <2>3, <2>4 DEF RequestStep
<1>4. CASE Restart
  BY <1>4 DEF Restart
<1>5. CASE Tick
  <2>1. SUFFICES ASSUME NEW s \in store, idle'[s] <= IdleLimit
                 PROVE  \/ age'[s] <= RefreshAge + idle'[s]
                        \/ \E r \in Requests : req[r].pc = "refreshing" /\ req[r].id = s
    BY <1>5 DEF Tick
  <2>2. idle'[s] = idle[s] + 1 /\ age'[s] <= age[s] + 1
    BY <1>5, <2>1, AgesAssumption DEF Tick, Held, Older, IdleAges, TicketAges
  <2>3. /\ idle[s] \in Nat /\ age[s] \in Nat /\ age'[s] \in Nat
        /\ IdleLimit \in Nat /\ RefreshAge \in Nat
    BY <1>5, <2>1, AgesAssumption DEF Tick, Held, Older, IdleAges, TicketAges
  <2>4. idle[s] <= IdleLimit
    BY <2>1, <2>2, <2>3
  <2>5. CASE age[s] <= RefreshAge + idle[s]
    BY <2>2, <2>3, <2>5
  <2> QED
    BY <2>1, <2>4, <2>5
<1>6. CASE UNCHANGED vars
  BY <1>6 DEF vars
<1> QED
  BY <1>1, <1>2, <1>3, <1>4, <1>5, <1>6, NextCases

-----------------------------------------------------------------------------
(* A session id is handed out once, to the browser whose person signed in,  *)
(* and a flow ends only where it began.                                     *)
LEMMA OwnStep ==
  ASSUME TypeOK, OwnSession, FlowsAreBound, [Next]_vars
  PROVE  (OwnSession /\ FlowsAreBound)'
<1> USE NoneAssumption DEF TypeOK, OwnSession, FlowsAreBound, logins
<1>1. ASSUME NEW b \in Browsers, NEW s \in Ids, SignIn(b, s)
      PROVE  (OwnSession /\ FlowsAreBound)'
  <2>1. /\ StoreTicket(b, s, b)
        /\ starter' = starter
        /\ \A d \in Browsers : binding'[d] \in {binding[d], None}
    BY <1>1 DEF SignIn, LogIn, OidcCallback
  <2>2. \A d \in Browsers : cookie[d] # s
    BY <2>1 DEF StoreTicket
  <2> QED
    BY <2>1, <2>2 DEF StoreTicket
<1>2. ASSUME NEW b \in Browsers, NEW f \in Flows, OidcStart(b, f)
      PROVE  (OwnSession /\ FlowsAreBound)'
  BY <1>2 DEF OidcStart
<1>3. ASSUME NEW b \in Browsers, BindingExpires(b) \/ Logout(b) \/ IdleTimeout(b)
      PROVE  (OwnSession /\ FlowsAreBound)'
  BY <1>3 DEF BindingExpires, Logout, IdleTimeout
<1>4. ASSUME NEW r \in Requests, RequestStep(r) PROVE (OwnSession /\ FlowsAreBound)'
  BY <1>4 DEF RequestStep, Resolve, Refresh, RefreshFails, Answer
<1>5. CASE Restart \/ Tick \/ UNCHANGED vars
  BY <1>5 DEF Restart, Tick, vars
<1> QED
  BY <1>1, <1>2, <1>3, <1>4, <1>5, NextCases

-----------------------------------------------------------------------------
(* The inductive invariant holds in every reachable state.                  *)
LEMMA SessionInvariance == Spec => []SessionInv
<1>1. Init => SessionInv
  <2> SUFFICES ASSUME Init PROVE SessionInv
    OBVIOUS
  <2>1. TypeOK
    BY Ages DEF Init, TypeOK
  <2> QED
    BY <2>1 DEF Init, SessionInv, FreshWhileUsed, OwnSession, FlowsAreBound
<1>2. SessionInv /\ [Next]_vars => SessionInv'
  BY TypeStep, FreshStep, OwnStep DEF SessionInv
<1> QED
  BY <1>1, <1>2, PTL DEF Spec

(* Every session, cookie and request is one there can be.                   *)
THEOREM SessionsTypeCorrect == Spec => []TypeOK
<1>1. SessionInv => TypeOK
  BY DEF SessionInv
<1> QED
  BY <1>1, SessionInvariance, PTL

(* A session that is used has a ticket no older than the refresh age plus   *)
(* the time its user has been idle, unless it is being renewed this moment, *)
(* however requests, polls, refreshes and logouts interleave.               *)
THEOREM UsedSessionsAreFresh == Spec => []FreshWhileUsed
<1>1. SessionInv => FreshWhileUsed
  BY DEF SessionInv
<1> QED
  BY <1>1, SessionInvariance, PTL

(* No browser ends up with another person's session, whichever login path   *)
(* it took and wherever the identity provider's redirect landed.            *)
THEOREM SessionsAreOwn == Spec => []OwnSession
<1>1. SessionInv => OwnSession
  BY DEF SessionInv
<1> QED
  BY <1>1, SessionInvariance, PTL

(* A session that was logged out, timed out or evicted stays gone.          *)
THEOREM GoneIsGone == Spec => NeverResurrected
<1>1. ASSUME [Next]_vars, NEW s \in Ids, owner[s] # None, s \notin store
      PROVE  s \notin store'
  <2>1. ASSUME NEW b \in Browsers, NEW t \in Ids, SignIn(b, t) PROVE s \notin store'
    BY <1>1, <2>1 DEF SignIn, LogIn, OidcCallback, StoreTicket
  <2>2. CASE store' \subseteq store
    BY <1>1, <2>2
  <2> QED
    BY <1>1, <2>1, <2>2, NextCases
       DEF OidcStart, BindingExpires, Logout, IdleTimeout, RequestStep, Resolve, Refresh,
           RefreshFails, Answer, Restart, Tick, vars
<1>2. [Next]_vars =>
        [\A s \in Ids : owner[s] # None /\ s \notin store => s \notin store']_vars
  BY <1>1
<1> QED
  BY <1>2, PTL DEF Spec, NeverResurrected
=============================================================================
