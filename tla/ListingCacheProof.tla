------------------------- MODULE ListingCacheProof -------------------------
(***************************************************************************)
(* Theorems about ListingCache, for any number of users, volumes, calls,   *)
(* pages and fetches and any cap.                                          *)
(***************************************************************************)
EXTENDS ListingCache, FiniteSetTheorems, SequenceTheorems, TLAPS

Alive(t) == fetch[t].pc # "none"

(* A row holds what PVE listed for its own user.                            *)
RowsAreOwn == \A k \in Keys : row[k] \in {k[1], None}

(* A task at work is the one registered for its key, and lists for the user *)
(* of that key; what is registered is a task at work.                       *)
Registered ==
  /\ \A t \in Fetches : Alive(t) =>
       /\ inflight[fetch[t].key] = t
       /\ fetch[t].user = fetch[t].key[1]
       /\ fetch[t].got \in {fetch[t].user, None}
  /\ \A k \in Keys : inflight[k] # None =>
       Alive(inflight[k]) /\ fetch[inflight[k]].key = k

(* The semaphore's waiters are tasks not served yet, each of them once.     *)
QueueFits ==
  /\ \A i \in 1..Len(queue) : fetch[queue[i]].pc = "queued"
  /\ \A i, j \in 1..Len(queue) : queue[i] = queue[j] => i = j

(* A call finds its own user's listing or waits for a task that is alive    *)
(* and lists for its user.                                                  *)
CallsAreOwn ==
  \A c \in Callers :
    /\ call[c].pc = "looked" => call[c].got \in {UserOf[c], None}
    /\ call[c].pc = "waiting" =>
         Alive(call[c].on) /\ fetch[call[c].on].key[1] = UserOf[c]

CapKept == Cardinality(Asking) <= Cap

CacheInv ==
  /\ TypeOK
  /\ RowsAreOwn
  /\ Registered
  /\ QueueFits
  /\ CallsAreOwn
  /\ CapKept

-----------------------------------------------------------------------------
(* The steps, by what they touch.                                           *)
GrantStep == \E u \in Users, v \in Volumes : Grant(u, v) \/ Revoke(u, v)

PageStep(p) ==
  \/ Open(p) \/ Evict(p) \/ KeepRows(p)
  \/ \E v \in Volumes : ReadStorage(p, v) \/ StorageFails(p, v)

LookStep(c) == (\E v \in Volumes : Call(c, v)) \/ Hit(c) \/ Join(c) \/ Cancel(c)

LEMMA NextCases ==
  ASSUME [Next]_vars
  PROVE  \/ GrantStep
         \/ \E p \in Pages : PageStep(p)
         \/ \E c \in Callers : LookStep(c) \/ Begin(c)
         \/ \E t \in Fetches : FetchStep(t)
         \/ UNCHANGED vars
BY DEF Next, GrantStep, PageStep, LookStep, CallStep

LEMMA KeyFacts ==
  /\ \A c \in Callers : UserOf[c] \in Users
  /\ \A p \in Pages : UserOf[p] \in Users
  /\ \A u \in Users, v \in Volumes : Key(u, v) \in Keys /\ Key(u, v)[1] = u
  /\ \A k \in Keys : k[1] \in Users /\ k[2] \in Volumes
BY UserAssumption DEF Key, Keys

(* The slot Begin picks is a free one.                                      *)
LEMMA FreeSlot ==
  ASSUME \E x \in Fetches : fetch[x].pc = "none"
  PROVE  LET t == CHOOSE x \in Fetches : fetch[x].pc = "none"
         IN  t \in Fetches /\ fetch[t].pc = "none"
OBVIOUS

(* Begin, with its slot and its volume named.                               *)
BeginAs(c, t, v) ==
  /\ fetch[t].pc = "none"
  /\ v = call[c].volume
  /\ inflight[<<UserOf[c], v>>] = None
  /\ fetch' = [fetch EXCEPT ![t] =
       [pc |-> "queued", key |-> <<UserOf[c], v>>, user |-> UserOf[c], got |-> None]]
  /\ inflight' = [inflight EXCEPT ![<<UserOf[c], v>>] = t]
  /\ queue' = Append(queue, t)
  /\ call' = [call EXCEPT ![c] = [pc |-> "waiting", volume |-> v, on |-> t]]
  /\ UNCHANGED <<granted, row, page>>

LEMMA BeginFacts ==
  ASSUME TypeOK, NEW c \in Callers, Begin(c)
  PROVE  \E t \in Fetches, v \in Volumes : BeginAs(c, t, v)
<1> DEFINE t == CHOOSE x \in Fetches : fetch[x].pc = "none"
<1>1. t \in Fetches /\ fetch[t].pc = "none"
  BY FreeSlot DEF Begin
<1>2. call[c].volume \in Volumes
  BY DEF Begin, TypeOK, CallStates, NoCall
<1>3. /\ inflight[<<UserOf[c], call[c].volume>>] = None
      /\ fetch' = [fetch EXCEPT ![t] =
           [pc |-> "queued", key |-> <<UserOf[c], call[c].volume>>, user |-> UserOf[c],
            got |-> None]]
      /\ inflight' = [inflight EXCEPT ![<<UserOf[c], call[c].volume>>] = t]
      /\ queue' = Append(queue, t)
      /\ call' = [call EXCEPT ![c] =
           [pc |-> "waiting", volume |-> call[c].volume, on |-> t]]
      /\ UNCHANGED <<granted, row, page>>
  BY DEF Begin, Key, Wait, TypeOK
<1> HIDE DEF t
<1>4. BeginAs(c, t, call[c].volume)
  BY <1>1, <1>3 DEF BeginAs
<1> QED
  BY <1>1, <1>2, <1>4

-----------------------------------------------------------------------------
(* A task at work is a record of one, and so is what a step makes of it.    *)
LEMMA FetchRecords ==
  ASSUME TypeOK, NEW t \in Fetches, Alive(t)
  PROVE  /\ fetch[t] \in FetchStates
         /\ fetch[t].key \in Keys /\ fetch[t].user \in Users
         /\ \A p \in {"queued", "asking", "storing", "done"}, u \in Users \cup {None} :
              /\ [fetch[t] EXCEPT !.pc = p] \in FetchStates
              /\ [fetch[t] EXCEPT !.pc = p, !.got = u] \in FetchStates
<1>1. fetch[t] \in FetchStates
  BY DEF TypeOK, Alive, NoFetch
<1>2. ASSUME NEW p \in {"queued", "asking", "storing", "done"}
      PROVE  [fetch[t] EXCEPT !.pc = p] \in FetchStates
  BY <1>1 DEF FetchStates
<1>3. ASSUME NEW p \in {"queued", "asking", "storing", "done"},
             NEW u \in Users \cup {None}
      PROVE  [fetch[t] EXCEPT !.pc = p, !.got = u] \in FetchStates
  BY <1>1 DEF FetchStates
<1> QED
  BY <1>1, <1>2, <1>3 DEF FetchStates

(* The task at the head of the queue has not been served.                   *)
LEMMA QueuedHead ==
  ASSUME TypeOK, QueueFits, queue # <<>>
  PROVE  fetch[Head(queue)].pc = "queued" /\ Head(queue) = queue[1]
<1>1. 1 \in 1..Len(queue) /\ Head(queue) = queue[1]
  BY EmptySeq, HeadTailProperties DEF TypeOK
<1> QED
  BY <1>1 DEF QueueFits

LEMMA PageRecords ==
  ASSUME TypeOK, NEW p \in Pages, page[p].pc = "listing", NEW v \in Volumes
  PROVE  /\ page[p] \in PageStates
         /\ [page[p] EXCEPT !.lapsed = @ \cup {v}] \in PageStates
         /\ [page[p] EXCEPT !.left = @ \ {v}, !.seen = @ \cup {v}] \in PageStates
         /\ [page[p] EXCEPT !.left = @ \ {v}, !.seen = @] \in PageStates
         /\ [page[p] EXCEPT !.left = @ \ {v}, !.error = TRUE] \in PageStates
<1>1. page[p] \in PageStates
  BY DEF TypeOK, NoPage
<1>2. [page[p] EXCEPT !.lapsed = @ \cup {v}] \in PageStates
  BY <1>1 DEF PageStates
<1>3. /\ [page[p] EXCEPT !.left = @ \ {v}, !.seen = @ \cup {v}] \in PageStates
      /\ [page[p] EXCEPT !.left = @ \ {v}, !.seen = @] \in PageStates
  BY <1>1 DEF PageStates
<1>4. [page[p] EXCEPT !.left = @ \ {v}, !.error = TRUE] \in PageStates
  BY <1>1 DEF PageStates
<1> QED
  BY <1>1, <1>2, <1>3, <1>4

(* Every step keeps every variable within its type.                         *)
LEMMA TypeStep ==
  ASSUME TypeOK, QueueFits, [Next]_vars
  PROVE  TypeOK'
<1> USE KeyFacts
<1>1. CASE GrantStep
  <2>1. ASSUME NEW u \in Users, NEW v \in Volumes, Grant(u, v) PROVE TypeOK'
    BY <2>1 DEF Grant, TypeOK, Keys
  <2>2. ASSUME NEW u \in Users, NEW v \in Volumes, Revoke(u, v) PROVE TypeOK'
    <3>1. \A p \in Pages : page[p].pc = "listing" =>
            [page[p] EXCEPT !.lapsed = @ \cup {v}] \in PageStates
      BY PageRecords
    <3>2. page' \in [Pages -> PageStates \cup {NoPage}]
      BY <2>2, <3>1 DEF Revoke, TypeOK
    <3> QED
      BY <2>2, <3>2 DEF Revoke, TypeOK
  <2> QED
    BY <1>1, <2>1, <2>2 DEF GrantStep
<1>2. ASSUME NEW p \in Pages, PageStep(p) PROVE TypeOK'
  <2>1. CASE Open(p)
    BY <2>1 DEF Open, TypeOK, PageStates
  <2>2. CASE Evict(p) \/ KeepRows(p)
    BY <2>2 DEF Evict, KeepRows, TypeOK
  <2>3. ASSUME NEW v \in Volumes, ReadStorage(p, v) PROVE TypeOK'
    <3>1. PICK r \in PageStates : page' = [page EXCEPT ![p] = r]
      <4>1. CASE <<UserOf[p], v>> \in granted
        <5>1. page' = [page EXCEPT ![p] =
                [page[p] EXCEPT !.left = @ \ {v}, !.seen = @ \cup {v}]]
          BY <2>3, <4>1 DEF ReadStorage, TypeOK
        <5> QED
          BY <2>3, <5>1, PageRecords DEF ReadStorage
      <4>2. CASE <<UserOf[p], v>> \notin granted
        <5>1. page' = [page EXCEPT ![p] = [page[p] EXCEPT !.left = @ \ {v}, !.seen = @]]
          BY <2>3, <4>2 DEF ReadStorage, TypeOK
        <5> QED
          BY <2>3, <5>1, PageRecords DEF ReadStorage
      <4> QED
        BY <4>1, <4>2
    <3> QED
      BY <2>3, <3>1 DEF ReadStorage, TypeOK
  <2>4. ASSUME NEW v \in Volumes, StorageFails(p, v) PROVE TypeOK'
    <3>1. PICK r \in PageStates : page' = [page EXCEPT ![p] = r]
      <4>1. page' = [page EXCEPT ![p] = [page[p] EXCEPT !.left = @ \ {v}, !.error = TRUE]]
        BY <2>4 DEF StorageFails, TypeOK
      <4> QED
        BY <2>4, <4>1, PageRecords DEF StorageFails
    <3> QED
      BY <2>4, <3>1 DEF StorageFails, TypeOK
  <2> QED
    BY <1>2, <2>1, <2>2, <2>3, <2>4 DEF PageStep
<1>3. ASSUME NEW c \in Callers, LookStep(c) PROVE TypeOK'
  <2>1. ASSUME NEW v \in Volumes, Call(c, v) PROVE TypeOK'
    <3>1. row[Key(UserOf[c], v)] \in Users \cup {None}
      BY DEF TypeOK
    <3> QED
      BY <2>1, <3>1 DEF Call, TypeOK, CallStates
  <2>2. CASE Hit(c) \/ Cancel(c)
    BY <2>2 DEF Hit, Cancel, TypeOK
  <2>3. CASE Join(c)
    <3>1. call[c].volume \in Volumes
      BY <2>3 DEF Join, TypeOK, CallStates, NoCall
    <3>2. inflight[Key(UserOf[c], call[c].volume)] \in Fetches
      BY <2>3, <3>1 DEF Join, TypeOK
    <3>3. call' \in [Callers -> CallStates \cup {NoCall}]
      BY <2>3, <3>1, <3>2 DEF Join, Wait, TypeOK, CallStates
    <3> QED
      BY <2>3, <3>3 DEF Join, TypeOK
  <2> QED
    BY <1>3, <2>1, <2>2, <2>3 DEF LookStep
<1>4. ASSUME NEW c \in Callers, Begin(c) PROVE TypeOK'
  <2>0. PICK t \in Fetches, v \in Volumes : BeginAs(c, t, v)
    BY <1>4, BeginFacts
  <2>1. /\ fetch' = [fetch EXCEPT ![t] =
              [pc |-> "queued", key |-> <<UserOf[c], v>>, user |-> UserOf[c], got |-> None]]
         /\ inflight' = [inflight EXCEPT ![<<UserOf[c], v>>] = t]
         /\ queue' = Append(queue, t)
         /\ call' = [call EXCEPT ![c] = [pc |-> "waiting", volume |-> v, on |-> t]]
         /\ UNCHANGED <<granted, row, page>>
    BY <2>0 DEF BeginAs
  <2>2. <<UserOf[c], v>> \in Keys
    BY DEF Keys
  <2>3. fetch' \in [Fetches -> FetchStates \cup {NoFetch}]
    BY <2>1, <2>2 DEF TypeOK, FetchStates
  <2>4. call' \in [Callers -> CallStates \cup {NoCall}]
    BY <2>1 DEF TypeOK, CallStates
  <2>5. queue' \in Seq(Fetches) /\ inflight' \in [Keys -> Fetches \cup {None}]
    BY <2>1, <2>2 DEF TypeOK
  <2> QED
    BY <2>1, <2>3, <2>4, <2>5 DEF TypeOK
<1>5. ASSUME NEW t \in Fetches, FetchStep(t) PROVE TypeOK'
  <2>1. CASE Ask(t)
    <3>1. queue' \in Seq(Fetches)
      BY <2>1, HeadTailProperties DEF Ask, TypeOK
    <3>2. Alive(t)
      BY <2>1, QueuedHead DEF Ask, Alive
    <3>3. fetch' \in [Fetches -> FetchStates \cup {NoFetch}]
      BY <2>1, <3>2, FetchRecords DEF Ask, TypeOK
    <3> QED
      BY <2>1, <3>1, <3>3 DEF Ask, TypeOK
  <2>2. CASE Listed(t)
    <3>1. fetch' \in [Fetches -> FetchStates \cup {NoFetch}]
      BY <2>2, FetchRecords DEF Listed, TypeOK, Alive
    <3> QED
      BY <2>2, <3>1 DEF Listed, TypeOK
  <2>3. CASE ListFails(t)
    <3>1. fetch' \in [Fetches -> FetchStates \cup {NoFetch}]
      BY <2>3, FetchRecords DEF ListFails, TypeOK, Alive
    <3> QED
      BY <2>3, <3>1 DEF ListFails, TypeOK
  <2>4. CASE Store(t)
    <3>1. fetch' \in [Fetches -> FetchStates \cup {NoFetch}]
      BY <2>4, FetchRecords DEF Store, TypeOK, Alive
    <3>2. fetch[t] \in FetchStates
      BY <2>4, FetchRecords DEF Store, Alive
    <3>3. row' \in [Keys -> Users \cup {None}]
      BY <2>4, <3>2 DEF Store, TypeOK, FetchStates
    <3> QED
      BY <2>4, <3>1, <3>3 DEF Store, TypeOK
  <2>5. CASE StoreFails(t)
    <3>1. fetch' \in [Fetches -> FetchStates \cup {NoFetch}]
      BY <2>5, FetchRecords DEF StoreFails, TypeOK, Alive
    <3> QED
      BY <2>5, <3>1 DEF StoreFails, TypeOK
  <2>6. CASE Finish(t)
    BY <2>6 DEF Finish, TypeOK
  <2> QED
    BY <1>5, <2>1, <2>2, <2>3, <2>4, <2>5, <2>6 DEF FetchStep
<1>6. CASE UNCHANGED vars
  BY <1>6 DEF vars, TypeOK
<1> QED
  BY <1>1, <1>2, <1>3, <1>4, <1>5, <1>6, NextCases

(* What a call waits for is a task.                                         *)
LEMMA WaitedFor ==
  ASSUME TypeOK, NEW c \in Callers, call[c].pc = "waiting"
  PROVE  call[c].on \in Fetches
BY DEF TypeOK, CallStates, NoCall

-----------------------------------------------------------------------------
Moves(t) == Ask(t) \/ Listed(t) \/ ListFails(t) \/ Store(t) \/ StoreFails(t)

(* Until its callbacks run, a task keeps its key and its user, and nobody   *)
(* else's task is touched.                                                  *)
LEMMA MoveFacts ==
  ASSUME TypeOK, QueueFits, NEW t \in Fetches, Moves(t)
  PROVE  /\ Alive(t)
         /\ UNCHANGED <<inflight, call>>
         /\ \A s \in Fetches \ {t} : fetch'[s] = fetch[s]
         /\ fetch'[t].pc # "none"
         /\ fetch'[t].key = fetch[t].key
         /\ fetch'[t].user = fetch[t].user
         /\ fetch'[t].got \in {fetch[t].got, fetch[t].user, None}
<1>1. Alive(t)
  BY QueuedHead DEF Moves, Ask, Listed, ListFails, Store, StoreFails, Alive
<1>2. fetch[t] \in FetchStates
  BY <1>1, FetchRecords
<1>3. /\ UNCHANGED <<inflight, call>>
      /\ \A s \in Fetches \ {t} : fetch'[s] = fetch[s]
  BY DEF Moves, Ask, Listed, ListFails, Store, StoreFails, TypeOK
<1>4. \/ \E p \in {"asking", "done"} : fetch'[t] = [fetch[t] EXCEPT !.pc = p]
      \/ \E p \in {"storing", "done"}, g \in {fetch[t].user, None} :
           fetch'[t] = [fetch[t] EXCEPT !.pc = p, !.got = g]
  BY DEF Moves, Ask, Listed, ListFails, Store, StoreFails, TypeOK
<1>5. /\ fetch'[t].pc # "none"
      /\ fetch'[t].key = fetch[t].key
      /\ fetch'[t].user = fetch[t].user
      /\ fetch'[t].got \in {fetch[t].got, fetch[t].user, None}
  <2>1. CASE \E p \in {"asking", "done"} : fetch'[t] = [fetch[t] EXCEPT !.pc = p]
    BY <1>2, <2>1 DEF FetchStates
  <2>2. CASE \E p \in {"storing", "done"}, g \in {fetch[t].user, None} :
               fetch'[t] = [fetch[t] EXCEPT !.pc = p, !.got = g]
    BY <1>2, <2>2 DEF FetchStates
  <2> QED
    BY <1>4, <2>1, <2>2
<1> QED
  BY <1>1, <1>3, <1>5

(* No step writes a row that PVE gave to another user.                      *)
LEMMA RowsStep ==
  ASSUME TypeOK, RowsAreOwn, Registered, [Next]_vars
  PROVE  RowsAreOwn'
<1>1. CASE row' = row
  BY <1>1 DEF RowsAreOwn
<1>2. ASSUME NEW t \in Fetches, Store(t) PROVE RowsAreOwn'
  <2>1. /\ fetch[t].key \in Keys
        /\ row' = [row EXCEPT ![fetch[t].key] = fetch[t].got]
        /\ fetch[t].got \in {fetch[t].key[1], None}
    BY <1>2, FetchRecords DEF Store, Registered, Alive
  <2> QED
    BY <2>1 DEF RowsAreOwn, TypeOK
<1>3. ASSUME NEW p \in Pages, Evict(p) PROVE RowsAreOwn'
  BY <1>3 DEF Evict, RowsAreOwn, TypeOK
<1>4. \/ row' = row
      \/ \E t \in Fetches : Store(t)
      \/ \E p \in Pages : Evict(p)
  BY DEF Next, Grant, Revoke, Call, CallStep, Hit, Join, Begin, Cancel, FetchStep, Ask, Listed,
         ListFails, StoreFails, Finish, ReadStorage, StorageFails, Open, KeepRows, vars
<1> QED
  BY <1>1, <1>2, <1>3, <1>4

(* Tasks and the dictionary of calls in flight stay in step.                *)
LEMMA RegisteredStep ==
  ASSUME TypeOK, Registered, QueueFits, [Next]_vars
  PROVE  Registered'
<1>1. CASE UNCHANGED <<inflight, fetch>>
  BY <1>1 DEF Registered, Alive
<1>2. ASSUME NEW c \in Callers, Begin(c) PROVE Registered'
  <2>0. PICK t \in Fetches, v \in Volumes : BeginAs(c, t, v)
    BY <1>2, BeginFacts
  <2>1. /\ fetch[t].pc = "none"
        /\ inflight[<<UserOf[c], v>>] = None
        /\ fetch' = [fetch EXCEPT ![t] =
             [pc |-> "queued", key |-> <<UserOf[c], v>>, user |-> UserOf[c], got |-> None]]
        /\ inflight' = [inflight EXCEPT ![<<UserOf[c], v>>] = t]
    BY <2>0 DEF BeginAs
  <2> DEFINE k == <<UserOf[c], v>>
  <2>2. k \in Keys /\ k[1] = UserOf[c]
    BY KeyFacts DEF Keys
  <2> HIDE DEF k
  <2>3. /\ fetch'[t] = [pc |-> "queued", key |-> k, user |-> UserOf[c], got |-> None]
        /\ inflight'[k] = t
        /\ \A s \in Fetches \ {t} : fetch'[s] = fetch[s]
        /\ \A l \in Keys \ {k} : inflight'[l] = inflight[l]
    BY <2>1, <2>2 DEF TypeOK, k
  <2>4. \A s \in Fetches \ {t} : Alive(s) => fetch[s].key \in Keys \ {k}
    <3>1. inflight[k] = None
      BY <2>1 DEF k
    <3> SUFFICES ASSUME NEW s \in Fetches, Alive(s)
                 PROVE  fetch[s].key \in Keys \ {k}
      OBVIOUS
    <3>2. fetch[s].key \in Keys /\ inflight[fetch[s].key] = s
      BY FetchRecords DEF Registered
    <3> QED
      BY <3>1, <3>2, NoneAssumption
  <2>5. \A l \in Keys \ {k} : inflight[l] # t
    BY <2>1, NoneAssumption DEF Registered, Alive
  <2>6. \A s \in Fetches : Alive(s)' =>
          /\ inflight'[fetch'[s].key] = s
          /\ fetch'[s].user = fetch'[s].key[1]
          /\ fetch'[s].got \in {fetch'[s].user, None}
    BY <2>2, <2>3, <2>4 DEF Registered, Alive
  <2>7. \A l \in Keys : inflight'[l] # None =>
          Alive(inflight[l])' /\ fetch'[inflight'[l]].key = l
    <3>1. ASSUME NEW l \in Keys \ {k}, inflight'[l] # None
          PROVE  Alive(inflight[l])' /\ fetch'[inflight'[l]].key = l
      <4>1. inflight[l] \in Fetches \ {t}
        BY <2>3, <2>5, <3>1 DEF TypeOK
      <4> QED
        BY <2>3, <3>1, <4>1 DEF Registered, Alive
    <3>2. Alive(inflight[k])' /\ fetch'[inflight'[k]].key = k
      BY <2>3 DEF Alive
    <3> QED
      BY <3>1, <3>2
  <2> QED
    BY <2>6, <2>7 DEF Registered
<1>3. ASSUME NEW t \in Fetches, Moves(t) PROVE Registered'
  <2>1. \A s \in Fetches : Alive(s)' =>
          /\ Alive(s)
          /\ fetch'[s].key = fetch[s].key
          /\ fetch'[s].user = fetch[s].user
          /\ fetch'[s].got \in {fetch[s].got, fetch[s].user, None}
    BY <1>3, MoveFacts DEF Alive
  <2>2. \A s \in Fetches : Alive(s) => Alive(s)' /\ fetch'[s].key = fetch[s].key
    BY <1>3, MoveFacts DEF Alive
  <2>3. inflight' = inflight /\ \A k \in Keys : inflight[k] \in Fetches \cup {None}
    BY <1>3, MoveFacts DEF TypeOK
  <2> QED
    BY <2>1, <2>2, <2>3 DEF Registered, Alive
<1>4. ASSUME NEW t \in Fetches, Finish(t) PROVE Registered'
  <2> DEFINE k == fetch[t].key
  <2>1. Alive(t) /\ k \in Keys /\ inflight[k] = t
    BY <1>4, FetchRecords DEF Finish, Registered, Alive
  <2> HIDE DEF k
  <2>2. /\ inflight' = [inflight EXCEPT ![k] = None]
        /\ fetch' = [fetch EXCEPT ![t] = NoFetch]
    BY <1>4, <2>1 DEF Finish, k
  <2>3. \A s \in Fetches \ {t} : Alive(s) => fetch[s].key # k
    BY <2>1 DEF Registered, k
  <2>4. \A l \in Keys \ {k} : inflight[l] # t
    BY <2>1, NoneAssumption DEF Registered, k
  <2>5. ~Alive(t)' /\ \A s \in Fetches \ {t} : fetch'[s] = fetch[s]
    BY <2>2 DEF TypeOK, Alive, NoFetch
  <2>6. \A l \in Keys : inflight'[l] # None => l # k /\ inflight'[l] = inflight[l]
    BY <2>1, <2>2 DEF TypeOK
  <2>7. \A s \in Fetches : Alive(s)' => s # t /\ inflight'[fetch[s].key] = inflight[fetch[s].key]
    BY <2>2, <2>3, <2>5 DEF TypeOK, Alive
  <2>8. \A l \in Keys : inflight[l] \in Fetches \cup {None}
    BY DEF TypeOK
  <2> QED
    BY <2>4, <2>5, <2>6, <2>7, <2>8 DEF Registered, Alive
<1>5. \/ UNCHANGED <<inflight, fetch>>
      \/ \E c \in Callers : Begin(c)
      \/ \E t \in Fetches : Moves(t) \/ Finish(t)
  BY DEF Next, Grant, Revoke, Call, CallStep, Hit, Join, Cancel, FetchStep, Moves,
         ReadStorage, StorageFails, Open, Evict, KeepRows, vars
<1> QED
  BY <1>1, <1>2, <1>3, <1>4, <1>5

(* The queue gains tasks at its end and loses the one that is served.       *)
LEMMA QueueStep ==
  ASSUME TypeOK, QueueFits, [Next]_vars
  PROVE  QueueFits'
<1> USE DEF QueueFits
<1>1. CASE UNCHANGED <<queue, fetch>>
  BY <1>1
<1>2. ASSUME NEW c \in Callers, Begin(c) PROVE QueueFits'
  <2>0. PICK t \in Fetches, v \in Volumes : BeginAs(c, t, v)
    BY <1>2, BeginFacts
  <2>1. /\ fetch[t].pc = "none"
        /\ fetch' = [fetch EXCEPT ![t] =
             [pc |-> "queued", key |-> <<UserOf[c], v>>, user |-> UserOf[c], got |-> None]]
        /\ queue' = Append(queue, t)
    BY <2>0 DEF BeginAs
  <2>2. /\ Len(queue') = Len(queue) + 1
        /\ \A i \in 1..Len(queue) : queue'[i] = queue[i]
        /\ queue'[Len(queue) + 1] = t
        /\ Len(queue) \in Nat
    BY <2>1, AppendProperties, LenProperties DEF TypeOK
  <2>3. fetch'[t].pc = "queued" /\ \A s \in Fetches \ {t} : fetch'[s] = fetch[s]
    BY <2>1 DEF TypeOK
  <2>4. \A i \in 1..Len(queue) : queue[i] \in Fetches \ {t}
    BY <2>1, ElementOfSeq DEF TypeOK
  <2>5. \A i \in 1..Len(queue') : i \in 1..Len(queue) \/ i = Len(queue) + 1
    BY <2>2
  <2> QED
    BY <2>2, <2>3, <2>4, <2>5
<1>3. ASSUME NEW t \in Fetches, Ask(t) PROVE QueueFits'
  <2>1. queue # <<>> /\ t = queue[1] /\ queue' = Tail(queue)
    BY <1>3, QueuedHead DEF Ask
  <2>2. /\ Len(queue') = Len(queue) - 1
        /\ \A i \in 1..Len(queue') : queue'[i] = queue[i + 1]
        /\ Len(queue) \in Nat \ {0}
    BY <2>1, HeadTailProperties, EmptySeq, LenProperties DEF TypeOK
  <2>3. \A i \in 1..Len(queue') : i + 1 \in 1..Len(queue) /\ 1 \in 1..Len(queue) /\ i + 1 # 1
    BY <2>2
  <2>4. \A i \in 1..Len(queue') : queue'[i] \in Fetches \ {t}
    BY <2>1, <2>2, <2>3, ElementOfSeq DEF TypeOK
  <2>5. \A s \in Fetches \ {t} : fetch'[s] = fetch[s]
    BY <1>3 DEF Ask, TypeOK
  <2>6. \A i \in 1..Len(queue') : fetch'[queue'[i]].pc = "queued"
    BY <2>2, <2>3, <2>4, <2>5
  <2>7. ASSUME NEW i \in 1..Len(queue'), NEW j \in 1..Len(queue'), queue'[i] = queue'[j]
        PROVE  i = j
    <3>1. i + 1 = j + 1
      BY <2>2, <2>3, <2>7
    <3> QED
      BY <3>1, <2>2
  <2> QED
    BY <2>6, <2>7
<1>4. ASSUME NEW t \in Fetches, queue' = queue, fetch[t].pc # "queued",
             \A s \in Fetches \ {t} : fetch'[s] = fetch[s]
      PROVE  QueueFits'
  <2>1. \A i \in 1..Len(queue) : queue[i] \in Fetches \ {t}
    BY <1>4, ElementOfSeq DEF TypeOK
  <2> QED
    BY <1>4, <2>1
<1>5. ASSUME NEW t \in Fetches,
             Listed(t) \/ ListFails(t) \/ Store(t) \/ StoreFails(t) \/ Finish(t)
      PROVE  QueueFits'
  <2>1. /\ queue' = queue
        /\ fetch[t].pc # "queued"
        /\ \A s \in Fetches \ {t} : fetch'[s] = fetch[s]
    BY <1>5 DEF Listed, ListFails, Store, StoreFails, Finish, TypeOK
  <2> QED
    BY <1>4, <2>1
<1>6. \/ UNCHANGED <<queue, fetch>>
      \/ \E c \in Callers : Begin(c)
      \/ \E t \in Fetches : FetchStep(t)
  BY DEF Next, Grant, Revoke, Call, CallStep, Hit, Join, Cancel, ReadStorage, StorageFails,
         Open, Evict, KeepRows, vars
<1> QED
  BY <1>1, <1>2, <1>3, <1>5, <1>6 DEF FetchStep

(* A call waits only for its own user's task, which is forgotten only when  *)
(* the call has been answered.                                              *)
LEMMA CallsStep ==
  ASSUME TypeOK, RowsAreOwn, Registered, QueueFits, CallsAreOwn, [Next]_vars
  PROVE  CallsAreOwn'
<1> USE DEF CallsAreOwn
<1>1. CASE UNCHANGED <<call, fetch>>
  BY <1>1 DEF Alive
<1>2. ASSUME NEW c \in Callers, LookStep(c) PROVE CallsAreOwn'
  <2>1. fetch' = fetch /\ \A d \in Callers \ {c} : call'[d] = call[d]
    BY <1>2 DEF LookStep, Call, Hit, Join, Wait, Cancel, TypeOK
  <2>2. SUFFICES /\ call'[c].pc = "looked" => call'[c].got \in {UserOf[c], None}
                 /\ call'[c].pc = "waiting" =>
                      Alive(call'[c].on) /\ fetch[call'[c].on].key[1] = UserOf[c]
    BY <2>1 DEF Alive
  <2>3. ASSUME NEW v \in Volumes, Call(c, v)
        PROVE  call'[c].pc = "looked" /\ call'[c].got \in {UserOf[c], None}
    BY <2>3, KeyFacts DEF Call, RowsAreOwn, TypeOK
  <2>4. CASE Hit(c) \/ Cancel(c)
    BY <2>4 DEF Hit, Cancel, NoCall, TypeOK
  <2>5. CASE Join(c)
    <3> DEFINE k == Key(UserOf[c], call[c].volume)
    <3>1. call[c].volume \in Volumes
      BY <2>5 DEF Join, TypeOK, CallStates, NoCall
    <3>2. k \in Keys /\ k[1] = UserOf[c]
      BY <3>1, KeyFacts
    <3>3. inflight[k] # None /\ call'[c].pc = "waiting" /\ call'[c].on = inflight[k]
      BY <2>5 DEF Join, Wait, TypeOK
    <3> HIDE DEF k
    <3> QED
      BY <3>2, <3>3 DEF Registered
  <2> QED
    BY <1>2, <2>3, <2>4, <2>5 DEF LookStep
<1>3. ASSUME NEW c \in Callers, Begin(c) PROVE CallsAreOwn'
  <2>0. PICK t \in Fetches, v \in Volumes : BeginAs(c, t, v)
    BY <1>3, BeginFacts
  <2>1. /\ fetch[t].pc = "none"
        /\ fetch' = [fetch EXCEPT ![t] =
             [pc |-> "queued", key |-> <<UserOf[c], v>>, user |-> UserOf[c], got |-> None]]
        /\ call' = [call EXCEPT ![c] = [pc |-> "waiting", volume |-> v, on |-> t]]
    BY <2>0 DEF BeginAs
  <2>2. /\ call'[c] = [pc |-> "waiting", volume |-> v, on |-> t]
        /\ \A d \in Callers \ {c} : call'[d] = call[d]
        /\ fetch'[t] = [pc |-> "queued", key |-> <<UserOf[c], v>>, user |-> UserOf[c],
                        got |-> None]
        /\ \A s \in Fetches \ {t} : fetch'[s] = fetch[s]
    BY <2>1 DEF TypeOK
  <2>3. \A d \in Callers : call[d].pc = "waiting" => call[d].on \in Fetches \ {t}
    <3>1. ASSUME NEW d \in Callers, call[d].pc = "waiting" PROVE Alive(call[d].on)
      BY <3>1
    <3> QED
      BY <2>1, <3>1, WaitedFor DEF Alive
  <2> QED
    BY <2>2, <2>3 DEF Alive
<1>4. ASSUME NEW t \in Fetches, Moves(t) PROVE CallsAreOwn'
  <2>1. /\ call' = call
        /\ \A s \in Fetches : Alive(s) => Alive(s)' /\ fetch'[s].key = fetch[s].key
    BY <1>4, MoveFacts DEF Alive
  <2>2. \A d \in Callers : call[d].pc = "waiting" => call[d].on \in Fetches
    BY WaitedFor
  <2> QED
    BY <2>1, <2>2 DEF Alive
<1>5. ASSUME NEW t \in Fetches, Finish(t) PROVE CallsAreOwn'
  <2>1. /\ \A s \in Fetches \ {t} : fetch'[s] = fetch[s]
        /\ \A d \in Callers :
             \/ call'[d] = NoCall
             \/ call'[d] = call[d] /\ ~(call[d].pc = "waiting" /\ call[d].on = t)
    BY <1>5 DEF Finish, TypeOK
  <2>2. \A d \in Callers : call[d].pc = "waiting" => call[d].on \in Fetches
    BY WaitedFor
  <2> QED
    BY <2>1, <2>2 DEF Alive, NoCall
<1>6. \/ UNCHANGED <<call, fetch>>
      \/ \E c \in Callers : LookStep(c) \/ Begin(c)
      \/ \E t \in Fetches : Moves(t) \/ Finish(t)
  BY DEF Next, Grant, Revoke, CallStep, LookStep, FetchStep, Moves, ReadStorage, StorageFails,
         Open, Evict, KeepRows, vars
<1> QED
  BY <1>1, <1>2, <1>3, <1>4, <1>5, <1>6

(* Only the semaphore starts a call to PVE, and only below the cap.         *)
LEMMA CapStep ==
  ASSUME TypeOK, CapKept, [Next]_vars
  PROVE  CapKept'
<1> USE DEF CapKept
<1>1. IsFiniteSet(Asking) /\ Cardinality(Asking) \in Nat
  BY FetchesAssumption, FS_Subset, FS_CardinalityType DEF Asking
<1>2. CASE Asking' \subseteq Asking
  BY <1>1, <1>2, FS_Subset, CapAssumption, FS_CardinalityType
<1>3. ASSUME NEW t \in Fetches, Ask(t) PROVE CapKept'
  <2>1. Asking' \subseteq Asking \cup {t} /\ Cardinality(Asking) < Cap
    BY <1>3 DEF Ask, Asking, TypeOK
  <2>2. /\ IsFiniteSet(Asking \cup {t})
        /\ Cardinality(Asking \cup {t}) <= Cardinality(Asking) + 1
        /\ Cardinality(Asking \cup {t}) \in Nat
    BY <1>1, FS_AddElement, FS_CardinalityType
  <2>3. Cardinality(Asking') <= Cardinality(Asking \cup {t}) /\ Cardinality(Asking') \in Nat
    BY <2>1, <2>2, FS_Subset, FS_CardinalityType
  <2> QED
    BY <1>1, <2>1, <2>2, <2>3, CapAssumption
<1>4. ASSUME NEW t \in Fetches, Finish(t) \/ Listed(t) \/ ListFails(t) \/ Store(t) \/ StoreFails(t)
      PROVE  Asking' \subseteq Asking
  <2>1. \A s \in Fetches \ {t} : fetch'[s] = fetch[s]
    BY <1>4 DEF Finish, Listed, ListFails, Store, StoreFails, TypeOK
  <2>2. fetch'[t].pc # "asking"
    <3>1. CASE Finish(t)
      BY <3>1 DEF Finish, TypeOK, NoFetch
    <3>2. CASE Listed(t) \/ ListFails(t) \/ Store(t) \/ StoreFails(t)
      <4>1. fetch[t] \in FetchStates
        BY <3>2, FetchRecords DEF Listed, ListFails, Store, StoreFails, Alive
      <4> QED
        BY <3>2, <4>1 DEF Listed, ListFails, Store, StoreFails, TypeOK, FetchStates
    <3> QED
      BY <1>4, <3>1, <3>2
  <2> QED
    BY <2>1, <2>2 DEF Asking
<1>5. ASSUME NEW c \in Callers, Begin(c) PROVE Asking' \subseteq Asking
  <2>0. PICK t \in Fetches, v \in Volumes : BeginAs(c, t, v)
    BY <1>5, BeginFacts
  <2>1. fetch' = [fetch EXCEPT ![t] =
          [pc |-> "queued", key |-> <<UserOf[c], v>>, user |-> UserOf[c], got |-> None]]
    BY <2>0 DEF BeginAs
  <2> QED
    BY <2>1 DEF Asking, TypeOK
<1>6. CASE fetch' = fetch
  BY <1>6 DEF Asking
<1>7. \/ fetch' = fetch
      \/ \E c \in Callers : Begin(c)
      \/ \E t \in Fetches : FetchStep(t)
  BY DEF Next, Grant, Revoke, Call, CallStep, Hit, Join, Cancel, ReadStorage, StorageFails,
         Open, Evict, KeepRows, vars
<1> QED
  BY <1>2, <1>3, <1>4, <1>5, <1>6, <1>7 DEF FetchStep

-----------------------------------------------------------------------------
(* The inductive invariant holds in every reachable state.                  *)
LEMMA CacheInvariance == Spec => []CacheInv
<1>1. Init => CacheInv
  <2> SUFFICES ASSUME Init PROVE CacheInv
    OBVIOUS
  <2>1. TypeOK
    BY EmptySeq DEF Init, TypeOK
  <2>2. RowsAreOwn /\ Registered /\ CallsAreOwn
    BY DEF Init, RowsAreOwn, Registered, CallsAreOwn, Alive, NoFetch, NoCall
  <2>3. QueueFits
    <3>1. Len(queue) = 0
      BY EmptySeq DEF Init
    <3> QED
      BY <3>1 DEF QueueFits
  <2>4. CapKept
    <3>1. Asking = {}
      BY DEF Init, Asking, NoFetch
    <3> QED
      BY <3>1, FS_EmptySet, CapAssumption DEF CapKept
  <2> QED
    BY <2>1, <2>2, <2>3, <2>4 DEF CacheInv
<1>2. CacheInv /\ [Next]_vars => CacheInv'
  BY TypeStep, RowsStep, RegisteredStep, QueueStep, CallsStep, CapStep DEF CacheInv
<1> QED
  BY <1>1, <1>2, PTL DEF Spec

(* Rows, tasks, calls and pages are ones there can be.                      *)
THEOREM CacheTypeCorrect == Spec => []TypeOK
<1>1. CacheInv => TypeOK
  BY DEF CacheInv
<1> QED
  BY <1>1, CacheInvariance, PTL

(* Nobody is shown another user's listing, from the cache or from a call    *)
(* that was joined.                                                         *)
THEOREM ListingsAreOwn == Spec => []OwnListing
<1>1. CacheInv => OwnListing
  <2> SUFFICES ASSUME CacheInv, NEW c \in Callers
               PROVE  /\ call[c].pc = "looked" => call[c].got \in {UserOf[c], None}
                      /\ call[c].pc = "waiting" => fetch[call[c].on].user = UserOf[c]
    BY DEF OwnListing
  <2>1. call[c].pc = "waiting" => call[c].on \in Fetches
    BY WaitedFor DEF CacheInv
  <2> QED
    BY <2>1 DEF CacheInv, CallsAreOwn, Registered
<1> QED
  BY <1>1, CacheInvariance, PTL

(* However calls, cancellations and callbacks interleave, PVE sees no more  *)
(* calls at a time than the cap and never two for one listing of one user.  *)
THEOREM StampedesAreHeldOff == Spec => []NoStampede
<1>1. CacheInv => NoStampede
  BY DEF CacheInv, CapKept, Registered, Alive, NoStampede
<1> QED
  BY <1>1, CacheInvariance, PTL

-----------------------------------------------------------------------------
(* Eviction.  A task about to write has a listing to write, so that no      *)
(* write empties a row.                                                     *)
StoresListing ==
  \A t \in Fetches : fetch[t].pc = "storing" => fetch[t].got # None

(* A page has, of every volume it has read without an error, seen that its  *)
(* user can see it, unless there was a time when the user could not.        *)
PagesKnow ==
  \A p \in Pages : page[p].pc = "listing" =>
    /\ \A v \in Volumes : <<UserOf[p], v>> \notin granted => v \in page[p].lapsed
    /\ ~page[p].error =>
         \A v \in Volumes : v \in page[p].left \cup page[p].seen \cup page[p].lapsed

LEMMA StoresStep ==
  ASSUME TypeOK, QueueFits, StoresListing, [Next]_vars
  PROVE  StoresListing'
<1> USE DEF StoresListing
<1>1. CASE fetch' = fetch
  BY <1>1
<1>2. ASSUME NEW c \in Callers, Begin(c) PROVE StoresListing'
  <2>0. PICK t \in Fetches, v \in Volumes : BeginAs(c, t, v)
    BY <1>2, BeginFacts
  <2>1. fetch' = [fetch EXCEPT ![t] =
          [pc |-> "queued", key |-> <<UserOf[c], v>>, user |-> UserOf[c], got |-> None]]
    BY <2>0 DEF BeginAs
  <2> QED
    BY <2>1 DEF TypeOK
<1>3. ASSUME NEW t \in Fetches, FetchStep(t) PROVE StoresListing'
  <2>1. \A s \in Fetches \ {t} : fetch'[s] = fetch[s]
    BY <1>3 DEF FetchStep, Ask, Listed, ListFails, Store, StoreFails, Finish, TypeOK
  <2>2. CASE Listed(t)
    <3>1. fetch[t] \in FetchStates /\ fetch[t].user \in Users
      BY <2>2, FetchRecords DEF Listed, Alive
    <3>2. fetch'[t].got = fetch[t].user
      BY <2>2, <3>1 DEF Listed, TypeOK, FetchStates
    <3> QED
      BY <2>1, <3>1, <3>2, NoneAssumption
  <2>3. CASE Ask(t) \/ ListFails(t) \/ Store(t) \/ StoreFails(t)
    <3>1. fetch[t] \in FetchStates
      BY <2>3, QueuedHead, FetchRecords DEF Ask, ListFails, Store, StoreFails, Alive
    <3>2. fetch'[t].pc # "storing"
      BY <2>3, <3>1 DEF Ask, ListFails, Store, StoreFails, TypeOK, FetchStates
    <3> QED
      BY <2>1, <3>2
  <2>4. CASE Finish(t)
    BY <2>1, <2>4 DEF Finish, NoFetch, TypeOK
  <2> QED
    BY <1>3, <2>2, <2>3, <2>4 DEF FetchStep
<1>4. \/ fetch' = fetch
      \/ \E c \in Callers : Begin(c)
      \/ \E t \in Fetches : FetchStep(t)
  BY DEF Next, Grant, Revoke, Call, CallStep, Hit, Join, Cancel, ReadStorage, StorageFails,
         Open, Evict, KeepRows, vars
<1> QED
  BY <1>1, <1>2, <1>3, <1>4

LEMMA PagesStep ==
  ASSUME TypeOK, PagesKnow, [Next]_vars
  PROVE  PagesKnow'
<1> USE DEF PagesKnow
<1>1. CASE UNCHANGED <<granted, page>>
  BY <1>1
<1>2. ASSUME NEW u \in Users, NEW v \in Volumes, Grant(u, v) PROVE PagesKnow'
  BY <1>2 DEF Grant
<1>3. ASSUME NEW u \in Users, NEW w \in Volumes, Revoke(u, w) PROVE PagesKnow'
  <2> SUFFICES ASSUME NEW p \in Pages, page'[p].pc = "listing", NEW v \in Volumes
               PROVE  /\ <<UserOf[p], v>> \notin granted' => v \in page'[p].lapsed
                      /\ ~page'[p].error =>
                           v \in page'[p].left \cup page'[p].seen \cup page'[p].lapsed
    OBVIOUS
  <2>1. granted' = granted \ {<<u, w>>}
    BY <1>3 DEF Revoke
  <2>2. CASE page[p].pc = "listing" /\ UserOf[p] = u
    <3>1. page[p] \in PageStates
      BY <2>2, PageRecords
    <3>2. page'[p] = [page[p] EXCEPT !.lapsed = @ \cup {w}]
      BY <1>3, <2>2 DEF Revoke
    <3>3. /\ page'[p].lapsed = page[p].lapsed \cup {w}
          /\ page'[p].left = page[p].left
          /\ page'[p].seen = page[p].seen
          /\ page'[p].error = page[p].error
      BY <3>1, <3>2 DEF PageStates
    <3> QED
      BY <2>1, <2>2, <3>3
  <2>3. CASE ~(page[p].pc = "listing" /\ UserOf[p] = u)
    <3>1. page'[p] = page[p] /\ UserOf[p] # u
      BY <1>3, <2>3 DEF Revoke
    <3> QED
      BY <2>1, <3>1
  <2> QED
    BY <2>2, <2>3
<1>4. ASSUME NEW p \in Pages, PageStep(p) PROVE PagesKnow'
  <2>1. granted' = granted /\ \A q \in Pages \ {p} : page'[q] = page[q]
    BY <1>4 DEF PageStep, Open, Evict, KeepRows, ReadStorage, StorageFails, TypeOK
  <2> SUFFICES ASSUME page'[p].pc = "listing", NEW v \in Volumes
               PROVE  /\ <<UserOf[p], v>> \notin granted => v \in page'[p].lapsed
                      /\ ~page'[p].error =>
                           v \in page'[p].left \cup page'[p].seen \cup page'[p].lapsed
    BY <2>1
  <2>2. CASE Open(p)
    BY <2>2 DEF Open, TypeOK
  <2>3. CASE Evict(p) \/ KeepRows(p)
    BY <2>3 DEF Evict, KeepRows, TypeOK, NoPage
  <2>4. ASSUME NEW w \in Volumes, ReadStorage(p, w)
        PROVE  /\ <<UserOf[p], v>> \notin granted => v \in page'[p].lapsed
               /\ ~page'[p].error =>
                    v \in page'[p].left \cup page'[p].seen \cup page'[p].lapsed
    <3>1. page[p].pc = "listing" /\ page[p] \in PageStates
      BY <2>4, PageRecords DEF ReadStorage
    <3>2. /\ page'[p].left = page[p].left \ {w}
          /\ page'[p].seen = IF <<UserOf[p], w>> \in granted THEN page[p].seen \cup {w}
                             ELSE page[p].seen
          /\ page'[p].lapsed = page[p].lapsed
          /\ page'[p].error = page[p].error
      BY <2>4, <3>1 DEF ReadStorage, TypeOK, PageStates
    <3> QED
      BY <3>1, <3>2
  <2>5. ASSUME NEW w \in Volumes, StorageFails(p, w)
        PROVE  /\ <<UserOf[p], v>> \notin granted => v \in page'[p].lapsed
               /\ page'[p].error
    <3>1. page[p].pc = "listing" /\ page[p] \in PageStates
      BY <2>5, PageRecords DEF StorageFails
    <3>2. page'[p].lapsed = page[p].lapsed /\ page'[p].error
      BY <2>5, <3>1 DEF StorageFails, TypeOK, PageStates
    <3> QED
      BY <3>1, <3>2
  <2> QED
    BY <1>4, <2>2, <2>3, <2>4, <2>5 DEF PageStep
<1>5. \/ UNCHANGED <<granted, page>>
      \/ \E u \in Users, v \in Volumes : Grant(u, v) \/ Revoke(u, v)
      \/ \E p \in Pages : PageStep(p)
  BY NextCases DEF GrantStep, LookStep, Call, Hit, Join, Cancel, Begin, FetchStep, Ask,
         Listed, ListFails, Store, StoreFails, Finish, vars
<1> QED
  BY <1>1, <1>2, <1>3, <1>4, <1>5

(* A row goes only by an eviction.                                          *)
LEMMA EvictionStep ==
  ASSUME CacheInv, StoresListing, PagesKnow, [Next]_vars,
         NEW k \in Keys, row[k] # None, row'[k] = None
  PROVE  \E p \in Pages : /\ page[p].pc = "listing"
                          /\ UserOf[p] = k[1]
                          /\ k[2] \in page[p].lapsed
<1>1. ASSUME NEW t \in Fetches, Store(t) PROVE FALSE
  <2>1. /\ fetch[t].pc = "storing"
        /\ row'[k] \in {row[k], fetch[t].got}
    BY <1>1 DEF Store, CacheInv, TypeOK
  <2> QED
    BY <2>1 DEF StoresListing
<1>2. PICK p \in Pages : Evict(p)
  <2>1. \/ row' = row
        \/ \E t \in Fetches : Store(t)
        \/ \E p \in Pages : Evict(p)
    BY DEF Next, Grant, Revoke, Call, CallStep, Hit, Join, Begin, Cancel, FetchStep, Ask, Listed,
           ListFails, StoreFails, Finish, ReadStorage, StorageFails, Open, KeepRows, vars
  <2> QED
    BY <1>1, <2>1
<1>3. UserOf[p] = k[1] /\ k[2] \notin page[p].seen
  BY <1>2 DEF Evict
<1>4. page[p].pc = "listing" /\ page[p].left = {} /\ ~page[p].error
  BY <1>2 DEF Evict
<1> QED
  BY <1>3, <1>4, KeyFacts DEF PagesKnow

(* A hiccup never wipes a good row: only a page load during which its user  *)
(* could not see the volume takes one away.                                 *)
THEOREM GoodRowsAreKept == Spec => GoodRowsStay
<1>1. Init => StoresListing /\ PagesKnow
  BY DEF Init, StoresListing, PagesKnow, NoFetch, NoPage
<1>2. CacheInv /\ StoresListing /\ PagesKnow /\ [Next]_vars => (StoresListing /\ PagesKnow)'
  BY StoresStep, PagesStep DEF CacheInv
<1>3. CacheInv /\ StoresListing /\ PagesKnow /\ [Next]_vars =>
        [\A k \in Keys : row[k] # None /\ row'[k] = None =>
           \E p \in Pages : /\ page[p].pc = "listing"
                            /\ UserOf[p] = k[1]
                            /\ k[2] \in page[p].lapsed]_vars
  BY EvictionStep
<1> QED
  BY <1>1, <1>2, <1>3, CacheInvariance, PTL DEF Spec, GoodRowsStay
=============================================================================
