---------------------------- MODULE ListingCache ----------------------------
(***************************************************************************)
(* Directory listings: pve_client.list_path() with its persistent cache    *)
(* (backend/dir_cache.py), the coalescing of equal calls and the cap on    *)
(* calls to PVE, and the eviction that main.index() makes from the list of *)
(* archives a user can see.                                                *)
(*                                                                         *)
(* A listing is the user PVE gave it to: what it lists never changes, a    *)
(* backup being immutable.  Eviction goes by volume, so a volume stands    *)
(* for all its paths.                                                      *)
(***************************************************************************)
EXTENDS Naturals, Sequences, FiniteSets

CONSTANTS
  Users, Volumes,
  Callers,      \* calls of list_path() at a time
  Pages,        \* requests of the index page at a time
  UserOf,       \* whose session each call and page request carries
  Fetches,      \* bound: fetch tasks alive at a time
  Cap,          \* FILE_RESTORE_LIST_MAX_CONCURRENCY
  None

ASSUME CapAssumption == Cap \in Nat \ {0}

ASSUME FetchesAssumption == IsFiniteSet(Fetches)

ASSUME UserAssumption == UserOf \in [Callers \cup Pages -> Users]

ASSUME NoneAssumption == None \notin Users \cup Volumes \cup Fetches

VARIABLES
  granted,   \* what PVE lets whom see
  row,       \* the dir_cache table: whose listing is cached under a key
  inflight,  \* _inflight_list_calls
  fetch,     \* the tasks of _fetch_list
  queue,     \* tasks waiting for _list_semaphore, in order
  call,      \* calls of list_path
  page       \* requests of the index page

vars == <<granted, row, inflight, fetch, queue, call, page>>

Keys == Users \X Volumes

(* A bug: a key that forgets the user.                                      *)
KeyOfVolume(user, volume) == <<CHOOSE u \in Users : TRUE, volume>>

Key(user, volume) == <<user, volume>>

NoFetch == [pc |-> "none"]
NoCall  == [pc |-> "idle"]
NoPage  == [pc |-> "idle"]

(* "done" is a task that has ended and whose callbacks have not run yet.    *)
FetchStates ==
  [pc : {"queued", "asking", "storing", "done"}, key : Keys,
   user : Users, got : Users \cup {None}]

CallStates ==
  [pc : {"looked"}, volume : Volumes, got : Users \cup {None}]
  \cup [pc : {"waiting"}, volume : Volumes, on : Fetches]

PageStates ==
  [pc : {"listing"}, left : SUBSET Volumes, seen : SUBSET Volumes,
   error : BOOLEAN, lapsed : SUBSET Volumes]

Init ==
  /\ granted \in SUBSET Keys
  /\ row = [k \in Keys |-> None]
  /\ inflight = [k \in Keys |-> None]
  /\ fetch = [t \in Fetches |-> NoFetch]
  /\ queue = <<>>
  /\ call = [c \in Callers |-> NoCall]
  /\ page = [p \in Pages |-> NoPage]

-----------------------------------------------------------------------------
(* What PVE lets a user see changes: grants, revocations, new and pruned    *)
(* snapshots.  A page remembers what its user could not see at some time    *)
(* while it was being read; the code does not, the properties do.           *)

Grant(u, v) ==
  /\ <<u, v>> \notin granted
  /\ granted' = granted \cup {<<u, v>>}
  /\ UNCHANGED <<row, inflight, fetch, queue, call, page>>

Revoke(u, v) ==
  /\ <<u, v>> \in granted
  /\ granted' = granted \ {<<u, v>>}
  /\ page' = [p \in Pages |-> IF page[p].pc = "listing" /\ UserOf[p] = u
                                THEN [page[p] EXCEPT !.lapsed = @ \cup {v}]
                                ELSE page[p]]
  /\ UNCHANGED <<row, inflight, fetch, queue, call>>

-----------------------------------------------------------------------------
(* list_path.                                                               *)

(* The call reads the cache, in a worker thread; what the table holds when  *)
(* the loop gets back to it may be something else.                          *)
Call(c, v) ==
  /\ call[c].pc = "idle"
  /\ call' = [call EXCEPT ![c] =
       [pc |-> "looked", volume |-> v, got |-> row[Key(UserOf[c], v)]]]
  /\ UNCHANGED <<granted, row, inflight, fetch, queue, page>>

Hit(c) ==
  /\ call[c].pc = "looked"
  /\ call[c].got # None
  /\ call' = [call EXCEPT ![c] = NoCall]
  /\ UNCHANGED <<granted, row, inflight, fetch, queue, page>>

Wait(c, t) ==
  call' = [call EXCEPT ![c] =
    [pc |-> "waiting", volume |-> @.volume, on |-> t]]

(* A miss joins the call already in flight for the key.                     *)
Join(c) ==
  LET k == Key(UserOf[c], call[c].volume) IN
  /\ call[c].pc = "looked"
  /\ call[c].got = None
  /\ inflight[k] # None
  /\ Wait(c, inflight[k])
  /\ UNCHANGED <<granted, row, inflight, fetch, queue, page>>

(* A bug: the new task is not registered.                                   *)
BeginUnregistered(c) ==
  LET k == Key(UserOf[c], call[c].volume)
      t == CHOOSE x \in Fetches : fetch[x].pc = "none"
  IN
  /\ call[c].pc = "looked"
  /\ call[c].got = None
  /\ inflight[k] = None
  /\ \E x \in Fetches : fetch[x].pc = "none"
  /\ fetch' = [fetch EXCEPT ![t] =
       [pc |-> "queued", key |-> k, user |-> UserOf[c], got |-> None]]
  /\ queue' = Append(queue, t)
  /\ Wait(c, t)
  /\ UNCHANGED <<granted, row, inflight, page>>

(* ... or starts one, as a new task.                                        *)
Begin(c) ==
  LET k == Key(UserOf[c], call[c].volume)
      t == CHOOSE x \in Fetches : fetch[x].pc = "none"
  IN
  /\ call[c].pc = "looked"
  /\ call[c].got = None
  /\ inflight[k] = None
  /\ \E x \in Fetches : fetch[x].pc = "none"
  /\ fetch' = [fetch EXCEPT ![t] =
       [pc |-> "queued", key |-> k, user |-> UserOf[c], got |-> None]]
  /\ inflight' = [inflight EXCEPT ![k] = t]
  /\ queue' = Append(queue, t)
  /\ Wait(c, t)
  /\ UNCHANGED <<granted, row, page>>

(* The caller goes away; the shield keeps the task.                         *)
Cancel(c) ==
  /\ call[c].pc # "idle"
  /\ call' = [call EXCEPT ![c] = NoCall]
  /\ UNCHANGED <<granted, row, inflight, fetch, queue, page>>

-----------------------------------------------------------------------------
(* _fetch_list.                                                             *)

Asking == {t \in Fetches : fetch[t].pc = "asking"}

(* A bug: the cap is off by one.                                            *)
AskOneLess(t) ==
  /\ queue # <<>>
  /\ t = Head(queue)
  /\ Cardinality(Asking) < Cap - 1
  /\ queue' = Tail(queue)
  /\ fetch' = [fetch EXCEPT ![t].pc = "asking"]
  /\ UNCHANGED <<granted, row, inflight, call, page>>

(* The semaphore admits its waiters in order.                               *)
Ask(t) ==
  /\ queue # <<>>
  /\ t = Head(queue)
  /\ Cardinality(Asking) < Cap
  /\ queue' = Tail(queue)
  /\ fetch' = [fetch EXCEPT ![t].pc = "asking"]
  /\ UNCHANGED <<granted, row, inflight, call, page>>

(* PVE lists the volume for the user whose ticket the call carries, if that *)
(* user may see it.  The semaphore is released before the row is written.   *)
Listed(t) ==
  /\ fetch[t].pc = "asking"
  /\ <<fetch[t].user, fetch[t].key[2]>> \in granted
  /\ fetch' = [fetch EXCEPT ![t].pc = "storing", ![t].got = fetch[t].user]
  /\ UNCHANGED <<granted, row, inflight, queue, call, page>>

(* PVE refuses, fails or does not answer in time.                           *)
ListFails(t) ==
  /\ fetch[t].pc = "asking"
  /\ fetch' = [fetch EXCEPT ![t].pc = "done"]
  /\ UNCHANGED <<granted, row, inflight, queue, call, page>>

(* dir_cache.set, in a worker thread.                                       *)
Store(t) ==
  /\ fetch[t].pc = "storing"
  /\ row' = [row EXCEPT ![fetch[t].key] = fetch[t].got]
  /\ fetch' = [fetch EXCEPT ![t].pc = "done"]
  /\ UNCHANGED <<granted, inflight, queue, call, page>>

(* The write raises, and so does the task.                                  *)
StoreFails(t) ==
  /\ fetch[t].pc = "storing"
  /\ fetch' = [fetch EXCEPT ![t].pc = "done", ![t].got = None]
  /\ UNCHANGED <<granted, row, inflight, queue, call, page>>

(* The task's callbacks: _forget first, then those of the shields, which    *)
(* hand the result or the error to everyone still waiting.                  *)
Finish(t) ==
  LET k == fetch[t].key IN
  /\ fetch[t].pc = "done"
  /\ inflight' = IF inflight[k] = t THEN [inflight EXCEPT ![k] = None] ELSE inflight
  /\ call' = [c \in Callers |->
       IF call[c].pc = "waiting" /\ call[c].on = t THEN NoCall ELSE call[c]]
  /\ fetch' = [fetch EXCEPT ![t] = NoFetch]
  /\ UNCHANGED <<granted, row, queue, page>>

-----------------------------------------------------------------------------
(* GET /: list_backup_archives reads the storages one after the other (a    *)
(* volume stands for what is on one of them), then the cache is reconciled. *)

Open(p) ==
  /\ page[p].pc = "idle"
  /\ page' = [page EXCEPT ![p] =
       [pc |-> "listing", left |-> Volumes, seen |-> {}, error |-> FALSE,
        lapsed |-> {v \in Volumes : <<UserOf[p], v>> \notin granted}]]
  /\ UNCHANGED <<granted, row, inflight, fetch, queue, call>>

ReadStorage(p, v) ==
  /\ page[p].pc = "listing"
  /\ v \in page[p].left
  /\ page' = [page EXCEPT ![p].left = @ \ {v},
       ![p].seen = IF <<UserOf[p], v>> \in granted THEN @ \cup {v} ELSE @]
  /\ UNCHANGED <<granted, row, inflight, fetch, queue, call>>

StorageFails(p, v) ==
  /\ page[p].pc = "listing"
  /\ v \in page[p].left
  /\ page' = [page EXCEPT ![p].left = @ \ {v}, ![p].error = TRUE]
  /\ UNCHANGED <<granted, row, inflight, fetch, queue, call>>

(* Bugs: eviction after a storage failed, and none for an empty list.       *)
EvictAnyway(p) ==
  /\ page[p].pc = "listing"
  /\ page[p].left = {}
  /\ row' = [k \in Keys |-> IF k[1] = UserOf[p] /\ k[2] \notin page[p].seen
                              THEN None ELSE row[k]]
  /\ page' = [page EXCEPT ![p] = NoPage]
  /\ UNCHANGED <<granted, inflight, fetch, queue, call>>

EvictUnlessEmpty(p) ==
  /\ page[p].pc = "listing"
  /\ page[p].left = {}
  /\ ~page[p].error
  /\ row' = [k \in Keys |->
       IF page[p].seen # {} /\ k[1] = UserOf[p] /\ k[2] \notin page[p].seen
         THEN None ELSE row[k]]
  /\ page' = [page EXCEPT ![p] = NoPage]
  /\ UNCHANGED <<granted, inflight, fetch, queue, call>>

(* evict_missing, only after every storage has answered.                    *)
Evict(p) ==
  /\ page[p].pc = "listing"
  /\ page[p].left = {}
  /\ ~page[p].error
  /\ row' = [k \in Keys |-> IF k[1] = UserOf[p] /\ k[2] \notin page[p].seen
                              THEN None ELSE row[k]]
  /\ page' = [page EXCEPT ![p] = NoPage]
  /\ UNCHANGED <<granted, inflight, fetch, queue, call>>

(* A storage failed, the ticket was refused (401) or the eviction raised:   *)
(* the cache stays as it is.                                                *)
KeepRows(p) ==
  /\ page[p].pc = "listing"
  /\ page' = [page EXCEPT ![p] = NoPage]
  /\ UNCHANGED <<granted, row, inflight, fetch, queue, call>>

-----------------------------------------------------------------------------
CallStep(c) == Hit(c) \/ Join(c) \/ Begin(c)

FetchStep(t) ==
  \/ Ask(t)
  \/ Listed(t)
  \/ ListFails(t)
  \/ Store(t)
  \/ StoreFails(t)
  \/ Finish(t)

Next ==
  \/ \E u \in Users, v \in Volumes : Grant(u, v) \/ Revoke(u, v)
  \/ \E c \in Callers, v \in Volumes : Call(c, v)
  \/ \E c \in Callers : CallStep(c) \/ Cancel(c)
  \/ \E t \in Fetches : FetchStep(t)
  \/ \E p \in Pages, v \in Volumes : ReadStorage(p, v) \/ StorageFails(p, v)
  \/ \E p \in Pages : Open(p) \/ Evict(p) \/ KeepRows(p)

Spec == Init /\ [][Next]_vars

(* The loop and its threads run, and a call to PVE ends within httpx's 30   *)
(* seconds.  Nobody has to call, open the page or go away.                  *)
FairSpec ==
  /\ Spec
  /\ \A c \in Callers : WF_vars(CallStep(c))
  /\ \A t \in Fetches : WF_vars(FetchStep(t))

-----------------------------------------------------------------------------
(* Type correctness: rows, tasks, calls and pages are ones there can be.    *)
TypeOK ==
  /\ granted \subseteq Keys
  /\ row \in [Keys -> Users \cup {None}]
  /\ inflight \in [Keys -> Fetches \cup {None}]
  /\ fetch \in [Fetches -> FetchStates \cup {NoFetch}]
  /\ queue \in Seq(Fetches)
  /\ call \in [Callers -> CallStates \cup {NoCall}]
  /\ page \in [Pages -> PageStates \cup {NoPage}]

(* Nobody is shown a listing PVE gave to someone else: neither what a call  *)
(* finds in the cache nor the task it waits for is another user's.          *)
OwnListing ==
  \A c \in Callers :
    /\ call[c].pc = "looked" => call[c].got \in {UserOf[c], None}
    /\ call[c].pc = "waiting" => fetch[call[c].on].user = UserOf[c]

(* The helper-VM stampede is held off: at most Cap calls to PVE, and never  *)
(* two tasks for one listing of one user, however calls, cancellations and  *)
(* done-callbacks interleave.                                               *)
NoStampede ==
  /\ Cardinality(Asking) <= Cap
  /\ \A s, t \in Fetches :
       s # t /\ fetch[s].pc # "none" /\ fetch[t].pc # "none" =>
         fetch[s].key # fetch[t].key

(* main.py:389-396, a hiccup must never wipe good entries: a row is evicted *)
(* only if its user could not see its volume at some time during the very   *)
(* page load that evicts it.                                                *)
GoodRowsStay ==
  [][\A k \in Keys : row[k] # None /\ row'[k] = None =>
       \E p \in Pages : /\ page[p].pc = "listing"
                        /\ UserOf[p] = k[1]
                        /\ k[2] \in page[p].lapsed]_vars

(* dir_cache.py:21-27: access that is gone does not live on in the cache.   *)
(* A fetch already granted may write its row after an eviction, but if the  *)
(* user goes on loading the page the row goes for good.                     *)
AccessEnds ==
  \A p \in Pages, v \in Volumes :
    <>[](<<UserOf[p], v>> \notin granted) /\ []<><<Evict(p)>>_vars
      => <>[](row[<<UserOf[p], v>>] = None)

(* Every call is answered, or its caller goes away: nobody waits for ever   *)
(* for the semaphore or for a task someone else started.                    *)
EveryCallAnswered ==
  \A c \in Callers : call[c].pc # "idle" ~> call[c].pc = "idle"
=============================================================================
