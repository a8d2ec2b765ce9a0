---------------------------- MODULE GuestChannel ----------------------------
(***************************************************************************)
(* The guest-agent channel: the per-guest lock and pacing of               *)
(* backend/guest_agent_lock.py and the commands that run under it, one     *)
(* agent/file-write, one guest-exec with its polls (backend/pve_client.py) *)
(* or one agent/info call (backend/guest_agent.py).                        *)
(*                                                                         *)
(* PVE and the guest are external.  A request PVE refuses is one it did    *)
(* not carry out; a request whose caller has gone away may still be.       *)
(***************************************************************************)
EXTENDS Naturals, Sequences

CONSTANTS
  Callers,         \* coroutines that may run a guest-agent command
  Guests,          \* vmids
  GuestOf,         \* the guest each caller talks to
  Commands,        \* the commands each caller may run
  Attempts,        \* DEFAULT_RETRY_ATTEMPTS
  MaxPolls,        \* exec-status polls before GuestExecTimeout
  Gap              \* guest_agent_min_command_gap_seconds, in ticks

(* "info" is agent/info, "osinfo" the calls made with retry=False.          *)
Ops == {"write", "exec", "info", "osinfo"}

ASSUME ChannelAssumption ==
  /\ GuestOf \in [Callers -> Guests]
  /\ Commands \in [Callers -> SUBSET Ops]
  /\ Attempts \in Nat \ {0}
  /\ MaxPolls \in Nat \ {0}
  /\ Gap \in Nat

VARIABLES
  pc,              \* where each caller is
  op,              \* the command it runs
  locked,          \* guests whose asyncio.Lock is held
  queue,           \* waiters of each lock, in order
  cooldown,        \* ticks before a guest may get its next command
  tries,           \* attempts made by call_with_retries
  polls,           \* exec-status polls made
  request,         \* the HTTP request of each caller and its answer
  adrift,          \* requests PVE still holds although the caller gave up
  ran,             \* times the guest carried out the caller's command
  process,         \* the in-guest process of an exec
  quiet,           \* ticks since a guest last served a request (capped)
  strayed          \* guests that served an abandoned request since the last release

vars == <<pc, op, locked, queue, cooldown, tries, polls, request, adrift,
          ran, process, quiet, strayed>>

lock  == <<locked, queue>>
pause == <<cooldown, strayed>>
work  == <<ran, process>>

-----------------------------------------------------------------------------
Inside == {"pacing", "posting", "backoff", "polling", "napping"}
Ended  == {"returned", "raised", "cancelled"}

AttemptsFor(o) == IF o = "osinfo" THEN 1 ELSE Attempts

(* _get_agent_json turns every HTTP error into "no info available".         *)
Failure(o) == IF o \in {"info", "osinfo"} THEN "returned" ELSE "raised"

Init ==
  /\ pc = [c \in Callers |-> "idle"]
  /\ op = [c \in Callers |-> "write"]
  /\ locked = {}
  /\ queue = [g \in Guests |-> <<>>]
  /\ cooldown = [g \in Guests |-> 0]
  /\ tries = [c \in Callers |-> 0]
  /\ polls = [c \in Callers |-> 0]
  /\ request = [c \in Callers |-> "none"]
  /\ adrift = [c \in Callers |-> {}]
  /\ ran = [c \in Callers |-> 0]
  /\ process = [c \in Callers |-> "none"]
  /\ quiet = [g \in Guests |-> Gap]
  /\ strayed = {}

-----------------------------------------------------------------------------
(* guest_agent_command: an asyncio.Lock per guest, first come first served. *)

AskFree(c) ==
  /\ pc[c] = "idle"
  /\ GuestOf[c] \notin locked
  /\ queue[GuestOf[c]] = <<>>
  /\ \E o \in Commands[c] : op' = [op EXCEPT ![c] = o]
  /\ locked' = locked \cup {GuestOf[c]}
  /\ pc' = [pc EXCEPT ![c] = "pacing"]
  /\ UNCHANGED <<queue, pause, tries, polls, request, adrift, work, quiet>>

AskBusy(c) ==
  /\ pc[c] = "idle"
  /\ GuestOf[c] \in locked \/ queue[GuestOf[c]] # <<>>
  /\ \E o \in Commands[c] : op' = [op EXCEPT ![c] = o]
  /\ queue' = [queue EXCEPT ![GuestOf[c]] = Append(@, c)]
  /\ pc' = [pc EXCEPT ![c] = "waiting"]
  /\ UNCHANGED <<locked, pause, tries, polls, request, adrift, work, quiet>>

(* release() wakes the first waiter, who takes the lock when it next runs.  *)
Woken(c) ==
  /\ pc[c] = "waiting"
  /\ GuestOf[c] \notin locked
  /\ queue[GuestOf[c]] # <<>>
  /\ Head(queue[GuestOf[c]]) = c
  /\ locked' = locked \cup {GuestOf[c]}
  /\ queue' = [queue EXCEPT ![GuestOf[c]] = Tail(@)]
  /\ pc' = [pc EXCEPT ![c] = "pacing"]
  /\ UNCHANGED <<op, pause, tries, polls, request, adrift, work, quiet>>

(* A bug: the end of a command is not recorded.                             *)
ReleaseUnrecorded(c) ==
  /\ locked' = locked \ {GuestOf[c]}
  /\ UNCHANGED <<queue, pause>>

(* Leaving the context manager once its body has been entered.              *)
Release(c) ==
  /\ locked' = locked \ {GuestOf[c]}
  /\ cooldown' = [cooldown EXCEPT ![GuestOf[c]] = Gap]
  /\ strayed' = strayed \ {GuestOf[c]}
  /\ UNCHANGED queue

(* The command ends inside the lock, one way or another.                    *)
Leave(c, how) ==
  /\ pc' = [pc EXCEPT ![c] = how]
  /\ tries' = [tries EXCEPT ![c] = 0]
  /\ polls' = [polls EXCEPT ![c] = 0]
  /\ Release(c)

(* The command goes on, the lock still held.                                *)
Stay(c, next) ==
  /\ pc' = [pc EXCEPT ![c] = next]
  /\ UNCHANGED <<lock, pause, tries>>

(* The sleep for the rest of the gap, then the first request.               *)
Pace(c) ==
  /\ pc[c] = "pacing"
  /\ cooldown[GuestOf[c]] = 0
  /\ pc' = [pc EXCEPT ![c] = "posting"]
  /\ tries' = [tries EXCEPT ![c] = 1]
  /\ request' = [request EXCEPT ![c] = "sent"]
  /\ UNCHANGED <<op, lock, pause, polls, adrift, work, quiet>>

-----------------------------------------------------------------------------
(* call_with_retries and the polls of run_guest_exec, inside the lock.      *)

(* A bug: the lock covers the first request only.                           *)
AcceptedUnlocked(c) ==
  /\ pc[c] = "posting"
  /\ request[c] = "ok"
  /\ IF op[c] = "exec"
       THEN /\ pc' = [pc EXCEPT ![c] = "polling"]
            /\ polls' = [polls EXCEPT ![c] = 1]
            /\ request' = [request EXCEPT ![c] = "sent"]
            /\ Release(c)
            /\ UNCHANGED tries
       ELSE /\ Leave(c, "returned")
            /\ request' = [request EXCEPT ![c] = "none"]
  /\ UNCHANGED <<op, adrift, work, quiet>>

Accepted(c) ==
  /\ pc[c] = "posting"
  /\ request[c] = "ok"
  /\ IF op[c] = "exec"
       THEN /\ Stay(c, "polling")
            /\ polls' = [polls EXCEPT ![c] = 1]
            /\ request' = [request EXCEPT ![c] = "sent"]
       ELSE /\ Leave(c, "returned")
            /\ request' = [request EXCEPT ![c] = "none"]
  /\ UNCHANGED <<op, adrift, work, quiet>>

(* HTTPStatusError: the one error that is tried again.                      *)
Refused(c) ==
  /\ pc[c] = "posting"
  /\ request[c] = "refused"
  /\ request' = [request EXCEPT ![c] = "none"]
  /\ IF tries[c] < AttemptsFor(op[c])
       THEN Stay(c, "backoff") /\ UNCHANGED polls
       ELSE Leave(c, Failure(op[c]))
  /\ UNCHANGED <<op, adrift, work, quiet>>

Retry(c) ==
  /\ pc[c] = "backoff"
  /\ pc' = [pc EXCEPT ![c] = "posting"]
  /\ tries' = [tries EXCEPT ![c] = @ + 1]
  /\ request' = [request EXCEPT ![c] = "sent"]
  /\ UNCHANGED <<op, lock, pause, polls, adrift, work, quiet>>

Polled(c) ==
  /\ pc[c] = "polling"
  /\ request[c] \in {"ok", "exited", "refused"}
  /\ request' = [request EXCEPT ![c] = "none"]
  /\ IF request[c] = "exited"
       THEN Leave(c, "returned")
       ELSE Stay(c, "napping") /\ UNCHANGED polls
  /\ UNCHANGED <<op, adrift, work, quiet>>

Nap(c) ==
  /\ pc[c] = "napping"
  /\ IF polls[c] < MaxPolls
       THEN /\ Stay(c, "polling")
            /\ polls' = [polls EXCEPT ![c] = @ + 1]
            /\ request' = [request EXCEPT ![c] = "sent"]
       ELSE Leave(c, "raised") /\ UNCHANGED request
  /\ UNCHANGED <<op, adrift, work, quiet>>

(* The caller stops listening; a request not answered yet stays with PVE.   *)
Abandon(c) ==
  /\ request' = [request EXCEPT ![c] = "none"]
  /\ adrift' = [adrift EXCEPT ![c] =
       IF request[c] # "sent" THEN @
       ELSE @ \cup {IF pc[c] = "posting" THEN "start" ELSE "poll"}]

(* A bug: a timeout is tried again like a refusal.                          *)
TimesOutRetried(c) ==
  /\ request[c] # "none"
  /\ Abandon(c)
  /\ IF pc[c] = "polling"
       THEN Stay(c, "napping") /\ UNCHANGED polls
       ELSE IF tries[c] < AttemptsFor(op[c])
         THEN Stay(c, "backoff") /\ UNCHANGED polls
         ELSE Leave(c, Failure(op[c]))
  /\ UNCHANGED <<op, work, quiet>>

(* An HTTP timeout or a lost connection, answered or not: fatal to the      *)
(* request that starts the command, "try again next tick" for a poll.       *)
TimesOut(c) ==
  /\ request[c] # "none"
  /\ Abandon(c)
  /\ IF pc[c] = "polling"
       THEN Stay(c, "napping") /\ UNCHANGED polls
       ELSE Leave(c, Failure(op[c]))
  /\ UNCHANGED <<op, work, quiet>>

(* CancelledError at the await the caller is in: asyncio.Lock.acquire, the  *)
(* pacing sleep, which the try does not cover, or anywhere in the body.     *)
CancelWaiting(c) ==
  /\ pc[c] = "waiting"
  /\ LET g == GuestOf[c] IN
     \E i \in 1..Len(queue[g]) :
       /\ queue[g][i] = c
       /\ queue' = [queue EXCEPT ![g] = SubSeq(@, 1, i - 1) \o SubSeq(@, i + 1, Len(@))]
  /\ pc' = [pc EXCEPT ![c] = "cancelled"]
  /\ UNCHANGED <<op, locked, pause, tries, polls, request, adrift, work, quiet>>

(* A bug: only the body of the context manager gives the lock back.         *)
CancelPacingLocked(c) ==
  /\ pc[c] = "pacing"
  /\ pc' = [pc EXCEPT ![c] = "cancelled"]
  /\ UNCHANGED <<op, lock, pause, tries, polls, request, adrift, work, quiet>>

CancelPacing(c) ==
  /\ pc[c] = "pacing"
  /\ locked' = locked \ {GuestOf[c]}
  /\ pc' = [pc EXCEPT ![c] = "cancelled"]
  /\ UNCHANGED <<op, queue, pause, tries, polls, request, adrift, work, quiet>>

CancelBody(c) ==
  /\ pc[c] \in Inside \ {"pacing"}
  /\ Abandon(c)
  /\ Leave(c, "cancelled")
  /\ UNCHANGED <<op, work, quiet>>

(* The next command of the same caller, once PVE has let go of this one.    *)
Again(c) ==
  /\ pc[c] \in Ended
  /\ adrift[c] = {}
  /\ pc' = [pc EXCEPT ![c] = "idle"]
  /\ op' = [op EXCEPT ![c] = "write"]
  /\ ran' = [ran EXCEPT ![c] = 0]
  /\ process' = [process EXCEPT ![c] = "none"]
  /\ UNCHANGED <<lock, pause, tries, polls, request, adrift, quiet>>

-----------------------------------------------------------------------------
(* PVE and the guest.                                                       *)

CarriedOut(c) ==
  /\ ran' = [ran EXCEPT ![c] = @ + 1]
  /\ process' = [process EXCEPT ![c] = IF op[c] = "exec" THEN "running" ELSE @]

PveStarts(c) ==
  /\ pc[c] = "posting"
  /\ request[c] = "sent"
  /\ CarriedOut(c)
  /\ request' = [request EXCEPT ![c] = "ok"]
  /\ quiet' = [quiet EXCEPT ![GuestOf[c]] = 0]
  /\ UNCHANGED <<pc, op, lock, pause, tries, polls, adrift>>

PvePolled(c) ==
  /\ pc[c] = "polling"
  /\ request[c] = "sent"
  /\ request' = [request EXCEPT ![c] =
       IF process[c] = "exited" THEN "exited" ELSE "ok"]
  /\ quiet' = [quiet EXCEPT ![GuestOf[c]] = 0]
  /\ UNCHANGED <<pc, op, lock, pause, tries, polls, adrift, work>>

(* Something else uses the channel, or the agent does not answer.           *)
PveRefuses(c) ==
  /\ request[c] = "sent"
  /\ request' = [request EXCEPT ![c] = "refused"]
  /\ quiet' = [quiet EXCEPT ![GuestOf[c]] = 0]
  /\ UNCHANGED <<pc, op, lock, pause, tries, polls, adrift, work>>

(* An abandoned request is carried out late, nobody holding the lock for    *)
(* it any more, or never.                                                   *)
Drift(c) ==
  /\ \E r \in adrift[c] :
       /\ adrift' = [adrift EXCEPT ![c] = @ \ {r}]
       /\ \/ UNCHANGED <<work, quiet, strayed>>
          \/ /\ IF r = "start" THEN CarriedOut(c) ELSE UNCHANGED work
             /\ quiet' = [quiet EXCEPT ![GuestOf[c]] = 0]
             /\ strayed' = strayed \cup {GuestOf[c]}
  /\ UNCHANGED <<pc, op, lock, cooldown, tries, polls, request>>

ProcessExits(c) ==
  /\ process[c] = "running"
  /\ process' = [process EXCEPT ![c] = "exited"]
  /\ UNCHANGED <<pc, op, lock, pause, tries, polls, request, adrift, ran, quiet>>

(* time.monotonic()                                                         *)
Tick ==
  /\ cooldown' = [g \in Guests |-> IF cooldown[g] > 0 THEN cooldown[g] - 1 ELSE 0]
  /\ quiet' = [g \in Guests |-> IF quiet[g] < Gap THEN quiet[g] + 1 ELSE Gap]
  /\ UNCHANGED <<pc, op, lock, strayed, tries, polls, request, adrift, work>>

-----------------------------------------------------------------------------
CallerStep(c) ==
  \/ Woken(c)
  \/ Pace(c)
  \/ Accepted(c)
  \/ Refused(c)
  \/ Retry(c)
  \/ Polled(c)
  \/ Nap(c)
  \/ TimesOut(c)

Cancel(c) ==
  \/ CancelWaiting(c)
  \/ CancelPacing(c)
  \/ CancelBody(c)

PveStep(c) ==
  \/ PveStarts(c)
  \/ PvePolled(c)
  \/ PveRefuses(c)
  \/ Drift(c)
  \/ ProcessExits(c)

Next ==
  \/ \E c \in Callers :
       AskFree(c) \/ AskBusy(c) \/ CallerStep(c) \/ Cancel(c) \/ Again(c) \/ PveStep(c)
  \/ Tick

Spec == Init /\ [][Next]_vars

(* The event loop resumes a coroutine whose await is over, httpx ends every *)
(* request after its 15 to 30 seconds, and time passes.  PVE and the guest  *)
(* need not answer, and nobody has to cancel.                               *)
FairSpec ==
  /\ Spec
  /\ \A c \in Callers : WF_vars(CallerStep(c))
  /\ WF_vars(Tick)

-----------------------------------------------------------------------------
(* Type correctness, with the bounds on attempts, polls and pacing that     *)
(* call_with_retries, run_guest_exec and guest_agent_command keep.          *)
TypeOK ==
  /\ pc \in [Callers -> {"idle", "waiting"} \cup Inside \cup Ended]
  /\ op \in [Callers -> Ops]
  /\ locked \subseteq Guests
  /\ queue \in [Guests -> Seq(Callers)]
  /\ cooldown \in [Guests -> 0..Gap]
  /\ tries \in [Callers -> 0..Attempts]
  /\ polls \in [Callers -> 0..MaxPolls]
  /\ request \in [Callers -> {"none", "sent", "ok", "exited", "refused"}]
  /\ adrift \in [Callers -> SUBSET {"start", "poll"}]
  /\ ran \in [Callers -> Nat]
  /\ process \in [Callers -> {"none", "running", "exited"}]
  /\ quiet \in [Guests -> 0..Gap]
  /\ strayed \subseteq Guests

(* "Nothing else from this app may interleave for the full duration": no    *)
(* two callers have a request out to one guest, through retries, polls,     *)
(* cancellations of holders and of waiters (run_guest_exec).                *)
NoOverlap ==
  \A c, d \in Callers :
    c # d /\ GuestOf[c] = GuestOf[d] /\ request[c] # "none" => request[d] = "none"

(* A command is carried out at most once, whatever is retried, lost or      *)
(* abandoned; one that returned was carried out, and an exec's process has  *)
(* exited (call_with_retries, "never on an ambiguous timeout").             *)
RunsOnce ==
  \A c \in Callers :
    /\ ran[c] <= 1
    /\ pc[c] = "returned" /\ op[c] \in {"write", "exec"} => ran[c] = 1
    /\ pc[c] = "returned" /\ op[c] = "exec" => process[c] = "exited"

(* Someone else gets a turn: a new command of ours reaches a guest only     *)
(* after the guest served nothing of ours for the configured gap, however   *)
(* the command before it ended (guest_agent_min_command_gap_seconds).  The  *)
(* one exception is what the lock cannot see: a request whose caller gave   *)
(* up on it and that PVE carried out after the lock was last released.      *)
GapKept ==
  [][\A c \in Callers :
       pc[c] = "pacing" /\ request'[c] = "sent" =>
         quiet[GuestOf[c]] >= Gap \/ GuestOf[c] \in strayed]_vars

(* Whoever asks for the channel is served and let go, even if PVE never     *)
(* answers and other callers keep coming back or are cancelled.             *)
EveryCallEnds ==
  \A c \in Callers : pc[c] \in {"waiting"} \cup Inside ~> pc[c] \in Ended

(* The inductive invariant.  The lock flag belongs to one caller inside, a  *)
(* request is only out from inside the lock, and the command of a caller    *)
(* that may still be sent or tried again has not been carried out.          *)
LockHeld ==
  /\ \A c \in Callers : pc[c] \in Inside => GuestOf[c] \in locked
  /\ \A c, d \in Callers :
       pc[c] \in Inside /\ pc[d] \in Inside /\ GuestOf[c] = GuestOf[d] => c = d
  /\ \A c \in Callers : request[c] # "none" => pc[c] \in {"posting", "polling"}

StartPending(c) ==
  \/ pc[c] \in {"idle", "waiting", "pacing", "backoff"}
  \/ pc[c] = "posting" /\ request[c] \in {"sent", "refused"}

CommandOnce ==
  \A c \in Callers :
    /\ StartPending(c) => ran[c] = 0 /\ adrift[c] = {}
    /\ "start" \in adrift[c] => ran[c] = 0 /\ pc[c] \in Ended
    /\ pc[c] = "posting" /\ request[c] \in {"ok", "exited"} =>
         ran[c] = 1 /\ request[c] = "ok"
    /\ pc[c] \in {"polling", "napping"} => ran[c] = 1 /\ op[c] = "exec"
    /\ request[c] = "exited" => process[c] = "exited"
    /\ pc[c] = "posting" => tries[c] \in 1..AttemptsFor(op[c])
    /\ pc[c] = "backoff" => tries[c] \in 1..(AttemptsFor(op[c]) - 1)

(* Time on a guest's clock since its last request is at least the time its  *)
(* cooldown has run, as long as nobody is inside the body and no abandoned  *)
(* request came in between.                                                 *)
GapRuns ==
  \A g \in Guests :
    \/ quiet[g] + cooldown[g] >= Gap
    \/ g \in strayed
    \/ \E c \in Callers : GuestOf[c] = g /\ pc[c] \in Inside \ {"pacing"}

ChannelInv == TypeOK /\ LockHeld /\ CommandOnce /\ RunsOnce /\ GapRuns
=============================================================================
