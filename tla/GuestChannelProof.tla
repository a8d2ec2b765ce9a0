-------------------------- MODULE GuestChannelProof --------------------------
(***************************************************************************)
(* Theorems about GuestChannel, for any number of callers and guests, any  *)
(* number of attempts and polls and any gap.                               *)
(***************************************************************************)
EXTENDS GuestChannel, SequenceTheorems, TLAPS

(* What a release changes is expanded in every proof of this module.        *)
USE DEF pause

(* The constants a step draws on, as a caller sees them.                    *)
LEMMA CallerConstants ==
  ASSUME NEW c \in Callers
  PROVE  /\ GuestOf[c] \in Guests
         /\ Commands[c] \subseteq Ops
         /\ 1 \in 0..MaxPolls /\ 0 \in 0..MaxPolls
         /\ 1 \in 0..Attempts /\ 0 \in 0..Attempts
         /\ 0 \in 0..Gap /\ Gap \in 0..Gap
         /\ \A o \in Ops : AttemptsFor(o) \in 1..Attempts
  BY ChannelAssumption DEF AttemptsFor

(* A queue without one of its members is still a queue of callers.          *)
LEMMA QueueRemoval ==
  ASSUME NEW S, NEW q \in Seq(S), NEW i \in 1..Len(q)
  PROVE  SubSeq(q, 1, i - 1) \o SubSeq(q, i + 1, Len(q)) \in Seq(S)
<1>1. SubSeq(q, 1, i - 1) \in Seq(S) /\ SubSeq(q, i + 1, Len(q)) \in Seq(S)
  BY LenProperties, SubSeqProperties
<1> QED
  BY <1>1, ConcatProperties

(* What the steps inside the lock have in common: the caller is in the body *)
(* of its command and either stays there, lock in hand, or leaves with the  *)
(* lock released and the gap started.                                       *)
BodyStep(c) ==
  \/ Accepted(c)
  \/ Refused(c)
  \/ Polled(c)
  \/ Nap(c)
  \/ TimesOut(c)
  \/ CancelBody(c)

Stays(c) ==
  /\ \E p \in {"backoff", "polling", "napping"} : pc' = [pc EXCEPT ![c] = p]
  /\ locked' = locked
  /\ UNCHANGED pause
  /\ \E r \in {"none", "sent"} :
       /\ request' = [request EXCEPT ![c] = r]
       /\ r = "sent" => pc' = [pc EXCEPT ![c] = "polling"]

Leaves(c) ==
  /\ \E p \in Ended : pc' = [pc EXCEPT ![c] = p]
  /\ locked' = locked \ {GuestOf[c]}
  /\ cooldown' = [cooldown EXCEPT ![GuestOf[c]] = Gap]
  /\ strayed' = strayed \ {GuestOf[c]}
  /\ request' = [request EXCEPT ![c] = "none"]

(* Every step of the body is one of the two.                                *)
LEMMA BodyStepCases ==
  ASSUME TypeOK, LockHeld, NEW c \in Callers, BodyStep(c)
  PROVE  /\ pc[c] \in Inside \ {"pacing"}
         /\ quiet' = quiet
         /\ Stays(c) \/ Leaves(c)
<1> USE DEF Inside, Ended
<1>1. CASE Accepted(c)
  <2>1. CASE op[c] = "exec"
    BY <1>1, <2>1 DEF Accepted, Stay, Stays, lock
  <2>2. CASE op[c] # "exec"
    BY <1>1, <2>2 DEF Accepted, Leave, Release, Leaves
  <2> QED
    BY <2>1, <2>2
<1>2. CASE Refused(c)
  <2>1. CASE tries[c] < AttemptsFor(op[c])
    BY <1>2, <2>1 DEF Refused, Stay, Stays, lock
  <2>2. CASE ~(tries[c] < AttemptsFor(op[c]))
    BY <1>2, <2>2 DEF Refused, Leave, Release, Leaves, Failure
  <2> QED
    BY <2>1, <2>2
<1>3. CASE Polled(c)
  <2>1. CASE request[c] = "exited"
    BY <1>3, <2>1 DEF Polled, Leave, Release, Leaves
  <2>2. CASE request[c] # "exited"
    BY <1>3, <2>2 DEF Polled, Stay, Stays, lock
  <2> QED
    BY <2>1, <2>2
<1>4. CASE Nap(c)
  <2>1. CASE polls[c] < MaxPolls
    BY <1>4, <2>1 DEF Nap, Stay, Stays, lock
  <2>2. CASE ~(polls[c] < MaxPolls)
    <3>1. request[c] = "none"
      BY <1>4 DEF Nap, LockHeld, TypeOK
    <3>2. request' = [request EXCEPT ![c] = "none"]
      BY <1>4, <2>2, <3>1 DEF Nap, TypeOK
    <3> QED
      BY <1>4, <2>2, <3>2 DEF Nap, Leave, Release, Leaves
  <2> QED
    BY <2>1, <2>2
<1>5. CASE TimesOut(c)
  <2>0. pc[c] \in {"posting", "polling"}
    BY <1>5 DEF TimesOut, LockHeld
  <2>1. CASE pc[c] = "polling"
    BY <1>5, <2>1 DEF TimesOut, Abandon, Stay, Stays, lock
  <2>2. CASE pc[c] # "polling"
    BY <1>5, <2>0, <2>2 DEF TimesOut, Abandon, Leave, Release, Leaves, Failure
  <2> QED
    BY <2>1, <2>2
<1>6. CASE CancelBody(c)
  BY <1>6 DEF CancelBody, Abandon, Leave, Release, Leaves
<1> QED
  BY <1>1, <1>2, <1>3, <1>4, <1>5, <1>6 DEF BodyStep

-----------------------------------------------------------------------------
(* No step takes the lock from the caller that is inside, lets a second one *)
(* in, or leaves a request out once its caller has left.                    *)
LEMMA LockStep ==
  ASSUME TypeOK, LockHeld, [Next]_vars
  PROVE  LockHeld'
<1> USE CallerConstants DEF TypeOK, LockHeld, Inside, Ended
<1>1. ASSUME NEW c \in Callers, AskFree(c) \/ Woken(c) PROVE LockHeld'
  <2>1. /\ GuestOf[c] \notin locked
        /\ locked' = locked \cup {GuestOf[c]}
        /\ pc' = [pc EXCEPT ![c] = "pacing"]
        /\ request' = request
        /\ pc[c] \in {"idle", "waiting"}
    BY <1>1 DEF AskFree, Woken
  <2>2. \A d \in Callers : pc[d] \in Inside => GuestOf[d] # GuestOf[c]
    BY <2>1
  <2>3. pc'[c] = "pacing" /\ \A d \in Callers \ {c} : pc'[d] = pc[d]
    BY <2>1
  <2>4. \A d \in Callers : pc'[d] \in Inside => GuestOf[d] \in locked'
    BY <2>1, <2>3
  <2>5. ASSUME NEW d \in Callers, NEW e \in Callers, pc'[d] \in Inside, pc'[e] \in Inside,
               GuestOf[d] = GuestOf[e]
        PROVE  d = e
    <3>1. CASE d = c
      BY <2>2, <2>3, <2>5, <3>1
    <3>2. CASE e = c
      BY <2>2, <2>3, <2>5, <3>2
    <3>3. CASE d # c /\ e # c
      BY <2>3, <2>5, <3>3
    <3> QED
      BY <3>1, <3>2, <3>3
  <2>6. \A d \in Callers : request'[d] # "none" => pc'[d] \in {"posting", "polling"}
    BY <2>1, <2>3
  <2> QED
    BY <2>4, <2>5, <2>6
<1>2. ASSUME NEW c \in Callers, AskBusy(c) PROVE LockHeld'
  BY <1>2 DEF AskBusy
<1>3. ASSUME NEW c \in Callers, Pace(c) \/ Retry(c) PROVE LockHeld'
  <2>1. /\ pc[c] \in Inside
        /\ pc' = [pc EXCEPT ![c] = "posting"]
        /\ locked' = locked
        /\ request' = [request EXCEPT ![c] = "sent"]
    BY <1>3 DEF Pace, Retry, lock
  <2>2. \A d \in Callers : pc'[d] \in Inside => pc[d] \in Inside
    BY <2>1
  <2> QED
    BY <2>1, <2>2
<1>4. ASSUME NEW c \in Callers, BodyStep(c) PROVE LockHeld'
  <2>0. pc[c] \in Inside
    BY <1>4, BodyStepCases
  <2>1. CASE Stays(c)
    <3>1. locked' = locked /\ \A d \in Callers : pc'[d] \in Inside => pc[d] \in Inside
      BY <2>0, <2>1 DEF Stays
    <3>2. \A d \in Callers : request'[d] # "none" => pc'[d] \in {"posting", "polling"}
      BY <2>1 DEF Stays
    <3> QED
      BY <3>1, <3>2
  <2>2. CASE Leaves(c)
    <3>1. \A d \in Callers : d # c /\ pc'[d] \in Inside => GuestOf[d] # GuestOf[c]
      BY <2>0, <2>2 DEF Leaves
    <3> QED
      BY <2>2, <3>1 DEF Leaves
  <2> QED
    BY <1>4, <2>1, <2>2, BodyStepCases
<1>5. ASSUME NEW c \in Callers, CancelWaiting(c) PROVE LockHeld'
  <2>1. /\ pc[c] = "waiting"
        /\ locked' = locked
        /\ pc' = [pc EXCEPT ![c] = "cancelled"]
        /\ request' = request
    BY <1>5 DEF CancelWaiting
  <2> QED
    BY <2>1
<1>6. ASSUME NEW c \in Callers, CancelPacing(c) PROVE LockHeld'
  BY <1>6 DEF CancelPacing
<1>7. ASSUME NEW c \in Callers, Again(c) PROVE LockHeld'
  BY <1>7 DEF Again, lock
<1>8. ASSUME NEW c \in Callers, PveStep(c) PROVE LockHeld'
  <2>1. /\ pc' = pc
        /\ locked' = locked
        /\ \A d \in Callers : request'[d] # "none" => request[d] # "none"
    BY <1>8 DEF PveStep, PveStarts, PvePolled, PveRefuses, Drift, ProcessExits, lock
  <2> QED
    BY <2>1
<1>9. CASE Tick
  BY <1>9 DEF Tick, lock
<1>10. CASE UNCHANGED vars
  BY <1>10 DEF vars
<1> QED
  BY <1>1, <1>2, <1>3, <1>4, <1>5, <1>6, <1>7, <1>8, <1>9, <1>10
     DEF Next, CallerStep, Cancel, BodyStep

-----------------------------------------------------------------------------
(* Every step keeps every variable within its type.                         *)
LEMMA TypeStep ==
  ASSUME TypeOK, CommandOnce, [Next]_vars
  PROVE  TypeOK'
<1> USE CallerConstants DEF TypeOK, Inside, Ended, lock, work
<1>1. ASSUME NEW c \in Callers, AskFree(c) PROVE TypeOK'
  <2>1. op' \in [Callers -> Ops]
    BY <1>1 DEF AskFree
  <2> QED
    BY <1>1, <2>1 DEF AskFree
<1>2. ASSUME NEW c \in Callers, AskBusy(c) PROVE TypeOK'
  <2>1. op' \in [Callers -> Ops] /\ queue' \in [Guests -> Seq(Callers)]
    BY <1>2 DEF AskBusy
  <2> QED
    BY <1>2, <2>1 DEF AskBusy
<1>3. ASSUME NEW c \in Callers, Woken(c) PROVE TypeOK'
  <2>1. queue' \in [Guests -> Seq(Callers)]
    BY <1>3 DEF Woken
  <2> QED
    BY <1>3, <2>1 DEF Woken
<1>4. ASSUME NEW c \in Callers, Pace(c) PROVE TypeOK'
  BY <1>4 DEF Pace
<1>5. ASSUME NEW c \in Callers, NEW how \in Ended, Leave(c, how)
      PROVE  /\ pc' \in [Callers -> {"idle", "waiting"} \cup Inside \cup Ended]
             /\ locked' \subseteq Guests
             /\ queue' \in [Guests -> Seq(Callers)]
             /\ cooldown' \in [Guests -> 0..Gap]
             /\ tries' \in [Callers -> 0..Attempts]
             /\ polls' \in [Callers -> 0..MaxPolls]
             /\ strayed' \subseteq Guests
  <2>1. cooldown' = [cooldown EXCEPT ![GuestOf[c]] = Gap] /\ queue' = queue
    BY <1>5 DEF Leave, Release
  <2>2. tries' \in [Callers -> 0..Attempts] /\ polls' \in [Callers -> 0..MaxPolls]
    BY <1>5 DEF Leave
  <2>3. pc' \in [Callers -> {"idle", "waiting"} \cup Inside \cup Ended]
    BY <1>5 DEF Leave
  <2> QED
    BY <1>5, <2>1, <2>2, <2>3 DEF Leave, Release
<1>6. ASSUME NEW c \in Callers, Accepted(c) PROVE TypeOK'
  <2>1. CASE op[c] = "exec"
    BY <1>6, <2>1 DEF Accepted, Stay
  <2>2. CASE op[c] # "exec"
    <3>1. Leave(c, "returned")
      BY <1>6, <2>2 DEF Accepted
    <3> QED
      BY <1>5, <1>6, <2>2, <3>1 DEF Accepted
  <2> QED
    BY <2>1, <2>2
<1>7. ASSUME NEW c \in Callers, Refused(c) PROVE TypeOK'
  <2>1. CASE tries[c] < AttemptsFor(op[c])
    BY <1>7, <2>1 DEF Refused, Stay
  <2>2. CASE ~(tries[c] < AttemptsFor(op[c]))
    <3>1. Leave(c, "returned") \/ Leave(c, "raised")
      BY <1>7, <2>2 DEF Refused, Failure
    <3> QED
      BY <1>5, <1>7, <3>1 DEF Refused
  <2> QED
    BY <2>1, <2>2
<1>8. ASSUME NEW c \in Callers, Retry(c) PROVE TypeOK'
  <2>1. tries[c] + 1 \in 0..Attempts
    BY <1>8, ChannelAssumption DEF Retry, CommandOnce
  <2> QED
    BY <1>8, <2>1 DEF Retry
<1>9. ASSUME NEW c \in Callers, Polled(c) PROVE TypeOK'
  <2>1. CASE request[c] = "exited"
    <3>1. Leave(c, "returned")
      BY <1>9, <2>1 DEF Polled
    <3> QED
      BY <1>5, <1>9, <3>1 DEF Polled
  <2>2. CASE request[c] # "exited"
    BY <1>9, <2>2 DEF Polled, Stay
  <2> QED
    BY <2>1, <2>2
<1>10. ASSUME NEW c \in Callers, Nap(c) PROVE TypeOK'
  <2>1. CASE polls[c] < MaxPolls
    <3>1. polls[c] + 1 \in 0..MaxPolls
      BY <2>1, ChannelAssumption
    <3>2. /\ pc' = [pc EXCEPT ![c] = "polling"]
          /\ polls' = [polls EXCEPT ![c] = polls[c] + 1]
          /\ request' = [request EXCEPT ![c] = "sent"]
          /\ UNCHANGED <<op, locked, queue, pause, tries, adrift, ran, process, quiet>>
      BY <1>10, <2>1 DEF Nap, Stay
    <3>3. /\ pc' \in [Callers -> {"idle", "waiting"} \cup Inside \cup Ended]
          /\ request' \in [Callers -> {"none", "sent", "ok", "exited", "refused"}]
      BY <3>2
    <3>4. polls' \in [Callers -> 0..MaxPolls]
      BY <3>1, <3>2
    <3> QED
      BY <3>2, <3>3, <3>4
  <2>2. CASE ~(polls[c] < MaxPolls)
    <3>1. Leave(c, "raised") /\ request' = request
      BY <1>10, <2>2 DEF Nap
    <3> QED
      BY <1>5, <1>10, <3>1 DEF Nap
  <2> QED
    BY <2>1, <2>2
<1>11. ASSUME NEW c \in Callers, Abandon(c)
       PROVE  /\ request' \in [Callers -> {"none", "sent", "ok", "exited", "refused"}]
              /\ adrift' \in [Callers -> SUBSET {"start", "poll"}]
  BY <1>11 DEF Abandon
<1>12. ASSUME NEW c \in Callers, TimesOut(c) PROVE TypeOK'
  <2>1. CASE pc[c] = "polling"
    BY <1>11, <1>12, <2>1 DEF TimesOut, Stay
  <2>2. CASE pc[c] # "polling"
    <3>1. Leave(c, "returned") \/ Leave(c, "raised")
      BY <1>12, <2>2 DEF TimesOut, Failure
    <3> QED
      BY <1>5, <1>11, <1>12, <3>1 DEF TimesOut
  <2> QED
    BY <2>1, <2>2
<1>13. ASSUME NEW c \in Callers, CancelBody(c) PROVE TypeOK'
  BY <1>5, <1>11, <1>13 DEF CancelBody
<1>14. ASSUME NEW c \in Callers, CancelWaiting(c) PROVE TypeOK'
  <2> DEFINE q == queue[GuestOf[c]]
  <2>0. q \in Seq(Callers)
    OBVIOUS
  <2>p. PICK i \in 1..Len(q) :
          queue' = [queue EXCEPT ![GuestOf[c]] =
                      SubSeq(q, 1, i - 1) \o SubSeq(q, i + 1, Len(q))]
    BY <1>14 DEF CancelWaiting
  <2>r. SubSeq(q, 1, i - 1) \o SubSeq(q, i + 1, Len(q)) \in Seq(Callers)
    BY <2>0, QueueRemoval
  <2> HIDE DEF q
  <2>1. queue' \in [Guests -> Seq(Callers)]
    BY <2>p, <2>r
  <2> QED
    BY <1>14, <2>1 DEF CancelWaiting
<1>15. ASSUME NEW c \in Callers, CancelPacing(c) PROVE TypeOK'
  BY <1>15 DEF CancelPacing
<1>16. ASSUME NEW c \in Callers, Again(c) PROVE TypeOK'
  <2>1. op' \in [Callers -> Ops]
    BY <1>16 DEF Again, Ops
  <2> QED
    BY <1>16, <2>1 DEF Again
<1>17. ASSUME NEW c \in Callers, PvePolled(c) PROVE TypeOK'
  BY <1>17 DEF PvePolled
<1>r. ASSUME NEW c \in Callers, PveRefuses(c) PROVE TypeOK'
  BY <1>r DEF PveRefuses
<1>c. ASSUME NEW c \in Callers, CarriedOut(c)
      PROVE  ran' \in [Callers -> Nat] /\ process' \in [Callers -> {"none", "running", "exited"}]
  BY <1>c DEF CarriedOut
<1>s. ASSUME NEW c \in Callers, PveStarts(c) PROVE TypeOK'
  BY <1>c, <1>s DEF PveStarts
<1>18. ASSUME NEW c \in Callers, Drift(c) PROVE TypeOK'
  <2>1. PICK r \in adrift[c] : adrift' = [adrift EXCEPT ![c] = adrift[c] \ {r}]
    BY <1>18 DEF Drift
  <2>2. adrift' \in [Callers -> SUBSET {"start", "poll"}]
    BY <2>1
  <2>3. ran' \in [Callers -> Nat] /\ process' \in [Callers -> {"none", "running", "exited"}]
    BY <1>c, <1>18 DEF Drift
  <2>4. quiet' \in [Guests -> 0..Gap] /\ strayed' \subseteq Guests
    BY <1>18 DEF Drift
  <2> QED
    BY <1>18, <2>2, <2>3, <2>4 DEF Drift
<1>19. ASSUME NEW c \in Callers, ProcessExits(c) PROVE TypeOK'
  BY <1>19 DEF ProcessExits
<1>20. CASE Tick
  <2>1. cooldown' \in [Guests -> 0..Gap] /\ quiet' \in [Guests -> 0..Gap]
    BY <1>20, ChannelAssumption DEF Tick
  <2> QED
    BY <1>20, <2>1 DEF Tick
<1>21. CASE UNCHANGED vars
  BY <1>21 DEF vars
<1> QED
  BY <1>1, <1>2, <1>3, <1>4, <1>6, <1>7, <1>8, <1>9, <1>10, <1>12, <1>13, <1>14,
     <1>15, <1>16, <1>17, <1>r, <1>s, <1>18, <1>19, <1>20, <1>21
     DEF Next, CallerStep, Cancel, PveStep

-----------------------------------------------------------------------------
(* No step gives a command that was carried out, or may still be, a second  *)
(* chance, and none reports one that was not.                               *)
LEMMA OnceStep ==
  ASSUME TypeOK, LockHeld, CommandOnce, RunsOnce, [Next]_vars
  PROVE  (CommandOnce /\ RunsOnce)'
<1> USE CallerConstants DEF TypeOK, CommandOnce, RunsOnce, StartPending, Inside, Ended, Ops,
                            lock, work
<1>1. ASSUME NEW c \in Callers, AskFree(c) PROVE (CommandOnce /\ RunsOnce)'
  <2>1. /\ pc[c] = "idle"
        /\ pc' = [pc EXCEPT ![c] = "pacing"]
        /\ \A d \in Callers \ {c} : op'[d] = op[d]
        /\ UNCHANGED <<tries, request, adrift, ran, process>>
    BY <1>1 DEF AskFree
  <2> QED
    BY <2>1
<1>2. ASSUME NEW c \in Callers, AskBusy(c) PROVE (CommandOnce /\ RunsOnce)'
  <2>1. /\ pc[c] = "idle"
        /\ pc' = [pc EXCEPT ![c] = "waiting"]
        /\ \A d \in Callers \ {c} : op'[d] = op[d]
        /\ UNCHANGED <<tries, request, adrift, ran, process>>
    BY <1>2 DEF AskBusy
  <2> QED
    BY <2>1
<1>3. ASSUME NEW c \in Callers, Woken(c) PROVE (CommandOnce /\ RunsOnce)'
  <2>1. /\ pc[c] = "waiting"
        /\ pc' = [pc EXCEPT ![c] = "pacing"]
        /\ UNCHANGED <<op, tries, request, adrift, ran, process>>
    BY <1>3 DEF Woken
  <2> QED
    BY <2>1
<1>4. ASSUME NEW c \in Callers, Pace(c) PROVE (CommandOnce /\ RunsOnce)'
  <2>1. 1 \in 1..AttemptsFor(op[c])
    BY ChannelAssumption DEF AttemptsFor
  <2> QED
    BY <1>4, <2>1 DEF Pace
<1>5. ASSUME NEW c \in Callers, Accepted(c) PROVE (CommandOnce /\ RunsOnce)'
  <2>1. CASE op[c] = "exec"
    BY <1>5, <2>1 DEF Accepted, Stay
  <2>2. CASE op[c] # "exec"
    BY <1>5, <2>2 DEF Accepted, Leave
  <2> QED
    BY <2>1, <2>2
<1>6. ASSUME NEW c \in Callers, Refused(c) PROVE (CommandOnce /\ RunsOnce)'
  <2>0. AttemptsFor(op[c]) \in Nat
    BY ChannelAssumption DEF AttemptsFor
  <2>1. CASE tries[c] < AttemptsFor(op[c])
    <3>1. tries[c] \in 1..(AttemptsFor(op[c]) - 1)
      BY <1>6, <2>0, <2>1 DEF Refused
    <3> QED
      BY <1>6, <2>1, <3>1 DEF Refused, Stay
  <2>2. CASE ~(tries[c] < AttemptsFor(op[c]))
    BY <1>6, <2>2 DEF Refused, Leave, Failure
  <2> QED
    BY <2>1, <2>2
<1>7. ASSUME NEW c \in Callers, Retry(c) PROVE (CommandOnce /\ RunsOnce)'
  <2>0. AttemptsFor(op[c]) \in Nat
    BY ChannelAssumption DEF AttemptsFor
  <2>1. tries[c] + 1 \in 1..AttemptsFor(op[c])
    BY <1>7, <2>0 DEF Retry
  <2> QED
    BY <1>7, <2>1 DEF Retry
<1>8. ASSUME NEW c \in Callers, Polled(c) PROVE (CommandOnce /\ RunsOnce)'
  BY <1>8 DEF Polled, Leave, Stay
<1>9. ASSUME NEW c \in Callers, Nap(c) PROVE (CommandOnce /\ RunsOnce)'
  <2>1. UNCHANGED <<op, adrift, ran, process>>
    BY <1>9 DEF Nap
  <2>2. CASE polls[c] < MaxPolls
    BY <1>9, <2>1, <2>2 DEF Nap, Stay
  <2>3. CASE ~(polls[c] < MaxPolls)
    <3>1. /\ pc' = [pc EXCEPT ![c] = "raised"]
          /\ tries' = [tries EXCEPT ![c] = 0]
          /\ request' = request
      BY <1>9, <2>3 DEF Nap, Leave
    <3>2. pc[c] = "napping" /\ "start" \notin adrift[c]
      BY <1>9 DEF Nap
    <3> QED
      BY <2>1, <3>1, <3>2
  <2> QED
    BY <2>2, <2>3
<1>10. ASSUME NEW c \in Callers, TimesOut(c) PROVE (CommandOnce /\ RunsOnce)'
  <2>0. /\ pc[c] \in {"posting", "polling"}
        /\ request' = [request EXCEPT ![c] = "none"]
        /\ UNCHANGED <<op, ran, process>>
    BY <1>10 DEF TimesOut, Abandon, LockHeld
  <2>1. CASE pc[c] = "polling"
    BY <1>10, <2>0, <2>1 DEF TimesOut, Abandon, Stay
  <2>2. CASE pc[c] = "posting"
    <3>1. \/ pc' = [pc EXCEPT ![c] = "raised"]
          \/ pc' = [pc EXCEPT ![c] = "returned"] /\ op[c] \in {"info", "osinfo"}
      BY <1>10, <2>2 DEF TimesOut, Leave, Failure
    <3>2. adrift' = [adrift EXCEPT ![c] = IF request[c] # "sent" THEN @ ELSE @ \cup {"start"}]
      BY <1>10, <2>2 DEF TimesOut, Abandon
    <3>3. tries' = [tries EXCEPT ![c] = 0]
      BY <1>10, <2>2 DEF TimesOut, Leave
    <3> QED
      BY <2>0, <2>2, <3>1, <3>2, <3>3
  <2> QED
    BY <2>0, <2>1, <2>2
<1>11. ASSUME NEW c \in Callers, CancelWaiting(c) \/ CancelPacing(c)
       PROVE  (CommandOnce /\ RunsOnce)'
  <2>1. /\ pc' = [pc EXCEPT ![c] = "cancelled"]
        /\ pc[c] \in {"waiting", "pacing"}
        /\ UNCHANGED <<op, tries, request, adrift, ran, process>>
    BY <1>11 DEF CancelWaiting, CancelPacing
  <2> QED
    BY <2>1
<1>13. ASSUME NEW c \in Callers, CancelBody(c) PROVE (CommandOnce /\ RunsOnce)'
  BY <1>13 DEF CancelBody, Abandon, Leave, LockHeld
<1>14. ASSUME NEW c \in Callers, Again(c) PROVE (CommandOnce /\ RunsOnce)'
  BY <1>14 DEF Again, LockHeld
<1>15. ASSUME NEW c \in Callers, PveStarts(c) PROVE (CommandOnce /\ RunsOnce)'
  BY <1>15 DEF PveStarts, CarriedOut
<1>16. ASSUME NEW c \in Callers, PvePolled(c) PROVE (CommandOnce /\ RunsOnce)'
  BY <1>16 DEF PvePolled
<1>17. ASSUME NEW c \in Callers, PveRefuses(c) PROVE (CommandOnce /\ RunsOnce)'
  BY <1>17 DEF PveRefuses
<1>18. ASSUME NEW c \in Callers, Drift(c) PROVE (CommandOnce /\ RunsOnce)'
  <2>1. PICK r \in adrift[c] :
          /\ adrift' = [adrift EXCEPT ![c] = adrift[c] \ {r}]
          /\ \/ r = "start" /\ CarriedOut(c)
             \/ UNCHANGED work
    BY <1>18 DEF Drift
  <2>2. CASE UNCHANGED work
    BY <1>18, <2>1, <2>2 DEF Drift
  <2>3. CASE r = "start" /\ CarriedOut(c)
    BY <1>18, <2>1, <2>3 DEF Drift, CarriedOut, LockHeld
  <2> QED
    BY <2>1, <2>2, <2>3
<1>19. ASSUME NEW c \in Callers, ProcessExits(c) PROVE (CommandOnce /\ RunsOnce)'
  BY <1>19 DEF ProcessExits
<1>20. CASE Tick
  BY <1>20 DEF Tick
<1>21. CASE UNCHANGED vars
  BY <1>21 DEF vars
<1> QED
  BY <1>1, <1>2, <1>3, <1>4, <1>5, <1>6, <1>7, <1>8, <1>9, <1>10, <1>11, <1>13,
     <1>14, <1>15, <1>16, <1>17, <1>18, <1>19, <1>20, <1>21
     DEF Next, CallerStep, Cancel, PveStep

-----------------------------------------------------------------------------
(* A guest's clock and its cooldown run together while nobody is in the     *)
(* body of a command, and a command that ends starts the cooldown anew.     *)
LEMMA GapStep ==
  ASSUME TypeOK, LockHeld, GapRuns, [Next]_vars
  PROVE  GapRuns'
<1> USE CallerConstants DEF TypeOK, GapRuns, Inside, Ended
<1>1. ASSUME NEW c \in Callers, pc[c] \notin Inside \ {"pacing"},
             \A d \in Callers \ {c} : pc'[d] = pc[d], UNCHANGED <<pause, quiet>>
      PROVE  GapRuns'
  <2>1. SUFFICES ASSUME NEW g \in Guests
                 PROVE  \/ quiet'[g] + cooldown'[g] >= Gap \/ g \in strayed'
                        \/ \E d \in Callers : GuestOf[d] = g /\ pc'[d] \in Inside \ {"pacing"}
    OBVIOUS
  <2>2. CASE quiet[g] + cooldown[g] >= Gap \/ g \in strayed
    BY <1>1, <2>2
  <2>3. CASE \E d \in Callers : GuestOf[d] = g /\ pc[d] \in Inside \ {"pacing"}
    <3>1. PICK d \in Callers : GuestOf[d] = g /\ pc[d] \in Inside \ {"pacing"}
      BY <2>3
    <3>2. pc'[d] = pc[d]
      BY <1>1, <3>1
    <3> QED
      BY <3>1, <3>2
  <2> QED
    BY <2>2, <2>3
<1>2. ASSUME NEW c \in Callers,
             AskFree(c) \/ AskBusy(c) \/ Woken(c) \/ Pace(c) \/ CancelWaiting(c)
               \/ CancelPacing(c) \/ Again(c)
      PROVE  GapRuns'
  <2> USE DEF AskFree, AskBusy, Woken, Pace, CancelWaiting, CancelPacing, Again
  <2>1. pc[c] \in {"idle", "waiting", "pacing"} \cup Ended
    BY <1>2
  <2>2. UNCHANGED <<pause, quiet>>
    BY <1>2
  <2>3. \E p : pc' = [pc EXCEPT ![c] = p]
    BY <1>2
  <2>4. \A d \in Callers \ {c} : pc'[d] = pc[d]
    BY <2>3
  <2>5. pc[c] \notin Inside \ {"pacing"}
    BY <2>1
  <2> QED
    BY <1>1, <2>2, <2>4, <2>5
<1>3. ASSUME NEW c \in Callers, BodyStep(c) PROVE GapRuns'
  <2>1. CASE Stays(c)
    <3>1. quiet' = quiet
      BY <1>3, BodyStepCases
    <3>2. pc'[c] \in Inside \ {"pacing"} /\ \A d \in Callers \ {c} : pc'[d] = pc[d]
      BY <2>1 DEF Stays
    <3> QED
      BY <2>1, <3>1, <3>2 DEF Stays
  <2>2. CASE Leaves(c)
    <3>1. quiet' = quiet
      BY <1>3, BodyStepCases
    <3>2. \A d \in Callers \ {c} : pc'[d] = pc[d]
      BY <2>2 DEF Leaves
    <3>3. ASSUME NEW g \in Guests, g # GuestOf[c] PROVE cooldown'[g] = cooldown[g]
      BY <2>2, <3>3 DEF Leaves
    <3>4. cooldown'[GuestOf[c]] = Gap
      BY <2>2 DEF Leaves
    <3>5. quiet[GuestOf[c]] + Gap >= Gap
      BY ChannelAssumption
    <3>6. SUFFICES ASSUME NEW g \in Guests
                   PROVE  \/ quiet'[g] + cooldown'[g] >= Gap \/ g \in strayed'
                          \/ \E d \in Callers : GuestOf[d] = g /\ pc'[d] \in Inside \ {"pacing"}
      OBVIOUS
    <3>7. CASE g = GuestOf[c]
      BY <3>1, <3>4, <3>5, <3>7
    <3>8. CASE g # GuestOf[c]
      <4>1. quiet'[g] + cooldown'[g] = quiet[g] + cooldown[g]
        BY <3>1, <3>3, <3>8
      <4>2. \A d \in Callers : GuestOf[d] = g => pc'[d] = pc[d]
        BY <3>2, <3>8
      <4>3. CASE quiet[g] + cooldown[g] >= Gap \/ g \in strayed
        BY <2>2, <3>8, <4>1, <4>3 DEF Leaves
      <4>4. CASE \E d \in Callers : GuestOf[d] = g /\ pc[d] \in Inside \ {"pacing"}
        BY <4>2, <4>4
      <4> QED
        BY <4>3, <4>4
    <3> QED
      BY <3>7, <3>8
  <2> QED
    BY <1>3, <2>1, <2>2, BodyStepCases
<1>4. ASSUME NEW c \in Callers, Retry(c) PROVE GapRuns'
  BY <1>4 DEF Retry, lock
<1>5. ASSUME NEW c \in Callers, PveStarts(c) \/ PvePolled(c) \/ PveRefuses(c) PROVE GapRuns'
  <2>1. /\ pc[c] \in Inside \ {"pacing"}
        /\ pc' = pc
        /\ UNCHANGED pause
        /\ quiet' = [quiet EXCEPT ![GuestOf[c]] = 0]
    BY <1>5 DEF PveStarts, PvePolled, PveRefuses, LockHeld
  <2> QED
    BY <2>1
<1>6. ASSUME NEW c \in Callers, Drift(c) \/ ProcessExits(c) PROVE GapRuns'
  <2>1. pc' = pc /\ cooldown' = cooldown
    BY <1>6 DEF Drift, ProcessExits
  <2>2. \/ UNCHANGED <<quiet, strayed>>
        \/ /\ quiet' = [quiet EXCEPT ![GuestOf[c]] = 0]
           /\ strayed' = strayed \cup {GuestOf[c]}
    BY <1>6 DEF Drift, ProcessExits
  <2> QED
    BY <2>1, <2>2
<1>7. CASE Tick
  <2>1. SUFFICES ASSUME NEW g \in Guests, quiet[g] + cooldown[g] >= Gap
                 PROVE  quiet'[g] + cooldown'[g] >= Gap
    BY <1>7 DEF Tick
  <2> QED
    BY <1>7, <2>1, ChannelAssumption DEF Tick
<1>8. CASE UNCHANGED vars
  BY <1>8 DEF vars
<1> QED
  BY <1>2, <1>3, <1>4, <1>5, <1>6, <1>7, <1>8 DEF Next, CallerStep, Cancel, PveStep, BodyStep

-----------------------------------------------------------------------------
(* The inductive invariant holds in every reachable state.                  *)
LEMMA ChannelInvariance == Spec => []ChannelInv
<1>1. Init => ChannelInv
  <2> SUFFICES ASSUME Init PROVE ChannelInv
    OBVIOUS
  <2>1. TypeOK
    BY ChannelAssumption DEF Init, TypeOK, Inside, Ended, Ops
  <2>2. LockHeld /\ CommandOnce /\ RunsOnce
    BY DEF Init, LockHeld, CommandOnce, RunsOnce, StartPending, Inside, Ended
  <2>3. GapRuns
    BY ChannelAssumption DEF Init, GapRuns
  <2> QED
    BY <2>1, <2>2, <2>3 DEF ChannelInv
<1>2. ChannelInv /\ [Next]_vars => ChannelInv'
  BY TypeStep, LockStep, OnceStep, GapStep DEF ChannelInv
<1> QED
  BY <1>1, <1>2, PTL DEF Spec

(* Type correctness, with the bounds on attempts, polls and pacing.         *)
THEOREM ChannelTypeCorrect == Spec => []TypeOK
<1>1. ChannelInv => TypeOK
  BY DEF ChannelInv
<1> QED
  BY <1>1, ChannelInvariance, PTL

(* Two callers never have a request out to the same guest, whatever is      *)
(* retried, polled, timed out or cancelled.                                 *)
THEOREM RequestsNeverOverlap == Spec => []NoOverlap
<1>1. ChannelInv => NoOverlap
  BY DEF ChannelInv, TypeOK, LockHeld, NoOverlap, Inside
<1> QED
  BY <1>1, ChannelInvariance, PTL

(* A command is carried out at most once and reported as done only if it    *)
(* was.                                                                     *)
THEOREM CommandsRunOnce == Spec => []RunsOnce
<1>1. ChannelInv => RunsOnce
  BY DEF ChannelInv
<1> QED
  BY <1>1, ChannelInvariance, PTL

(* A guest gets its configured gap before every new command, unless an      *)
(* abandoned request was carried out since the lock was last released.      *)
THEOREM GapIsKept == Spec => GapKept
<1>1. ASSUME ChannelInv, [Next]_vars, NEW c \in Callers, pc[c] = "pacing", request'[c] = "sent"
      PROVE  quiet[GuestOf[c]] >= Gap \/ GuestOf[c] \in strayed
  <2>1. request[c] = "none"
    BY <1>1 DEF ChannelInv, TypeOK, LockHeld
  <2>2. Pace(c)
    <3>1. ASSUME NEW d \in Callers, d # c,
                 AskFree(d) \/ AskBusy(d) \/ CallerStep(d) \/ Cancel(d) \/ Again(d) \/ PveStep(d)
          PROVE  FALSE
      <4>1. CASE BodyStep(d)
        <5>1. Stays(d) \/ Leaves(d)
          BY <3>1, <4>1, <1>1, BodyStepCases DEF ChannelInv
        <5> QED
          BY <1>1, <2>1, <3>1, <5>1 DEF Stays, Leaves, ChannelInv, TypeOK
      <4>2. CASE ~BodyStep(d)
        BY <1>1, <2>1, <3>1, <4>2 DEF ChannelInv, TypeOK, BodyStep, CallerStep, Cancel, PveStep,
             AskFree, AskBusy, Woken, Pace, Retry, CancelWaiting, CancelPacing, Again,
             PveStarts, PvePolled, PveRefuses, Drift, ProcessExits
      <4> QED
        BY <4>1, <4>2
    <3>2. \/ AskFree(c) \/ AskBusy(c) \/ CallerStep(c) \/ Cancel(c) \/ Again(c) \/ PveStep(c)
      BY <1>1, <2>1, <3>1 DEF Next, Tick, vars
    <3>3. ~BodyStep(c)
      BY <1>1, BodyStepCases DEF ChannelInv, Inside
    <3> QED
      BY <1>1, <2>1, <3>2, <3>3 DEF BodyStep, CallerStep, Cancel, PveStep, AskFree, AskBusy,
           Woken, Retry, CancelWaiting, CancelPacing, Again, PveStarts, PvePolled, PveRefuses,
           Drift, ProcessExits, Ended
  <2>3. \A d \in Callers : GuestOf[d] = GuestOf[c] => pc[d] \notin Inside \ {"pacing"}
    BY <1>1 DEF ChannelInv, LockHeld, Inside
  <2>4. quiet[GuestOf[c]] + cooldown[GuestOf[c]] >= Gap \/ GuestOf[c] \in strayed
    BY <1>1, <2>3, CallerConstants DEF ChannelInv, GapRuns
  <2> QED
    BY <1>1, <2>2, <2>4, CallerConstants DEF ChannelInv, TypeOK, Pace
<1>2. ChannelInv /\ [Next]_vars =>
        [\A c \in Callers : pc[c] = "pacing" /\ request'[c] = "sent"
              => quiet[GuestOf[c]] >= Gap \/ GuestOf[c] \in strayed]_vars
  BY <1>1
<1> QED
  BY <1>2, ChannelInvariance, PTL DEF Spec, GapKept
=============================================================================
