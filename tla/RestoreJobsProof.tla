-------------------------- MODULE RestoreJobsProof --------------------------
(* Theorems of RestoreJobs, for every set of jobs and requests and every    *)
(* number of data listeners, failed writes and restarts.                    *)
EXTENDS RestoreJobs, TLAPS

USE BoundsAssumption DEF Active, Terminal, Absent, Statuses, TaskStates

(* The initial state of a process is well typed.                            *)
LEMMA InitIsTyped == Init => TypeOK
  BY DEF Init, TypeOK, Idle, Requests

(* Losing the memory of the process keeps the state well typed.             *)
LEMMA LoseMemoryIsTyped ==
  ASSUME TypeOK, LoseMemory, stops' \in 0..MaxStops
  PROVE  TypeOK'
  BY DEF TypeOK, LoseMemory, history, Idle, Requests

(* Every step of the specification keeps it well typed.                     *)
LEMMA StepIsTyped == TypeOK /\ [Next]_vars => TypeOK'
<1> SUFFICES ASSUME TypeOK, [Next]_vars
             PROVE  TypeOK'
  OBVIOUS
<1> USE DEF TypeOK, process, history
<1>1. CASE Boot
  BY <1>1 DEF Boot
<1>2. CASE MainReconcile
  BY <1>2 DEF MainReconcile, ReconcileRows
<1>3. CASE DataReconcile
  BY <1>3 DEF DataReconcile, ReconcileRows
<1>4. CASE Stop
  BY <1>4 DEF Stop, Idle, Requests
<1>5. CASE Exit
  BY <1>5, LoseMemoryIsTyped DEF Exit
<1>6. CASE Crash
  BY <1>6, LoseMemoryIsTyped DEF Crash
<1>7. ASSUME NEW j \in Jobs, Create(j) \/ CreateUnsaved(j) \/ Cancel(j) \/ Expire(j)
      PROVE  TypeOK'
  <2>1. CASE Create(j)
    BY <2>1 DEF Create, NewJob
  <2>2. CASE CreateUnsaved(j)
    BY <2>2 DEF CreateUnsaved, NewJob
  <2>3. CASE Cancel(j)
    BY <2>3 DEF Cancel
  <2>4. CASE Expire(j)
    BY <2>4 DEF Expire
  <2> QED BY <1>7, <2>1, <2>2, <2>3, <2>4
<1>8. ASSUME NEW j \in Jobs, TaskStep(j)
      PROVE  TypeOK'
  <2>1. CASE Begin(j)
    BY <2>1 DEF Begin, Mark
  <2>2. CASE Verify(j)
    BY <2>2 DEF Verify, Mark
  <2>3. ASSUME NEW outcome \in {"done", "failed"}, Settle(j, outcome)
        PROVE  TypeOK'
    BY <2>3 DEF Settle, Mark
  <2>4. CASE WriteRaises(j)
    BY <2>4 DEF WriteRaises
  <2>5. CASE DoneRaises(j)
    BY <2>5 DEF DoneRaises
  <2>6. CASE Raised(j)
    BY <2>6 DEF Raised
  <2>7. CASE Cancelled(j)
    BY <2>7 DEF Cancelled
  <2>8. CASE Closed(j)
    BY <2>8 DEF Closed
  <2>9. CASE CleanedUp(j)
    BY <2>9 DEF CleanedUp
  <2> QED
    BY <1>8, <2>1, <2>2, <2>3, <2>4, <2>5, <2>6, <2>7, <2>8, <2>9 DEF TaskStep
<1>9. ASSUME NEW p \in Pollers, PollStart(p) \/ PollStep(p)
      PROVE  TypeOK'
  <2> DEFINE r == poll[p]
  <2> /\ poll \in [Pollers -> Requests]
      /\ r \in Requests
    OBVIOUS
  <2>1. CASE PollStart(p)
    <3>1. [r EXCEPT !.pc = "sweep", !.asked = issued] \in Requests
      BY DEF Requests
    <3>2. poll' \in [Pollers -> Requests]
      BY <2>1, <3>1 DEF PollStart
    <3> QED BY <2>1, <3>2 DEF PollStart
  <2>2. CASE PollSweep(p)
    <3>1. [r EXCEPT !.pc = "snapshot"] \in Requests
      BY DEF Requests
    <3>2. poll' \in [Pollers -> Requests]
      BY <2>2, <3>1 DEF PollSweep
    <3> QED BY <2>2, <3>2 DEF PollSweep
  <2>3. CASE PollSnapshot(p)
    <3>1. [r EXCEPT !.pc = "read", !.live = registry'] \in Requests
      BY <2>3 DEF Requests, PollSnapshot
    <3>2. poll' \in [Pollers -> Requests]
      BY <2>3, <3>1 DEF PollSnapshot
    <3> QED BY <2>3, <3>2 DEF PollSnapshot
  <2>4. CASE PollRead(p)
    <3> DEFINE rows == [k \in Jobs |-> IF k \in r.live \/ RowExpired(k)
                                         THEN Absent ELSE row[k]]
    <3>1. rows \in [Jobs -> Statuses]
      OBVIOUS
    <3>2. [r EXCEPT !.pc = "reply", !.persisted = rows] \in Requests
      BY <3>1 DEF Requests
    <3>3. poll' \in [Pollers -> Requests]
      BY <2>4, <3>2 DEF PollRead
    <3> QED BY <2>4, <3>3 DEF PollRead
  <2>5. CASE PollReply(p)
    BY <2>5 DEF PollReply, Idle, Requests
  <2> QED BY <1>9, <2>1, <2>2, <2>3, <2>4, <2>5 DEF PollStep
<1>10. CASE UNCHANGED vars
  BY <1>10 DEF vars
<1> QED
  BY <1>1, <1>2, <1>3, <1>4, <1>5, <1>6, <1>7, <1>8, <1>9, <1>10 DEF Next

(* Every reachable state has only statuses, rows and tasks the code has.    *)
THEOREM TypeCorrect == Spec => []TypeOK
<1>1. QED BY InitIsTyped, StepIsTyped, PTL DEF Spec

-----------------------------------------------------------------------------
(* A process that has lost its memory has no task and no pending cancel.    *)
LEMMA LoseMemoryKeepsIndInv ==
  ASSUME IndInv, LoseMemory, stops' \in 0..MaxStops
  PROVE  IndInv'
<1>1. TypeOK'
  BY LoseMemoryIsTyped DEF IndInv
<1>2. TaskMatchesStatus' /\ CancellationPending' /\ CancelWins' /\ ActiveJobHasTask'
  BY DEF LoseMemory, TaskMatchesStatus, CancellationPending, CancelWins,
         ActiveJobHasTask
<1> QED BY <1>1, <1>2 DEF IndInv

(* The inductive step, one action at a time.                                *)
LEMMA StepKeepsIndInv == IndInv /\ [Next]_vars => IndInv'
<1> SUFFICES ASSUME IndInv, [Next]_vars
             PROVE  IndInv'
  OBVIOUS
<1>0. TypeOK /\ TypeOK'
  BY StepIsTyped DEF IndInv
<1> DEFINE Parts == /\ TaskMatchesStatus
                    /\ CancellationPending
                    /\ CancelWins
                    /\ ActiveJobHasTask
<1> Parts
  BY DEF IndInv
<1> SUFFICES Parts'
  BY <1>0 DEF IndInv
<1> USE <1>0 DEF TypeOK, TaskMatchesStatus, CancellationPending, CancelWins,
                 ActiveJobHasTask, process, history
<1>1. CASE Boot
  BY <1>1 DEF Boot
<1>2. CASE MainReconcile
  BY <1>2 DEF MainReconcile
<1>3. CASE DataReconcile
  BY <1>3 DEF DataReconcile
<1>4. CASE Stop
  BY <1>4 DEF Stop
<1>5. CASE Exit
  BY <1>5, LoseMemoryKeepsIndInv DEF Exit, IndInv
<1>6. CASE Crash
  BY <1>6, LoseMemoryKeepsIndInv DEF Crash, IndInv
<1>7. ASSUME NEW j \in Jobs, Create(j) \/ CreateUnsaved(j) \/ Cancel(j) \/ Expire(j)
      PROVE  Parts'
  <2>1. CASE Create(j)
    BY <2>1 DEF Create, NewJob
  <2>2. CASE CreateUnsaved(j)
    BY <2>2 DEF CreateUnsaved, NewJob
  <2>3. CASE Cancel(j)
    BY <2>3 DEF Cancel
  <2>4. CASE Expire(j)
    BY <2>4 DEF Expire
  <2> QED BY <1>7, <2>1, <2>2, <2>3, <2>4
<1>8. ASSUME NEW j \in Jobs, TaskStep(j)
      PROVE  Parts'
  <2>1. CASE Begin(j)
    BY <2>1 DEF Begin, Mark
  <2>2. CASE Verify(j)
    BY <2>2 DEF Verify, Mark
  <2>3. ASSUME NEW outcome \in {"done", "failed"}, Settle(j, outcome)
        PROVE  Parts'
    BY <2>3 DEF Settle, Mark
  <2>4. CASE WriteRaises(j)
    BY <2>4 DEF WriteRaises
  <2>5. CASE DoneRaises(j)
    BY <2>5 DEF DoneRaises
  <2>6. CASE Raised(j)
    BY <2>6 DEF Raised
  <2>7. CASE Cancelled(j)
    BY <2>7 DEF Cancelled
  <2>8. CASE Closed(j)
    BY <2>8 DEF Closed
  <2>9. CASE CleanedUp(j)
    BY <2>9 DEF CleanedUp
  <2> QED
    BY <1>8, <2>1, <2>2, <2>3, <2>4, <2>5, <2>6, <2>7, <2>8, <2>9 DEF TaskStep
<1>9. ASSUME NEW p \in Pollers, PollStart(p) \/ PollStep(p)
      PROVE  Parts'
  BY <1>9 DEF PollStart, PollStep, PollSweep, PollSnapshot, PollRead, PollReply
<1>10. CASE UNCHANGED vars
  BY <1>10 DEF vars
<1> QED
  BY <1>1, <1>2, <1>3, <1>4, <1>5, <1>6, <1>7, <1>8, <1>9, <1>10 DEF Next

(* The invariant holds in every reachable state.                            *)
LEMMA IndInvHolds == Spec => []IndInv
<1>1. Init => IndInv
  BY InitIsTyped DEF Init, IndInv, TaskMatchesStatus, CancellationPending,
                     CancelWins, ActiveJobHasTask
<1>2. QED BY <1>1, StepKeepsIndInv, PTL DEF Spec

(* A cancel the manager accepted ends the job "cancelled", never otherwise. *)
THEOREM CancelAlwaysWins == Spec => []CancelWins
<1>1. IndInv => CancelWins
  BY DEF IndInv
<1>2. QED BY <1>1, IndInvHolds, PTL

(* Until a write fails, no job shows as active without a task to settle it. *)
THEOREM NoActiveJobIsOrphaned == Spec => []ActiveJobHasTask
<1>1. IndInv => ActiveJobHasTask
  BY DEF IndInv
<1>2. QED BY <1>1, IndInvHolds, PTL

(* Every step that keeps serving and raises nothing leaves outcomes alone.  *)
LEMMA StepKeepsOutcomes ==
  ASSUME IndInv, [Next]_vars, server = "serving", faults' = 0,
         NEW k \in registry, status[k] \in Terminal, k \in registry'
  PROVE  status'[k] = status[k]
<1>0. TypeOK /\ TypeOK' /\ k \in Jobs
  BY StepIsTyped DEF IndInv, TypeOK
<1> TaskMatchesStatus /\ CancellationPending
  BY DEF IndInv
<1> USE <1>0 DEF TypeOK, TaskMatchesStatus, CancellationPending, process, history
<1>1. CASE Boot
  BY <1>1 DEF Boot
<1>2. CASE MainReconcile
  BY <1>2 DEF MainReconcile, ReconcileRows
<1>3. CASE DataReconcile
  BY <1>3 DEF DataReconcile, ReconcileRows
<1>4. CASE Stop
  BY <1>4 DEF Stop
<1>5. CASE Exit
  BY <1>5 DEF Exit, LoseMemory
<1>6. CASE Crash
  BY <1>6 DEF Crash, LoseMemory
<1>7. ASSUME NEW j \in Jobs, Create(j) \/ CreateUnsaved(j) \/ Cancel(j) \/ Expire(j)
      PROVE  status'[k] = status[k]
  <2>1. CASE Create(j)
    BY <2>1 DEF Create, NewJob
  <2>2. CASE CreateUnsaved(j)
    BY <2>2 DEF CreateUnsaved, NewJob
  <2>3. CASE Cancel(j)
    BY <2>3 DEF Cancel
  <2>4. CASE Expire(j)
    BY <2>4 DEF Expire
  <2> QED BY <1>7, <2>1, <2>2, <2>3, <2>4
<1>8. ASSUME NEW j \in Jobs, TaskStep(j)
      PROVE  status'[k] = status[k]
  <2>1. CASE Begin(j)
    BY <2>1 DEF Begin, Mark
  <2>2. CASE Verify(j)
    BY <2>2 DEF Verify, Mark
  <2>3. ASSUME NEW outcome \in {"done", "failed"}, Settle(j, outcome)
        PROVE  status'[k] = status[k]
    BY <2>3 DEF Settle, Mark
  <2>4. CASE WriteRaises(j)
    BY <2>4 DEF WriteRaises
  <2>5. CASE DoneRaises(j)
    BY <2>5 DEF DoneRaises
  <2>6. CASE Raised(j)
    BY <2>6 DEF Raised
  <2>7. CASE Cancelled(j)
    BY <2>7 DEF Cancelled
  <2>8. CASE Closed(j)
    BY <2>8 DEF Closed
  <2>9. CASE CleanedUp(j)
    BY <2>9 DEF CleanedUp
  <2> QED
    BY <1>8, <2>1, <2>2, <2>3, <2>4, <2>5, <2>6, <2>7, <2>8, <2>9 DEF TaskStep
<1>9. ASSUME NEW p \in Pollers, PollStart(p) \/ PollStep(p)
      PROVE  status'[k] = status[k]
  <2>1. CASE PollStart(p)
    BY <2>1 DEF PollStart
  <2>2. CASE PollSweep(p)
    BY <2>2 DEF PollSweep, RowExpired
  <2>3. CASE PollSnapshot(p)
    BY <2>3 DEF PollSnapshot, MemExpired
  <2>4. CASE PollRead(p)
    BY <2>4 DEF PollRead
  <2>5. CASE PollReply(p)
    BY <2>5 DEF PollReply
  <2> QED BY <1>9, <2>1, <2>2, <2>3, <2>4, <2>5 DEF PollStep
<1>10. CASE UNCHANGED vars
  BY <1>10 DEF vars
<1> QED
  BY <1>1, <1>2, <1>3, <1>4, <1>5, <1>6, <1>7, <1>8, <1>9, <1>10 DEF Next

(* While requests are served and no write has raised, outcomes are final.   *)
THEOREM OutcomesAreFinal == Spec => OutcomeIsFinal
<1> DEFINE Keeps == server = "serving" /\ faults' = 0 =>
                      \A j \in registry : status[j] \in Terminal /\ j \in registry'
                                             => status'[j] = status[j]
<1>1. IndInv /\ [Next]_vars => [Keeps]_vars
  BY StepKeepsOutcomes
<1>2. QED BY <1>1, IndInvHolds, PTL DEF Spec, OutcomeIsFinal

-----------------------------------------------------------------------------
(* Tasks at work keep their job in the registry, away from the sweeps.      *)
LEMMA StepKeepsStoresMatched ==
  ASSUME IndInv, StoresMatchTasks, [Next]_vars
  PROVE  StoresMatchTasks'
<1>0. TypeOK /\ TypeOK' /\ TaskMatchesStatus
  BY StepIsTyped DEF IndInv
<1> USE <1>0 DEF TypeOK, TaskMatchesStatus, StoresMatchTasks, process, history
<1>1. CASE Boot
  BY <1>1 DEF Boot
<1>2. CASE MainReconcile
  BY <1>2 DEF MainReconcile, ReconcileRows
<1>3. CASE DataReconcile
  BY <1>3 DEF DataReconcile, ReconcileRows
<1>4. CASE Stop
  BY <1>4 DEF Stop
<1>5. CASE Exit
  BY <1>5 DEF Exit, LoseMemory
<1>6. CASE Crash
  BY <1>6 DEF Crash, LoseMemory
<1>7. ASSUME NEW j \in Jobs, Create(j) \/ CreateUnsaved(j) \/ Cancel(j) \/ Expire(j)
      PROVE  StoresMatchTasks'
  <2>1. CASE Create(j)
    BY <2>1 DEF Create, NewJob
  <2>2. CASE CreateUnsaved(j)
    BY <2>2 DEF CreateUnsaved, NewJob
  <2>3. CASE Cancel(j)
    BY <2>3 DEF Cancel
  <2>4. CASE Expire(j)
    BY <2>4 DEF Expire
  <2> QED BY <1>7, <2>1, <2>2, <2>3, <2>4
<1>8. ASSUME NEW j \in Jobs, TaskStep(j)
      PROVE  StoresMatchTasks'
  <2>1. CASE Begin(j)
    BY <2>1 DEF Begin, Mark
  <2>2. CASE Verify(j)
    BY <2>2 DEF Verify, Mark
  <2>3. ASSUME NEW outcome \in {"done", "failed"}, Settle(j, outcome)
        PROVE  StoresMatchTasks'
    BY <2>3 DEF Settle, Mark
  <2>4. CASE WriteRaises(j)
    BY <2>4 DEF WriteRaises
  <2>5. CASE DoneRaises(j)
    BY <2>5 DEF DoneRaises
  <2>6. CASE Raised(j)
    BY <2>6 DEF Raised
  <2>7. CASE Cancelled(j)
    BY <2>7 DEF Cancelled
  <2>8. CASE Closed(j)
    BY <2>8 DEF Closed
  <2>9. CASE CleanedUp(j)
    BY <2>9 DEF CleanedUp
  <2> QED
    BY <1>8, <2>1, <2>2, <2>3, <2>4, <2>5, <2>6, <2>7, <2>8, <2>9 DEF TaskStep
<1>9. ASSUME NEW p \in Pollers, PollStart(p) \/ PollStep(p)
      PROVE  StoresMatchTasks'
  <2>1. CASE PollStart(p)
    BY <2>1 DEF PollStart
  <2>2. CASE PollSweep(p)
    BY <2>2 DEF PollSweep, RowExpired
  <2>3. CASE PollSnapshot(p)
    BY <2>3 DEF PollSnapshot, MemExpired
  <2>4. CASE PollRead(p)
    BY <2>4 DEF PollRead
  <2>5. CASE PollReply(p)
    BY <2>5 DEF PollReply
  <2> QED BY <1>9, <2>1, <2>2, <2>3, <2>4, <2>5 DEF PollStep
<1>10. CASE UNCHANGED vars
  BY <1>10 DEF vars
<1> QED
  BY <1>1, <1>2, <1>3, <1>4, <1>5, <1>6, <1>7, <1>8, <1>9, <1>10 DEF Next

(* What the snapshot and the read of a list request change.                 *)
LEMMA SnapshotEffect ==
  ASSUME TypeOK, NEW p \in Pollers, PollSnapshot(p)
  PROVE  /\ poll'[p].pc = "read"
         /\ poll'[p].asked = poll[p].asked
         /\ poll'[p].live = registry'
         /\ \A q \in Pollers \ {p} : poll'[q] = poll[q]
<1>1. poll[p] \in Requests /\ DOMAIN poll = Pollers
  BY DEF TypeOK
<1>2. poll' = [poll EXCEPT ![p] = [poll[p] EXCEPT !.pc = "read", !.live = registry']]
  BY DEF PollSnapshot
<1>3. poll'[p] = [poll[p] EXCEPT !.pc = "read", !.live = registry']
  BY <1>1, <1>2
<1>4. \A q \in Pollers \ {p} : poll'[q] = poll[q]
  BY <1>1, <1>2
<1> QED BY <1>1, <1>3, <1>4 DEF Requests

LEMMA ReadEffect ==
  ASSUME TypeOK, NEW p \in Pollers, PollRead(p)
  PROVE  /\ poll'[p].pc = "reply"
         /\ poll'[p].asked = poll[p].asked
         /\ poll'[p].live = poll[p].live
         /\ \A q \in Pollers \ {p} : poll'[q] = poll[q]
         /\ \A k \in Jobs : poll'[p].persisted[k] =
              IF k \in poll[p].live \/ RowExpired(k) THEN Absent ELSE row[k]
<1> DEFINE rows == [k \in Jobs |-> IF k \in poll[p].live \/ RowExpired(k)
                                     THEN Absent ELSE row[k]]
<1>1. poll[p] \in Requests /\ DOMAIN poll = Pollers
  BY DEF TypeOK
<1>2. poll' = [poll EXCEPT ![p] = [poll[p] EXCEPT !.pc = "reply", !.persisted = rows]]
  BY DEF PollRead
<1> HIDE DEF rows
<1>3. poll'[p] = [poll[p] EXCEPT !.pc = "reply", !.persisted = rows]
  BY <1>1, <1>2
<1>4. \A q \in Pollers \ {p} : poll'[q] = poll[q]
  BY <1>1, <1>2
<1>5. poll'[p].pc = "reply" /\ poll'[p].asked = poll[p].asked
      /\ poll'[p].live = poll[p].live /\ poll'[p].persisted = rows
  BY <1>1, <1>3 DEF Requests
<1> QED BY <1>4, <1>5 DEF rows

(* What a list request has seen stays in step with both stores.             *)
LEMMA StepKeepsRequestsCurrent ==
  ASSUME IndInv, StoresMatchTasks, RequestIsCurrent, [Next]_vars
  PROVE  RequestIsCurrent'
<1>0. TypeOK /\ TypeOK' /\ TaskMatchesStatus
  BY StepIsTyped DEF IndInv
<1> USE <1>0 DEF TypeOK, StoresMatchTasks, RequestIsCurrent, RowExpired, Idle,
                 Requests, process, history
<1>1. CASE Boot
  BY <1>1 DEF Boot
<1>2. CASE MainReconcile
  BY <1>2 DEF MainReconcile, ReconcileRows
<1>3. CASE DataReconcile
  BY <1>3 DEF DataReconcile, ReconcileRows
<1>4. CASE Stop
  BY <1>4 DEF Stop
<1>5. CASE Exit
  BY <1>5 DEF Exit, LoseMemory
<1>6. CASE Crash
  BY <1>6 DEF Crash, LoseMemory
<1>7. ASSUME NEW j \in Jobs, Create(j) \/ CreateUnsaved(j) \/ Cancel(j) \/ Expire(j)
      PROVE  RequestIsCurrent'
  <2>1. CASE Create(j)
    BY <2>1 DEF Create, NewJob
  <2>2. CASE CreateUnsaved(j)
    BY <2>2 DEF CreateUnsaved, NewJob
  <2>3. CASE Cancel(j)
    BY <2>3 DEF Cancel
  <2>4. CASE Expire(j)
    BY <2>4 DEF Expire
  <2> QED BY <1>7, <2>1, <2>2, <2>3, <2>4
<1>8. ASSUME NEW j \in Jobs, TaskStep(j)
      PROVE  RequestIsCurrent'
  <2>1. CASE Begin(j)
    BY <2>1 DEF Begin, Mark
  <2>2. CASE Verify(j)
    BY <2>2 DEF Verify, Mark
  <2>3. ASSUME NEW outcome \in {"done", "failed"}, Settle(j, outcome)
        PROVE  RequestIsCurrent'
    BY <2>3 DEF Settle, Mark
  <2>4. CASE WriteRaises(j)
    BY <2>4 DEF WriteRaises
  <2>5. CASE DoneRaises(j)
    BY <2>5 DEF DoneRaises
  <2>6. CASE Raised(j)
    BY <2>6 DEF Raised
  <2>7. CASE Cancelled(j)
    BY <2>7 DEF Cancelled
  <2>8. CASE Closed(j)
    BY <2>8 DEF Closed
  <2>9. CASE CleanedUp(j)
    BY <2>9 DEF CleanedUp
  <2> QED
    BY <1>8, <2>1, <2>2, <2>3, <2>4, <2>5, <2>6, <2>7, <2>8, <2>9 DEF TaskStep
<1>9. ASSUME NEW p \in Pollers, PollStart(p) \/ PollStep(p)
      PROVE  RequestIsCurrent'
  <2>1. CASE PollStart(p)
    BY <2>1 DEF PollStart
  <2>2. CASE PollSweep(p)
    BY <2>2 DEF PollSweep
  <2>3. CASE PollSnapshot(p)
    <3>1. registry' \subseteq registry /\ UNCHANGED <<row, expired, issued>>
      BY <2>3 DEF PollSnapshot
    <3> QED BY <2>3, <3>1, SnapshotEffect
  <2>4. CASE PollRead(p)
    <3>1. UNCHANGED <<registry, row, expired, issued>> /\ poll[p].pc = "read"
      BY <2>4 DEF PollRead
    <3> QED BY <2>4, <3>1, ReadEffect
  <2>5. CASE PollReply(p)
    BY <2>5 DEF PollReply
  <2> QED BY <1>9, <2>1, <2>2, <2>3, <2>4, <2>5 DEF PollStep
<1>10. CASE UNCHANGED vars
  BY <1>10 DEF vars
<1> QED
  BY <1>1, <1>2, <1>3, <1>4, <1>5, <1>6, <1>7, <1>8, <1>9, <1>10 DEF Next

LEMMA ListInvHolds == Spec => []ListInv
<1>1. Init => StoresMatchTasks /\ RequestIsCurrent
  BY DEF Init, StoresMatchTasks, RequestIsCurrent, Idle
<1>2. IndInv /\ StoresMatchTasks /\ RequestIsCurrent /\ [Next]_vars
        => StoresMatchTasks' /\ RequestIsCurrent'
  BY StepKeepsStoresMatched, StepKeepsRequestsCurrent
<1>3. QED BY <1>1, <1>2, IndInvHolds, PTL DEF Spec, ListInv

(* No list reply misses a job inside the retention window, whichever store  *)
(* holds it and however many requests sweep at once.                        *)
THEOREM ListsAreComplete == Spec => []ListIsComplete
<1>1. ListInv => ListIsComplete
  BY DEF ListInv, IndInv, TypeOK, RequestIsCurrent, ListIsComplete, RowExpired
<1>2. QED BY <1>1, ListInvHolds, PTL

-----------------------------------------------------------------------------
(* With one server, the history follows the registry.                       *)
LEMMA StepKeepsHistory ==
  ASSUME DataListeners = 0, HistoryInv, [Next]_vars
  PROVE  HistoryInv'
<1> DEFINE Parts == RowAwaitsTask /\ RowFollowsStatus /\ NoStuckRow
<1>0. IndInv /\ IndInv' /\ StoresMatchTasks /\ StoresMatchTasks' /\ Parts
  BY StepKeepsIndInv, StepKeepsStoresMatched DEF HistoryInv
<1> SUFFICES Parts'
  BY <1>0 DEF HistoryInv
<1>a. TypeOK /\ TypeOK' /\ TaskMatchesStatus /\ CancellationPending
  BY <1>0 DEF IndInv
<1> USE <1>0, <1>a DEF TypeOK, TaskMatchesStatus, CancellationPending,
                 StoresMatchTasks, RowAwaitsTask, RowFollowsStatus, NoStuckRow,
                 MemExpired, RowExpired, process, history
<1>1. CASE Boot
  BY <1>1 DEF Boot
<1>2. CASE MainReconcile
  BY <1>2 DEF MainReconcile, ReconcileRows
<1>3. CASE DataReconcile
  BY <1>3 DEF DataReconcile, ReconcileRows
<1>4. CASE Stop
  BY <1>4 DEF Stop
<1>5. CASE Exit
  BY <1>5 DEF Exit, LoseMemory
<1>6. CASE Crash
  BY <1>6 DEF Crash, LoseMemory
<1>7. ASSUME NEW j \in Jobs, Create(j) \/ CreateUnsaved(j) \/ Cancel(j) \/ Expire(j)
      PROVE  Parts'
  <2>1. CASE Create(j)
    BY <2>1 DEF Create, NewJob
  <2>2. CASE CreateUnsaved(j)
    BY <2>2 DEF CreateUnsaved, NewJob
  <2>3. CASE Cancel(j)
    BY <2>3 DEF Cancel
  <2>4. CASE Expire(j)
    BY <2>4 DEF Expire
  <2> QED BY <1>7, <2>1, <2>2, <2>3, <2>4
<1>8. ASSUME NEW j \in Jobs, TaskStep(j)
      PROVE  Parts'
  <2>1. CASE Begin(j)
    BY <2>1 DEF Begin, Mark
  <2>2. CASE Verify(j)
    BY <2>2 DEF Verify, Mark
  <2>3. ASSUME NEW outcome \in {"done", "failed"}, Settle(j, outcome)
        PROVE  Parts'
    BY <2>3 DEF Settle, Mark
  <2>4. CASE WriteRaises(j)
    BY <2>4 DEF WriteRaises
  <2>5. CASE DoneRaises(j)
    BY <2>5 DEF DoneRaises
  <2>6. CASE Raised(j)
    BY <2>6 DEF Raised
  <2>7. CASE Cancelled(j)
    BY <2>7 DEF Cancelled
  <2>8. CASE Closed(j)
    BY <2>8 DEF Closed
  <2>9. CASE CleanedUp(j)
    BY <2>9 DEF CleanedUp
  <2> QED
    BY <1>8, <2>1, <2>2, <2>3, <2>4, <2>5, <2>6, <2>7, <2>8, <2>9 DEF TaskStep
<1>9. ASSUME NEW p \in Pollers, PollStart(p) \/ PollStep(p)
      PROVE  Parts'
  <2>1. CASE PollStart(p)
    BY <2>1 DEF PollStart
  <2>2. CASE PollSweep(p)
    BY <2>2 DEF PollSweep
  <2>3. CASE PollSnapshot(p)
    BY <2>3 DEF PollSnapshot
  <2>4. CASE PollRead(p)
    BY <2>4 DEF PollRead
  <2>5. CASE PollReply(p)
    BY <2>5 DEF PollReply
  <2> QED BY <1>9, <2>1, <2>2, <2>3, <2>4, <2>5 DEF PollStep
<1>10. CASE UNCHANGED vars
  BY <1>10 DEF vars
<1> QED
  BY <1>1, <1>2, <1>3, <1>4, <1>5, <1>6, <1>7, <1>8, <1>9, <1>10 DEF Next

(* What ties a row to its status and its task holds throughout, when one    *)
(* server reconciles.                                                       *)
LEMMA HistoryInvHolds ==
  ASSUME DataListeners = 0
  PROVE  Spec => []HistoryInv
<1>1. Init => StoresMatchTasks /\ RowAwaitsTask /\ RowFollowsStatus /\ NoStuckRow
  BY DEF Init, StoresMatchTasks, RowAwaitsTask, RowFollowsStatus, NoStuckRow
<1>2. HistoryInv /\ [Next]_vars => HistoryInv'
  BY StepKeepsHistory
<1>3. QED BY <1>1, <1>2, IndInvHolds, PTL DEF Spec, HistoryInv

(* With one server and no failed write, the row of a live job is its        *)
(* status, at every await of every task.                                    *)
THEOREM HistoryFollowsRegistry ==
  ASSUME DataListeners = 0
  PROVE  Spec => []RowFollowsStatus
<1>1. HistoryInv => RowFollowsStatus
  BY DEF HistoryInv
<1>2. QED BY <1>1, HistoryInvHolds, PTL

(* Nor is a row left in progress from an earlier process that crashed.      *)
THEOREM NoRowIsStuck ==
  ASSUME DataListeners = 0
  PROVE  Spec => []NoStuckRow
<1>1. HistoryInv => NoStuckRow
  BY DEF HistoryInv
<1>2. QED BY <1>1, HistoryInvHolds, PTL

(* A row that tells an outcome is not reopened by any step of a process     *)
(* that is not shutting down.                                               *)
LEMMA StepKeepsRowsFinal ==
  ASSUME DataListeners = 0, HistoryInv, [Next]_vars, server # "stopping",
         NEW k \in Jobs, row[k] \in Terminal
  PROVE  row'[k] \in {row[k], Absent}
<1>0. TypeOK /\ TypeOK' /\ TaskMatchesStatus /\ CancellationPending
      /\ StoresMatchTasks /\ RowAwaitsTask
  BY StepIsTyped DEF HistoryInv, IndInv
<1> USE <1>0 DEF TypeOK, TaskMatchesStatus, CancellationPending,
                 StoresMatchTasks, RowAwaitsTask, process, history
<1>1. CASE Boot
  BY <1>1 DEF Boot
<1>2. CASE MainReconcile
  BY <1>2 DEF MainReconcile, ReconcileRows
<1>3. CASE DataReconcile
  BY <1>3 DEF DataReconcile, ReconcileRows
<1>4. CASE Stop
  BY <1>4 DEF Stop
<1>5. CASE Exit
  BY <1>5 DEF Exit, LoseMemory
<1>6. CASE Crash
  BY <1>6 DEF Crash, LoseMemory
<1>7. ASSUME NEW j \in Jobs, Create(j) \/ CreateUnsaved(j) \/ Cancel(j) \/ Expire(j)
      PROVE  row'[k] \in {row[k], Absent}
  <2>1. CASE Create(j)
    BY <2>1 DEF Create, NewJob
  <2>2. CASE CreateUnsaved(j)
    BY <2>2 DEF CreateUnsaved, NewJob
  <2>3. CASE Cancel(j)
    BY <2>3 DEF Cancel
  <2>4. CASE Expire(j)
    BY <2>4 DEF Expire
  <2> QED BY <1>7, <2>1, <2>2, <2>3, <2>4
<1>8. ASSUME NEW j \in Jobs, TaskStep(j)
      PROVE  row'[k] \in {row[k], Absent}
  <2>1. CASE Begin(j)
    BY <2>1 DEF Begin, Mark
  <2>2. CASE Verify(j)
    BY <2>2 DEF Verify, Mark
  <2>3. ASSUME NEW outcome \in {"done", "failed"}, Settle(j, outcome)
        PROVE  row'[k] \in {row[k], Absent}
    BY <2>3 DEF Settle, Mark
  <2>4. CASE WriteRaises(j)
    BY <2>4 DEF WriteRaises
  <2>5. CASE DoneRaises(j)
    BY <2>5 DEF DoneRaises
  <2>6. CASE Raised(j)
    BY <2>6 DEF Raised
  <2>7. CASE Cancelled(j)
    BY <2>7 DEF Cancelled
  <2>8. CASE Closed(j)
    BY <2>8 DEF Closed
  <2>9. CASE CleanedUp(j)
    BY <2>9 DEF CleanedUp
  <2> QED
    BY <1>8, <2>1, <2>2, <2>3, <2>4, <2>5, <2>6, <2>7, <2>8, <2>9 DEF TaskStep
<1>9. ASSUME NEW p \in Pollers, PollStart(p) \/ PollStep(p)
      PROVE  row'[k] \in {row[k], Absent}
  <2>1. CASE PollStart(p)
    BY <2>1 DEF PollStart
  <2>2. CASE PollSweep(p)
    BY <2>2 DEF PollSweep, RowExpired
  <2>3. CASE PollSnapshot(p)
    BY <2>3 DEF PollSnapshot, MemExpired
  <2>4. CASE PollRead(p)
    BY <2>4 DEF PollRead
  <2>5. CASE PollReply(p)
    BY <2>5 DEF PollReply
  <2> QED BY <1>9, <2>1, <2>2, <2>3, <2>4, <2>5 DEF PollStep
<1>10. CASE UNCHANGED vars
  BY <1>10 DEF vars
<1> QED
  BY <1>1, <1>2, <1>3, <1>4, <1>5, <1>6, <1>7, <1>8, <1>9, <1>10 DEF Next

(* A row that says how a job ended is never reopened before the sweep       *)
(* removes it, whichever of its task's writes fail.                         *)
THEOREM HistoryStaysFinal ==
  ASSUME DataListeners = 0
  PROVE  Spec => HistoryIsFinal
<1> DEFINE Keeps == server # "stopping" =>
                      \A j \in Jobs : row[j] \in Terminal => row'[j] \in {row[j], Absent}
<1>1. HistoryInv /\ [Next]_vars => [Keeps]_vars
  BY StepKeepsRowsFinal
<1>2. QED BY <1>1, HistoryInvHolds, PTL DEF Spec, HistoryIsFinal

-----------------------------------------------------------------------------
(* The refinement: every step is a step of the life cycle or leaves what    *)
(* the user is told unchanged.                                              *)
LEMMA StoresStep ==
  ASSUME issued' = issued,
         \A j \in Jobs :
           \/ Shown(j)' = Shown(j)
           \/ Shown(j) \in Active /\ Shown(j)' \in Active
           \/ Shown(j) \in Active /\ Shown(j)' = "interrupted"
           \/ Shown(j) \in Terminal /\ Shown(j)' = Absent
  PROVE  Lifecycle!Next
<1> DEFINE I == {j \in Jobs : Shown(j) \in Active /\ Shown(j)' = "interrupted"}
           F == {j \in Jobs : Shown(j) \in Terminal /\ Shown(j)' = Absent}
<1>1. Lifecycle!Housekeep(I, F)
  BY DEF Lifecycle!Housekeep, Lifecycle!Ended, Lifecycle!Outcomes, Phase
<1> QED BY <1>1 DEF Lifecycle!Next

(* One job's answer becoming an outcome, the others unchanged, is a step of *)
(* the life cycle.                                                          *)
LEMMA OutcomeStep ==
  ASSUME issued' = issued, NEW k \in Jobs, Shown(k)' \in {"done", "failed", "cancelled"},
         Shown(k) \in Active \/ (Shown(k) \in {"done", "failed"} /\ Shown(k)' = "cancelled"),
         \A j \in Jobs \ {k} : Shown(j)' = Shown(j)
  PROVE  Lifecycle!Next
<1>1. CASE Shown(k) \in Active
  <2>1. Lifecycle!Settle(k, Shown(k)')
    BY <1>1 DEF Lifecycle!Settle, Phase
  <2> QED BY <2>1 DEF Lifecycle!Next, Lifecycle!Outcomes
<1>2. CASE Shown(k) \in {"done", "failed"} /\ Shown(k)' = "cancelled"
  <2>1. Lifecycle!Overrule(k)
    BY <1>2 DEF Lifecycle!Overrule, Phase
  <2> QED BY <2>1 DEF Lifecycle!Next
<1> QED BY <1>1, <1>2

(* A new job shown as queued is a step of the life cycle.                   *)
LEMMA SubmitStep ==
  ASSUME NEW k \in Jobs, k \notin issued, issued' = issued \cup {k},
         Shown(k)' = "queued", \A j \in Jobs \ {k} : Shown(j)' = Shown(j)
  PROVE  Lifecycle!Next
<1>1. Lifecycle!Submit(k)
  BY DEF Lifecycle!Submit, Phase
<1> QED BY <1>1 DEF Lifecycle!Next

(* Every action of the registry, its tasks, its requests and its process is *)
(* a step of the life cycle.                                                *)
LEMMA StepImplementsLifecycle ==
  ASSUME DataListeners = 0, WriteFaults = 0, HistoryInv, Next
  PROVE  Lifecycle!Next
<1>0. TypeOK /\ TypeOK' /\ TaskMatchesStatus /\ StoresMatchTasks /\ RowFollowsStatus
      /\ faults = 0
  BY StepIsTyped DEF HistoryInv, IndInv, TypeOK
<1> USE <1>0 DEF TypeOK, TaskMatchesStatus, StoresMatchTasks, RowFollowsStatus,
                 Shown, MemExpired, process, history
<1>1. CASE Boot \/ Stop
  BY <1>1, StoresStep DEF Boot, Stop
<1>2. CASE MainReconcile
  BY <1>2, StoresStep DEF MainReconcile, ReconcileRows
<1>3. CASE DataReconcile
  BY <1>3 DEF DataReconcile
<1>4. CASE Exit \/ Crash
  BY <1>4, StoresStep DEF Exit, Crash, LoseMemory
<1>5. ASSUME NEW j \in Jobs, Create(j) \/ CreateUnsaved(j) \/ Cancel(j) \/ Expire(j)
      PROVE  Lifecycle!Next
  <2>1. CASE Create(j)
    BY <2>1, SubmitStep DEF Create, NewJob
  <2>2. CASE CreateUnsaved(j)
    BY <2>2 DEF CreateUnsaved
  <2>3. CASE Cancel(j) \/ Expire(j)
    BY <2>3, StoresStep DEF Cancel, Expire
  <2> QED BY <1>5, <2>1, <2>2, <2>3
<1>6. ASSUME NEW j \in Jobs, TaskStep(j)
      PROVE  Lifecycle!Next
  <2>1. CASE Begin(j) \/ Verify(j)
    BY <2>1, StoresStep DEF Begin, Verify, Mark
  <2>2. ASSUME NEW outcome \in {"done", "failed"}, Settle(j, outcome)
        PROVE  Lifecycle!Next
    BY <2>2, OutcomeStep DEF Settle, Mark
  <2>3. CASE WriteRaises(j) \/ DoneRaises(j) \/ Raised(j)
    BY <2>3 DEF WriteRaises, DoneRaises, Raised
  <2>4. CASE Cancelled(j)
    BY <2>4, OutcomeStep DEF Cancelled
  <2>5. CASE Closed(j) \/ CleanedUp(j)
    BY <2>5, StoresStep DEF Closed, CleanedUp
  <2> QED BY <1>6, <2>1, <2>2, <2>3, <2>4, <2>5 DEF TaskStep
<1>7. ASSUME NEW p \in Pollers, PollStart(p) \/ PollStep(p)
      PROVE  Lifecycle!Next
  <2>1. CASE PollStart(p) \/ PollRead(p) \/ PollReply(p)
    BY <2>1, StoresStep DEF PollStart, PollRead, PollReply
  <2>2. CASE PollSweep(p)
    BY <2>2, StoresStep DEF PollSweep, RowExpired
  <2>3. CASE PollSnapshot(p)
    BY <2>3, StoresStep DEF PollSnapshot
  <2> QED BY <1>7, <2>1, <2>2, <2>3 DEF PollStep
<1> QED
  BY <1>1, <1>2, <1>3, <1>4, <1>5, <1>6, <1>7 DEF Next

(* With one server and no failed write, the two stores together implement   *)
(* the life cycle a user is promised, through every crash and sweep.        *)
THEOREM ImplementsLifecycle ==
  ASSUME DataListeners = 0, WriteFaults = 0
  PROVE  Spec => KeepsLifecycle
<1>1. Init => Lifecycle!Init
  BY DEF Init, Lifecycle!Init, Phase, Shown
<1>2. HistoryInv /\ [Next]_vars => [Lifecycle!Next]_<<Phase, issued>>
  <2>1. UNCHANGED vars => UNCHANGED <<Phase, issued>>
    BY DEF vars, Phase, Shown
  <2> QED BY <2>1, StepImplementsLifecycle
<1>3. QED BY <1>1, <1>2, HistoryInvHolds, PTL DEF Spec, KeepsLifecycle, Lifecycle!Spec
=============================================================================
