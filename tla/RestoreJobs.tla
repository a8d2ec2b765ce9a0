---------------------------- MODULE RestoreJobs ----------------------------
(***************************************************************************)
(* The registry of restore jobs (backend/restore_jobs.py), its SQLite      *)
(* history (backend/job_history.py), the restart reconciliation and the    *)
(* list and cancel endpoints of backend/main.py that read and drive both.  *)
(*                                                                         *)
(* What a job does between two status changes is abstracted to the choice  *)
(* of its outcome.  Every status change writes memory first and then the   *)
(* row; the write may raise, which is what the fault actions model.        *)
(***************************************************************************)
EXTENDS Naturals, FiniteSets

CONSTANTS
  Jobs,            \* job ids uuid4() can hand out
  Pollers,         \* concurrent GET /api/restore-jobs requests
  DataListeners,   \* uvicorn servers run.py starts beside the main one
  WriteFaults,     \* bound: times the database starts refusing writes
  MaxStops         \* bound: crashes and shutdowns of the process

ASSUME BoundsAssumption ==
  /\ DataListeners \in Nat
  /\ WriteFaults \in Nat
  /\ MaxStops \in Nat

VARIABLES
  server,          \* the process: "down", "starting", "serving", "stopping"
  reconciling,     \* data listeners whose lifespan has not reconciled yet
  registry,        \* keys of RestoreJobManager._jobs
  status,          \* status of each RestoreJob object
  cancelRequested, \* jobs whose cancel_requested flag is set
  task,            \* what the job's asyncio task is doing
  cancelling,      \* tasks whose next resumption raises CancelledError
  row,             \* status column of the jobs table
  issued,          \* ids uuid4() has handed out
  expired,         \* terminal jobs finished before the retention cutoff
  poll,            \* list requests in flight
  faults,          \* times it has
  stops            \* crashes and shutdowns so far

vars == <<server, reconciling, registry, status, cancelRequested, task,
          cancelling, row, issued, expired, poll, faults, stops>>

process == <<server, reconciling, stops>>
history == <<row, expired>>

-----------------------------------------------------------------------------
Active   == {"queued", "running", "verifying"}
Terminal == {"done", "failed", "cancelled", "interrupted"}
Absent   == "absent"
Statuses == Active \cup Terminal \cup {Absent}

(* A task is "ready" from create_task() to its first step, "closing" when a *)
(* single-chunk restore has settled and awaits aclose() inside the try,     *)
(* "raising" when it awaits the same aclose() on its way out of a mark_done *)
(* whose write raised, and in "cleanup" when it awaits the removal of its   *)
(* scratch directory.                                                       *)
TaskStates == {"none", "ready", "running", "closing", "raising", "cleanup",
               "finished"}

RowExpired(j) == j \in expired /\ row[j] \in Terminal
MemExpired(j) == j \in expired /\ status[j] \in Terminal

Requests == [pc : {"idle", "sweep", "snapshot", "read", "reply"},
             asked : SUBSET Jobs, live : SUBSET Jobs,
             persisted : [Jobs -> Statuses]]

Idle == [pc |-> "idle", asked |-> {}, live |-> {},
         persisted |-> [j \in Jobs |-> Absent]]

Init ==
  /\ server = "down"
  /\ reconciling = 0
  /\ registry = {}
  /\ status = [j \in Jobs |-> Absent]
  /\ cancelRequested = {}
  /\ task = [j \in Jobs |-> "none"]
  /\ cancelling = {}
  /\ row = [j \in Jobs |-> Absent]
  /\ issued = {}
  /\ expired = {}
  /\ poll = [p \in Pollers |-> Idle]
  /\ faults = 0
  /\ stops = 0

-----------------------------------------------------------------------------
(* The process: start, reconciliation, stop and crash.                      *)

Boot ==
  /\ server = "down"
  /\ server' = "starting"
  /\ reconciling' = DataListeners
  /\ UNCHANGED <<registry, status, cancelRequested, task, cancelling,
                 history, issued, poll, faults, stops>>

(* A bug a run must notice: a status the pass forgets.                      *)
ReconcileRowsShort ==
  /\ row' = [j \in Jobs |-> IF row[j] \in {"queued", "running"}
                               THEN "interrupted" ELSE row[j]]
  /\ UNCHANGED expired

(* _reconcile_interrupted_sync: one pass over the rows still active, in a   *)
(* worker thread.                                                           *)
ReconcileRows ==
  /\ row' = [j \in Jobs |-> IF row[j] \in Active THEN "interrupted" ELSE row[j]]
  /\ expired' = {j \in expired : row[j] \notin Active}

(* The main server accepts requests once its own lifespan has reconciled.   *)
MainReconcile ==
  /\ server = "starting"
  /\ ReconcileRows
  /\ server' = "serving"
  /\ UNCHANGED <<reconciling, registry, status, cancelRequested, task,
                 cancelling, issued, poll, faults, stops>>

(* Each data listener serves the same app object and so runs its lifespan   *)
(* too, in no order with respect to the main server's.                      *)
DataReconcile ==
  /\ server \in {"starting", "serving"}
  /\ reconciling > 0
  /\ ReconcileRows
  /\ reconciling' = reconciling - 1
  /\ UNCHANGED <<server, registry, status, cancelRequested, task,
                 cancelling, issued, poll, faults, stops>>

(* The loop shuts down with tasks still running: asyncio cancels them all.  *)
(* A task takes its first step in the loop iteration that created it, so    *)
(* none is still "ready".                                                   *)
Stop ==
  /\ server = "serving"
  /\ stops < MaxStops
  /\ \A j \in Jobs : task[j] # "ready"
  /\ server' = "stopping"
  /\ stops' = stops + 1
  /\ cancelling' = {j \in Jobs : task[j] \in TaskStates \ {"none", "finished"}}
  /\ poll' = [p \in Pollers |-> Idle]
  /\ UNCHANGED <<reconciling, registry, status, cancelRequested, task,
                 history, issued, faults>>

(* Everything in memory is gone; the database file is what is left.         *)
LoseMemory ==
  /\ server' = "down"
  /\ reconciling' = 0
  /\ registry' = {}
  /\ status' = [j \in Jobs |-> Absent]
  /\ cancelRequested' = {}
  /\ task' = [j \in Jobs |-> "none"]
  /\ cancelling' = {}
  /\ poll' = [p \in Pollers |-> Idle]
  /\ UNCHANGED <<history, issued, faults>>

Exit ==
  /\ server = "stopping"
  /\ \A j \in Jobs : task[j] \in {"none", "finished"}
  /\ LoseMemory
  /\ UNCHANGED stops

Crash ==
  /\ server # "down"
  /\ stops < MaxStops
  /\ LoseMemory
  /\ stops' = stops + 1

-----------------------------------------------------------------------------
(* POST /api/restore: create() and submit() with no await between them.     *)

NewJob(j) ==
  /\ server = "serving"
  /\ j \notin issued
  /\ issued' = issued \cup {j}
  /\ registry' = registry \cup {j}
  /\ status' = [status EXCEPT ![j] = "queued"]

Create(j) ==
  /\ NewJob(j)
  /\ row' = [row EXCEPT ![j] = "queued"]
  /\ task' = [task EXCEPT ![j] = "ready"]
  /\ UNCHANGED <<process, cancelRequested, cancelling, expired, poll, faults>>

(* persist_sync raises out of create(): the job is in the registry, the     *)
(* request answers 500 and submit() is never called.                        *)
CreateUnsaved(j) ==
  /\ faults < WriteFaults
  /\ NewJob(j)
  /\ faults' = faults + 1
  /\ UNCHANGED <<process, cancelRequested, task, cancelling, history, poll>>

(* A bug: cancel() without the check that the job is still active.          *)
CancelLate(j) ==
  /\ server = "serving"
  /\ j \in registry
  /\ task[j] # "ready"
  /\ cancelRequested' = cancelRequested \cup {j}
  /\ cancelling' = IF task[j] \in {"none", "finished"}
                     THEN cancelling ELSE cancelling \cup {j}
  /\ UNCHANGED <<process, registry, status, task, history, issued, poll, faults>>

(* POST /api/restore-jobs/{id}/cancel by a session allowed to: cancel().    *)
(* A client learns an id only after the loop iteration that submitted it.   *)
Cancel(j) ==
  /\ server = "serving"
  /\ j \in registry
  /\ status[j] \in Active
  /\ task[j] # "ready"
  /\ cancelRequested' = cancelRequested \cup {j}
  /\ cancelling' = IF task[j] \in {"none", "finished"}
                     THEN cancelling ELSE cancelling \cup {j}
  /\ UNCHANGED <<process, registry, status, task, history, issued, poll, faults>>

-----------------------------------------------------------------------------
(* The task of a job: run_restore() seen through the statuses it sets.      *)

Mark(j, s) ==
  /\ status' = [status EXCEPT ![j] = s]
  /\ row' = [row EXCEPT ![j] = s]

Begin(j) ==
  /\ task[j] = "ready"
  /\ Mark(j, "running")
  /\ task' = [task EXCEPT ![j] = "running"]
  /\ UNCHANGED <<process, registry, cancelRequested, cancelling, issued,
                 expired, poll, faults>>

(* A bug: mark_verifying without its write.                                 *)
VerifyUnsaved(j) ==
  /\ task[j] = "running"
  /\ status[j] = "running"
  /\ j \notin cancelling
  /\ status' = [status EXCEPT ![j] = "verifying"]
  /\ UNCHANGED <<process, registry, cancelRequested, task, cancelling, history,
                 issued, poll, faults>>

Verify(j) ==
  /\ task[j] = "running"
  /\ status[j] = "running"
  /\ j \notin cancelling
  /\ Mark(j, "verifying")
  /\ UNCHANGED <<process, registry, cancelRequested, task, cancelling, issued,
                 expired, poll, faults>>

(* Bugs: a cancellation that is swallowed, and an outcome that is not saved. *)
SettleUncancelled(j, outcome) ==
  /\ task[j] = "running"
  /\ Mark(j, outcome)
  /\ task' = [task EXCEPT ![j] = "cleanup"]
  /\ UNCHANGED <<process, registry, cancelRequested, cancelling, issued,
                 expired, poll, faults>>

SettleUnsaved(j, outcome) ==
  /\ task[j] = "running"
  /\ j \notin cancelling
  /\ status' = [status EXCEPT ![j] = outcome]
  /\ task' = [task EXCEPT ![j] = "cleanup"]
  /\ UNCHANGED <<process, registry, cancelRequested, cancelling, history,
                 issued, poll, faults>>

(* mark_done or mark_failed, from inside the download's try ("closing") or  *)
(* after it ("cleanup").                                                    *)
Settle(j, outcome) ==
  /\ task[j] = "running"
  /\ j \notin cancelling
  /\ Mark(j, outcome)
  /\ \E next \in {"closing", "cleanup"} : task' = [task EXCEPT ![j] = next]
  /\ UNCHANGED <<process, registry, cancelRequested, cancelling, issued,
                 expired, poll, faults>>

(* A write of the task raises.  The handler calls mark_failed, whose own    *)
(* write is tried next and may raise as well.                               *)
WriteRaises(j) ==
  /\ task[j] \in {"ready", "running"}
  /\ j \notin cancelling
  /\ faults < WriteFaults
  /\ faults' = faults + 1
  /\ status' = [status EXCEPT ![j] = "failed"]
  /\ \/ row' = [row EXCEPT ![j] = "failed"]
     \/ row' = row
  /\ task' = [task EXCEPT ![j] = "cleanup"]
  /\ UNCHANGED <<process, registry, cancelRequested, cancelling, issued,
                 expired, poll>>

(* mark_done inside the download's try: memory says done, the write raises, *)
(* and the inner finally awaits aclose() before any handler runs.           *)
DoneRaises(j) ==
  /\ task[j] = "running"
  /\ j \notin cancelling
  /\ faults < WriteFaults
  /\ faults' = faults + 1
  /\ status' = [status EXCEPT ![j] = "done"]
  /\ task' = [task EXCEPT ![j] = "raising"]
  /\ UNCHANGED <<process, registry, cancelRequested, cancelling, history,
                 issued, poll>>

Raised(j) ==
  /\ task[j] = "raising"
  /\ j \notin cancelling
  /\ status' = [status EXCEPT ![j] = "failed"]
  /\ \/ row' = [row EXCEPT ![j] = "failed"]
     \/ row' = row
  /\ task' = [task EXCEPT ![j] = "cleanup"]
  /\ UNCHANGED <<process, registry, cancelRequested, cancelling, issued,
                 expired, poll, faults>>

(* A bug: no clause for CancelledError, which "except Exception" lets pass. *)
CancelledUnmarked(j) ==
  /\ j \in cancelling
  /\ task[j] \in {"running", "closing", "raising"}
  /\ task' = [task EXCEPT ![j] = "cleanup"]
  /\ cancelling' = cancelling \ {j}
  /\ UNCHANGED <<process, registry, status, cancelRequested, history, issued,
                 poll, faults>>

(* CancelledError reaches the task at its await: the except clause settles  *)
(* the status, whatever it is, and the error goes on into the finally.      *)
Cancelled(j) ==
  /\ j \in cancelling
  /\ task[j] \in {"running", "closing", "raising"}
  /\ status' = [status EXCEPT ![j] = "cancelled"]
  /\ \/ row' = [row EXCEPT ![j] = "cancelled"] /\ UNCHANGED faults
     \/ faults < WriteFaults /\ faults' = faults + 1 /\ row' = row
  /\ task' = [task EXCEPT ![j] = "cleanup"]
  /\ cancelling' = cancelling \ {j}
  /\ UNCHANGED <<process, registry, cancelRequested, issued, expired, poll>>

Closed(j) ==
  /\ task[j] = "closing"
  /\ j \notin cancelling
  /\ task' = [task EXCEPT ![j] = "cleanup"]
  /\ UNCHANGED <<process, registry, status, cancelRequested, cancelling,
                 history, issued, poll, faults>>

CleanedUp(j) ==
  /\ task[j] = "cleanup"
  /\ task' = [task EXCEPT ![j] = "finished"]
  /\ cancelling' = cancelling \ {j}
  /\ UNCHANGED <<process, registry, status, cancelRequested, history, issued,
                 poll, faults>>

-----------------------------------------------------------------------------
(* Time: the retention period of a finished job passes.  A restore and its  *)
(* cleanup are shorter than JOB_HISTORY_RETENTION_DAYS.                     *)
Expire(j) ==
  /\ j \in issued \ expired
  /\ IF j \in registry
       THEN status[j] \in Terminal /\ task[j] \in {"none", "finished"}
       ELSE row[j] \in Terminal
  /\ expired' = expired \cup {j}
  /\ UNCHANGED <<process, registry, status, cancelRequested, task, cancelling,
                 row, issued, poll, faults>>

-----------------------------------------------------------------------------
(* GET /api/restore-jobs, cut at its two awaits of a worker thread.         *)

PollStart(p) ==
  /\ server = "serving"
  /\ poll[p].pc = "idle"
  /\ poll' = [poll EXCEPT ![p] = [@ EXCEPT !.pc = "sweep", !.asked = issued]]
  /\ UNCHANGED <<process, registry, status, cancelRequested, task, cancelling,
                 history, issued, faults>>

(* job_history.evict_expired, in the thread.                                *)
PollSweep(p) ==
  /\ poll[p].pc = "sweep"
  /\ row' = [j \in Jobs |-> IF RowExpired(j) THEN Absent ELSE row[j]]
  /\ poll' = [poll EXCEPT ![p] = [@ EXCEPT !.pc = "snapshot"]]
  /\ UNCHANGED <<process, registry, status, cancelRequested, task, cancelling,
                 issued, expired, faults>>

(* Back on the loop: manager.evict_expired and the snapshot of live jobs.   *)
PollSnapshot(p) ==
  /\ poll[p].pc = "snapshot"
  /\ registry' = {j \in registry : ~MemExpired(j)}
  /\ poll' = [poll EXCEPT ![p] = [@ EXCEPT !.pc = "read", !.live = registry']]
  /\ UNCHANGED <<process, status, cancelRequested, task, cancelling, history,
                 issued, faults>>

(* A bug: a list of outcomes that forgets the one a restart writes.         *)
PollReadOwn(p) ==
  /\ poll[p].pc = "read"
  /\ LET rows == [j \in Jobs |->
                    IF j \in poll[p].live \/ row[j] = "interrupted" \/ RowExpired(j)
                      THEN Absent ELSE row[j]]
     IN  poll' = [poll EXCEPT ![p] = [@ EXCEPT !.pc = "reply", !.persisted = rows]]
  /\ UNCHANGED <<process, registry, status, cancelRequested, task, cancelling,
                 history, issued, faults>>

(* job_history.list_recent without the live ids, in the thread.             *)
PollRead(p) ==
  /\ poll[p].pc = "read"
  /\ LET rows == [j \in Jobs |-> IF j \in poll[p].live \/ RowExpired(j)
                                   THEN Absent ELSE row[j]]
     IN  poll' = [poll EXCEPT ![p] = [@ EXCEPT !.pc = "reply", !.persisted = rows]]
  /\ UNCHANGED <<process, registry, status, cancelRequested, task, cancelling,
                 history, issued, faults>>

PollReply(p) ==
  /\ poll[p].pc = "reply"
  /\ poll' = [poll EXCEPT ![p] = Idle]
  /\ UNCHANGED <<process, registry, status, cancelRequested, task, cancelling,
                 history, issued, faults>>

-----------------------------------------------------------------------------
TaskStep(j) ==
  \/ Begin(j)
  \/ Verify(j)
  \/ \E outcome \in {"done", "failed"} : Settle(j, outcome)
  \/ WriteRaises(j)
  \/ DoneRaises(j)
  \/ Raised(j)
  \/ Cancelled(j)
  \/ Closed(j)
  \/ CleanedUp(j)

PollStep(p) ==
  \/ PollSweep(p)
  \/ PollSnapshot(p)
  \/ PollRead(p)
  \/ PollReply(p)

Next ==
  \/ Boot
  \/ MainReconcile
  \/ DataReconcile
  \/ Stop
  \/ Exit
  \/ Crash
  \/ \E j \in Jobs : Create(j) \/ CreateUnsaved(j) \/ Cancel(j) \/ Expire(j)
  \/ \E j \in Jobs : TaskStep(j)
  \/ \E p \in Pollers : PollStart(p) \/ PollStep(p)

Spec == Init /\ [][Next]_vars

(* What a job at work may wait for: PVE, whose downloads have no timeout.   *)
(* A cancellation ends the wait.                                            *)
WaitsOnPve(j) == task[j] = "running" /\ j \notin cancelling

(* asyncio resumes every task whose await completes; the awaits of a settled *)
(* task, and of a cancelled one, are bounded by HTTP timeouts and poll      *)
(* counts, those of a restore at work are not.  The service manager starts  *)
(* the process again.  Nobody has to ask for a list, cancel a job or create *)
(* one.                                                                     *)
Fairness ==
  /\ WF_vars(Boot)
  /\ WF_vars(MainReconcile)
  /\ WF_vars(Exit)
  /\ \A j \in Jobs : WF_vars(TaskStep(j) /\ ~WaitsOnPve(j))

FairSpec == Spec /\ Fairness

-----------------------------------------------------------------------------
(* Type correctness: every status, row and task state is one the code has.  *)
TypeOK ==
  /\ server \in {"down", "starting", "serving", "stopping"}
  /\ reconciling \in 0..DataListeners
  /\ registry \subseteq issued
  /\ status \in [Jobs -> Statuses]
  /\ cancelRequested \subseteq Jobs
  /\ task \in [Jobs -> TaskStates]
  /\ cancelling \subseteq Jobs
  /\ row \in [Jobs -> Statuses]
  /\ issued \subseteq Jobs
  /\ expired \subseteq issued
  /\ poll \in [Pollers -> Requests]
  /\ faults \in 0..WriteFaults
  /\ stops \in 0..MaxStops

(* A cancel the manager accepted is never overtaken by another outcome: the *)
(* job ends "cancelled" however the task's own steps were interleaved with  *)
(* the request, and whatever its writes did (cancel() and the CancelledError *)
(* clauses of run_restore).                                                 *)
CancelWins ==
  \A j \in cancelRequested : status[j] \in Active \cup {"cancelled"}

(* "A job must never hang": as long as no write has raised, a job that      *)
(* shows as active has a task that will settle it, so that cancelling it    *)
(* does something and it leaves the list some day.                          *)
ActiveJobHasTask ==
  faults = 0 =>
    \A j \in registry : status[j] \in Active => task[j] \in {"ready", "running"}

(* Write-through: with one server and no failed write, the row of a live    *)
(* job is its status, at every await of every task, until both are expired. *)
RowFollowsStatus ==
  faults = 0 =>
    \A j \in registry :
      row[j] # status[j] => row[j] = Absent /\ MemExpired(j)

(* Once requests are served no row is left looking in progress from an      *)
(* earlier process: an active row belongs to a job of this one.             *)
NoStuckRow ==
  faults = 0 /\ server = "serving" =>
    \A j \in Jobs : row[j] \in Active => j \in registry

(* main.py:1114, "a persisted-only entry is never cancellable - it's        *)
(* necessarily terminal": the rows a list reply adds to the live jobs.      *)
PersistedOnlyIsTerminal ==
  \A p \in Pollers : \A j \in Jobs :
    poll[p].pc = "reply" => poll[p].persisted[j] \in Terminal \cup {Absent}

(* A list reply misses no job that existed when it was asked for and is     *)
(* still inside the retention window, whichever store holds it.             *)
ListIsComplete ==
  \A p \in Pollers : \A j \in poll[p].asked \ expired :
    poll[p].pc = "reply" /\ (j \in registry \/ row[j] # Absent) =>
      j \in poll[p].live \/ poll[p].persisted[j] # Absent

(* While requests are served and no write has raised, a settled job keeps   *)
(* its outcome: no handler, late cancel or cleanup relabels it.             *)
OutcomeIsFinal ==
  [][server = "serving" /\ faults' = 0 =>
       \A j \in registry : status[j] \in Terminal /\ j \in registry'
                            => status'[j] = status[j]]_vars

(* A row that says how a job ended is never reopened, by a late write of    *)
(* its task or by another job's step: it keeps saying so until the sweep    *)
(* removes it, unless a shutdown's cancellation overtakes it.               *)
HistoryIsFinal ==
  [][server # "stopping" =>
       \A j \in Jobs : row[j] \in Terminal => row'[j] \in {row[j], Absent}]_vars

(* The inductive invariant behind CancelWins, ActiveJobHasTask and          *)
(* OutcomeIsFinal: how a job's status, its task and a pending cancellation  *)
(* go together.                                                             *)
TaskMatchesStatus ==
  \A j \in Jobs :
    /\ task[j] # "none" => j \in issued
    /\ task[j] \in {"ready", "running"} => status[j] \in Active
    /\ task[j] \in {"closing", "raising", "cleanup", "finished"} => status[j] \in Terminal
    /\ task[j] = "raising" => faults > 0
    /\ task[j] = "closing" => status[j] \in {"done", "failed"}

CancellationPending ==
  /\ server \in {"down", "starting"} => cancelling = {}
  /\ server = "serving" => \A j \in cancelling : task[j] = "running"
  /\ \A j \in cancelRequested :
       /\ j \in issued
       /\ status[j] \in Active => j \in cancelling \/ task[j] = "none"
       /\ status[j] \notin Active => task[j] \in {"cleanup", "finished"}

IndInv ==
  /\ TypeOK
  /\ TaskMatchesStatus
  /\ CancellationPending
  /\ CancelWins
  /\ ActiveJobHasTask

(* What ties the stores together: a task at work keeps its job in the       *)
(* registry, and nothing of it is old enough for a sweep.                   *)
StoresMatchTasks ==
  /\ server \in {"down", "starting"} =>
       registry = {} /\ \A j \in Jobs : task[j] = "none"
  /\ \A j \in Jobs :
       /\ row[j] # Absent => j \in issued
       /\ task[j] \notin {"none", "finished"} => j \in registry \ expired

(* A list request past its snapshot knows every job of the registry that    *)
(* was there when it was asked for, and past its read every row it added.   *)
RequestIsCurrent ==
  \A p \in Pollers : \A j \in poll[p].asked :
    /\ j \in issued
    /\ poll[p].pc \in {"read", "reply"} /\ j \in registry => j \in poll[p].live
    /\ poll[p].pc = "reply" /\ row[j] # Absent /\ ~RowExpired(j) =>
         j \in poll[p].live \/ poll[p].persisted[j] # Absent

(* With one server, a task at work has a row that is still in progress.     *)
RowAwaitsTask ==
  \A j \in Jobs : task[j] \in {"ready", "running", "raising"} => row[j] \in Active

ListInv == IndInv /\ StoresMatchTasks /\ RequestIsCurrent

HistoryInv ==
  IndInv /\ StoresMatchTasks /\ RowAwaitsTask /\ RowFollowsStatus /\ NoStuckRow

(* What GET /api/restore-jobs/{id} answers: the live job wins over its row. *)
Shown(j) == IF j \in registry THEN status[j] ELSE row[j]

(* Every job a user sees in progress is seen to end: its task settles it,   *)
(* a cancel or a failure included, or the start after a crash closes it.    *)
(* The one excuse is a PVE that never answers a restore nobody cancels.     *)
JobSettles ==
  \A j \in Jobs :
    \/ Shown(j) \in Active ~> (Shown(j) \notin Active \/ faults > 0)
    \/ <>[]WaitsOnPve(j)

(* restore_runner.py:1278, "a job must never hang running forever", with no *)
(* exception for the write that records how it ended, and PVE excused.      *)
NeverHangsRunning ==
  \A j \in Jobs :
    \/ Shown(j) = "running" ~> Shown(j) # "running"
    \/ <>[]WaitsOnPve(j)

(* RestoreJobs implements the life cycle a user is promised, through every  *)
(* crash, sweep and merge of the two stores, as long as no write raises.    *)
Phase == [j \in Jobs |-> IF Shown(j) \in Active THEN "active" ELSE Shown(j)]

Lifecycle == INSTANCE JobLifecycle WITH phase <- Phase, known <- issued

KeepsLifecycle == Lifecycle!Spec
=============================================================================
