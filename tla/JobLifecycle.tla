--------------------------- MODULE JobLifecycle ---------------------------
(***************************************************************************)
(* What the portal promises of a restore job to a user who keeps asking    *)
(* for it by id (GET /api/restore-jobs/{id}): it is in progress, then it   *)
(* has one outcome, then it is forgotten.  No answer ever goes back to     *)
(* "in progress" or from one outcome to another, whichever process or      *)
(* store gives it, with one exception that is spelled out: a shutdown may  *)
(* overrule an outcome with "cancelled".                                   *)
(***************************************************************************)
CONSTANT Jobs

VARIABLES
  phase,    \* what the user is told of each job
  known     \* jobs ever submitted

Outcomes == {"done", "failed", "cancelled"}
Ended    == Outcomes \cup {"interrupted"}

Init ==
  /\ phase = [j \in Jobs |-> "absent"]
  /\ known = {}

Submit(j) ==
  /\ j \notin known
  /\ known' = known \cup {j}
  /\ phase' = [phase EXCEPT ![j] = "active"]

Settle(j, outcome) ==
  /\ phase[j] = "active"
  /\ phase' = [phase EXCEPT ![j] = outcome]
  /\ UNCHANGED known

Overrule(j) ==
  /\ phase[j] \in {"done", "failed"}
  /\ phase' = [phase EXCEPT ![j] = "cancelled"]
  /\ UNCHANGED known

(* A restart interrupts some jobs in progress, the retention period ends    *)
(* for some that have ended.                                                *)
Housekeep(interrupted, forgotten) ==
  /\ \A j \in interrupted : phase[j] = "active"
  /\ \A j \in forgotten : phase[j] \in Ended
  /\ phase' = [j \in Jobs |-> IF j \in interrupted THEN "interrupted"
                              ELSE IF j \in forgotten THEN "absent"
                              ELSE phase[j]]
  /\ UNCHANGED known

Next ==
  \/ \E j \in Jobs : Submit(j) \/ Overrule(j)
  \/ \E j \in Jobs, outcome \in Outcomes : Settle(j, outcome)
  \/ \E interrupted, forgotten \in SUBSET Jobs : Housekeep(interrupted, forgotten)

Spec == Init /\ [][Next]_<<phase, known>>
=============================================================================
