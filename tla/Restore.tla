------------------------------ MODULE Restore ------------------------------
(***************************************************************************)
(* What a restore job promises of its destination, with nothing of how it  *)
(* gets there: no steps, no guest agent, no scratch directory, no network. *)
(* The file is written and described while the job is underway, by it or   *)
(* by something it left behind; no attempt ever takes the file away; the   *)
(* job says done at most once, only when what was asked for is there, and  *)
(* from then on nothing of it touches the file again, except that a job    *)
(* that cleared the way for its write may still add the owner's write      *)
(* permission.  A job that failed or was cancelled promises nothing of the *)
(* kind: what it left behind may still write.                              *)
(***************************************************************************)

VARIABLES
  wish,                          \* what done has to mean for this job
  content, mtime, owner, mode,   \* the destination in the guest
  outcome                        \* what the user is told

file == <<content, mtime, owner, mode>>

(* checked: the content was compared or sent whole; dated: the file is to   *)
(* have the time of its source; cleared: the job makes the old file         *)
(* writable first.                                                          *)
Wishes == [checked : BOOLEAN, dated : BOOLEAN, cleared : BOOLEAN]

Init ==
  /\ wish \in Wishes
  /\ content \in {"absent", "old"}
  /\ mtime = "other"
  /\ owner = "other"
  /\ mode = "other"
  /\ outcome = "underway"

(* Content arrives, complete or not: the time is gone, and a new file has   *)
(* the mode its writer creates files with.                                  *)
Write ==
  /\ content' \in {"partial", "source"}
  /\ mtime' = "other"
  /\ mode' \in IF content = "absent" THEN {"other", "0666"} ELSE {mode}
  /\ UNCHANGED owner

(* The old file is made writable; what that adds to the restored mode is    *)
(* seen when it comes late.                                                 *)
Clear ==
  /\ wish.cleared
  /\ mode = "source"
  /\ mode' = "widened"
  /\ UNCHANGED <<content, mtime, owner>>

(* Metadata is only put on a file that exists; a change of the owner clears *)
(* set-id bits.                                                             *)
Describe ==
  /\ content # "absent"
  /\ \/ mtime' = "source" /\ UNCHANGED <<content, owner, mode>>
     \/ mode' = "source" /\ UNCHANGED <<content, owner, mtime>>
     \/ mode = "0666" /\ mode' = "other" /\ UNCHANGED <<content, owner, mtime>>
     \/ /\ owner' = "source"
        /\ mode' = IF mode \in {"source", "widened"} THEN "stripped" ELSE mode
        /\ UNCHANGED <<content, mtime>>

Restored ==
  /\ content # "absent"
  /\ wish.checked => content = "source"
  /\ wish.dated => mtime = "source"
  /\ owner = "source" => mode \in {"source", "widened"}

Settle ==
  /\ outcome = "underway"
  /\ outcome' \in {"done", "failed", "cancelled"}
  /\ outcome' = "done" => Restored'

Step ==
  /\ outcome # "done"
  /\ Write \/ Describe \/ Clear \/ UNCHANGED file
  /\ Settle \/ UNCHANGED outcome
  /\ UNCHANGED wish

(* The one thing that may come after done.                                  *)
Stray ==
  /\ outcome = "done"
  /\ Clear
  /\ UNCHANGED <<wish, outcome>>

Spec == Init /\ [][Step \/ Stray]_<<wish, file, outcome>>
=============================================================================
