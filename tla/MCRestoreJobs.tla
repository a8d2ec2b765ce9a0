--------------------------- MODULE MCRestoreJobs ---------------------------
(* Small instances of RestoreJobs for TLC.                                  *)
EXTENDS RestoreJobs, TLC

(* Jobs and list requests are interchangeable in every definition.          *)
JobSymmetry == Permutations(Jobs) \cup Permutations(Pollers)
=============================================================================
