-------------------------- MODULE MCRestoreRunner --------------------------
(* Small instances of RestoreRunner for TLC.                                *)
EXTENDS RestoreRunner

(* A file in one call or in two chunks with every combination of options,   *)
(* and a bundle of one chunk and one of two.                                *)
Files == {j \in JobType : ~j.bundle /\ j.mtime}
Undated == [bundle |-> FALSE, chunks |-> 1, metadata |-> TRUE, mtime |-> FALSE,
            ownership |-> FALSE, verify |-> FALSE]
Bundle(n) == [bundle |-> TRUE, chunks |-> n, metadata |-> FALSE, mtime |-> FALSE,
              ownership |-> FALSE, verify |-> FALSE]
SomeJobs == Files \cup {Undated, Bundle(1), Bundle(2)}

Site(windows, exec, nics, tools, preferred, minimum, unmet, installCa) ==
  [windows |-> windows, exec |-> exec, nics |-> nics, tools |-> tools,
   preferred |-> preferred, minimum |-> minimum, unmet |-> unmet,
   installCa |-> installCa]

(* Without guest-exec, without data NICs, and the corners of the ladder.    *)
SomeSites ==
  {Site(w, e, FALSE, {}, "verify", "insecure", "fallback", TRUE) :
     w \in BOOLEAN, e \in BOOLEAN} \cup
  {Site(FALSE, TRUE, TRUE, {"curl", "bash"}, "plaintext", "plaintext", u, FALSE) :
     u \in {"fallback", "fail"}} \cup
  {Site(FALSE, TRUE, TRUE, {"curl", "bash"}, "verify", "plaintext", u, i) :
     u \in {"fallback", "fail"}, i \in BOOLEAN} \cup
  {Site(TRUE, TRUE, TRUE, {"certutil", "cscript"}, "verify", "verify", u, TRUE) :
     u \in {"fallback", "fail"}}
=============================================================================
