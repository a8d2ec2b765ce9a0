---------------------------- MODULE NetworkPull ----------------------------
(***************************************************************************)
(* The data-plane TLS ladder of Direct Network Transfer                    *)
(* (backend/restore_network_pull.py): which mode a fetch tool can use      *)
(* between the weakest and the strongest one the administrator allows.     *)
(***************************************************************************)
EXTENDS Naturals

(* TLS_MODES, weakest first.                                                *)
Modes == {"plaintext", "insecure", "verify"}
Rank  == [m \in Modes |-> IF m = "plaintext" THEN 0 ELSE IF m = "insecure" THEN 1 ELSE 2]

(* Every tool that is neither of the last two can do every mode.            *)
Tools == {"curl", "certutil", "bash", "cscript"}

ToolSupportsTls(t, m) ==
  \/ m = "plaintext"
  \/ m = "insecure" /\ t \notin {"bash", "certutil"}
  \/ m = "verify" /\ t # "bash"

(* The strongest mode of minimum..preferred the tool supports, if any.      *)
ResolveTlsMode(t, preferred, minimum) ==
  LET able == {m \in Modes : /\ Rank[minimum] <= Rank[m]
                             /\ Rank[m] <= Rank[preferred]
                             /\ ToolSupportsTls(t, m)}
  IN  IF able = {} THEN "none"
      ELSE CHOOSE m \in able : \A n \in able : Rank[n] <= Rank[m]

(* A bug: TLS_MODES[i - 1] without the check that i > 0 wraps around.       *)
OneRungDownWraps(m) ==
  IF m = "verify" THEN "insecure" ELSE IF m = "insecure" THEN "plaintext" ELSE "verify"

OneRungDown(m) == IF m = "verify" THEN "insecure" ELSE "plaintext"

(* The data listener speaks HTTPS only unless plaintext is preferred.       *)
ClampedMinimum(preferred, minimum) ==
  IF preferred # "plaintext" /\ minimum = "plaintext" THEN "insecure" ELSE minimum
=============================================================================
