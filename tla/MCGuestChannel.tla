--------------------------- MODULE MCGuestChannel ---------------------------
(* Small instances of GuestChannel for TLC.                                 *)
EXTENDS GuestChannel, TLC

CONSTANTS c1, c2, c3, g1

(* Three callers of one guest: a restore, a second one, and a browser tab   *)
(* that looks at the guest's capabilities.                                  *)
OneGuest == [c \in Callers |-> g1]
Mix == (c1 :> {"exec", "write"} @@ c2 :> {"exec"} @@ c3 :> {"info", "osinfo"})
=============================================================================
