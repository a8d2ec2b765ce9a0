--------------------------- MODULE MCListingCache ---------------------------
(* Small instances of ListingCache for TLC.                                 *)
EXTENDS ListingCache, TLC

CONSTANTS u1, u2, c1, c2, c3, p1

(* Two tabs of one user, who also loads the page, and another user.         *)
TwoTabs == (c1 :> u1 @@ c2 :> u1 @@ c3 :> u2 @@ p1 :> u1)
=============================================================================
