--------------------------- MODULE MCStreamBundle ---------------------------
(* Two downloads over a pool of one worker.                                *)
EXTENDS StreamBundle, TLC

CONSTANTS d1, d2

FileThenFolder == (d1 :> <<TRUE, FALSE>>) @@ (d2 :> <<FALSE>>)
=============================================================================
