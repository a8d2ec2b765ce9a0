------------------------- MODULE MCOriginalLocation -------------------------
EXTENDS OriginalLocation

InOrder == <<"d1", "d2">>

(* d1 has partitions only, d2 something else beside them, the group spans   *)
(* both.                                                                    *)
OneBackup ==
  {[disk |-> [d \in Disks |->
      [children |-> IF d = "d1" THEN {"part", "lvm"} ELSE {"part", "lvm", "other"},
       parts |-> {1, 2}, groups |-> Groups]],
    volumes |-> [g \in Groups |-> {"root"}]]}
=============================================================================
