------------------------------ MODULE MCHotPlug ------------------------------
(* Instances of HotPlug for TLC: two partitions, one of which, if there are    *)
(* three instances, is announced twice.                                        *)
EXTENDS HotPlug

ADevOf == [p \in Procs |-> IF p = "p1" THEN "a" ELSE "b"]
==============================================================================
