------------------------------- MODULE Mutex -------------------------------
(***************************************************************************)
(* What a lock of this system promises: at most one process inside, until  *)
(* one ends there and leaves its mark behind.  The marks are a directory   *)
(* or a pid file; there is no kernel lock that ends with its owner.        *)
(***************************************************************************)
CONSTANT Procs
VARIABLES
  inside,   \* the processes inside
  left      \* TRUE once a process ended and left its mark

vars == <<inside, left>>

Init == inside = {} /\ left = FALSE

Enter(p) ==
  /\ p \notin inside
  /\ left \/ inside = {}
  /\ inside' = inside \cup {p}
  /\ UNCHANGED left

Leave(p) ==
  /\ p \in inside
  /\ inside' = inside \ {p}
  /\ UNCHANGED left

End(p) ==
  /\ p \in inside
  /\ inside' = inside \ {p}
  /\ left' = TRUE

Next == \E p \in Procs: Enter(p) \/ Leave(p) \/ End(p)

Spec == Init /\ [][Next]_vars

\* While every process that went in has come out, no two of them are inside.
Exclusion == left \/ \A p, q \in inside: p = q
=============================================================================
