------------------------------ MODULE MCButtons ------------------------------
(* Instances of Buttons for TLC: a clock that may be set back half a minute. *)
EXTENDS Buttons

SetBack == {-30}
==============================================================================
