---------------------------- MODULE MCDiskPower -----------------------------
(* An instance of DiskPower for TLC: a bay and the USB port. *)
EXTENDS DiskPower

ASpindown == [s \in Slots |-> 2]
==============================================================================
