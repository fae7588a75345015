------------------------------ MODULE MCThermal ------------------------------
(* Instances of Thermal for TLC.  The filter of fanctl takes a temperature     *)
(* that jumps between the two extremes through every value in between.        *)
EXTENDS Thermal

Cool == {30, 56}   \* below fan_off_temp, above crit_temp
NoDisk == {0}      \* hddtemp does not answer

AutoSlow == {"AUTO", "SLOW"}
==============================================================================
