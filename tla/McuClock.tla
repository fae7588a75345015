------------------------------ MODULE McuClock ------------------------------
(***************************************************************************)
(* The clock of dns320l-daemon's main loop: a count of its turns, times    *)
(* the milliseconds of a turn, modulo the period of each round.  The count *)
(* is an int, and so is the product.  It overflows, which C leaves         *)
(* undefined; the processor's multiplication wraps, and so does the model. *)
(***************************************************************************)
EXTENDS Integers

CONSTANTS
  Width,         \* the values of an int: 2^32, or 2^8 to see its end
  pollTimeMs,    \* 10
  LedPeriod,     \* 500
  TempPeriod,    \* 15000
  MaxTurns       \* bound on turns

VARIABLES
  turns,      \* sleepCount
  sinceLed, sinceTemp   \* turns since the last round of each kind

vars == <<turns, sinceLed, sinceTemp>>

\* The product as an int: from -Width/2 to Width/2 - 1.
Signed(x) == ((x + Width \div 2) % Width) - Width \div 2
Elapsed == Signed(turns * pollTimeMs)

\* C's remainder is 0 for negative numbers when TLA's is.
Due(period) == Elapsed % period = 0

Turn ==
  /\ turns < MaxTurns
  /\ turns' = turns + 1
  /\ sinceLed' = IF Due(LedPeriod) THEN 1 ELSE sinceLed + 1
  /\ sinceTemp' = IF Due(TempPeriod) THEN 1 ELSE sinceTemp + 1

Init == turns = 0 /\ sinceLed = 0 /\ sinceTemp = 0

Next == Turn

Spec == Init /\ [][Next]_vars

------------------------------------------------------------------------------
\* main: "read temperature and adjust fan speed every 15 seconds".
TempOnTime == sinceTemp * pollTimeMs <= TempPeriod
=============================================================================
