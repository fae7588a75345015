------------------------------ MODULE MCBoard ------------------------------
\* What sysctrl and dns320l-daemon do beside the thermal control, for TLC: the
\* socket server, the serial line, the power led and the disk leds.  They share
\* no state, so a behaviour is one of theirs and the others' stays idle.
EXTENDS McuServer

CONSTANTS N, Times, Retries, MaxFaults, MaxLate, MaxWrites, MaxFailures, Mds, MaxEvents

ASSUME SerialAssumption == N \in Nat \ {0} /\ 0 \in Times

VARIABLES
  whose,
  regs, enabled, had, flight, line, step, time, awaits, tries, got, told, lost, late, faults,
  trigger, brightness, curr, led, at, cmd, setting, checks, excused, overwrote, writes, failures,
  md, log, asleep, leds, queue, degraded, last, logged, sleeps, button, events

Serial == INSTANCE McuSerial WITH at <- awaits
Power == INSTANCE PowerLed
Disks == INSTANCE Leds

serialVars == <<regs, enabled, had, flight, line, step, time, awaits, tries, got, told, lost, late, faults>>
powerVars == <<trigger, brightness, curr, led, at, cmd, setting, checks, excused, overwrote, writes, failures>>
diskVars == <<md, log, asleep, leds, queue, degraded, last, logged, sleeps, button, events>>
allVars == <<whose, vars, serialVars, powerVars, diskVars>>

\* The other three start in one state of theirs.
PowerIdle == led = 1
DisksIdle == md = [d \in Mds |-> "absent"] /\ log = "none" /\ ~asleep

MCInit ==
  /\ whose \in {"server", "serial", "power", "disks"}
  /\ Init /\ Serial!Init /\ Power!Init /\ Disks!Init
  /\ whose # "power" => PowerIdle
  /\ whose # "disks" => DisksIdle

Serves(A) == whose = "server" /\ A /\ UNCHANGED <<whose, serialVars, powerVars, diskVars>>
Sends(A) == whose = "serial" /\ A /\ UNCHANGED <<whose, vars, powerVars, diskVars>>
Lights(A) == whose = "power" /\ A /\ UNCHANGED <<whose, vars, serialVars, diskVars>>
Watches(A) == whose = "disks" /\ A /\ UNCHANGED <<whose, vars, serialVars, powerVars>>

MCNext == Serves(Next) \/ Sends(Serial!Next) \/ Lights(Power!Next) \/ Watches(Disks!Next)

\* The loops of the daemons go on, scripts end and buttons are released; clients,
\* and what happens to disks, RAIDs and logs, come when they like.
MCSpec ==
  /\ MCInit /\ [][MCNext]_allVars
  /\ WF_allVars(Serves(Pass)) /\ SF_allVars(Serves(Accept))
  /\ WF_allVars(Lights(Power!Daemon)) /\ WF_allVars(Lights(Power!Scripts))
  /\ WF_allVars(Watches(Disks!Round)) /\ WF_allVars(Watches(Disks!Release))

\* SendCommand, CheckResponse: what a client is told of the alarm is what the MCU
\* has (McuSerial.tla).
AlarmAsTold == Serial!AlarmAsTold

\* readset_powerled: in the end the power led shows what its files say
\* (PowerLed.tla).
LedShowsFiles == Power!LedShowsFiles

\* README.INSTALL: the power led stops blinking when the disk checks have
\* finished (PowerLed.tla).
NoStaleBlink == Power!NoStaleBlink

\* leds_proc: in the end the disk leds are lit while there is trouble, and only
\* then (Leds.tla).
LitWhileTrouble == Disks!LitWhileTrouble
=============================================================================
