------------------------------ MODULE DiskPower ------------------------------
(***************************************************************************)
(* sysctrl's watch over the disks' power: hdd_powercheck every five        *)
(* seconds, and /etc/bay, the list of the disks plugged, which hot.sh      *)
(* edits and sysctrl follows with inotify.                                 *)
(*                                                                         *)
(* Time is counted in checks.  A slot has one disk at most.                *)
(***************************************************************************)
EXTENDS Integers, FiniteSets

CONSTANTS
  Slots,       \* the left and right bays and the USB port
  Answering,   \* the slots whose disk answers CHECK POWER MODE and stops by itself
  Pluggable,   \* the slots whose disk comes and goes
  Spindown,    \* spindow_time of a slot, in checks; 0 for never
  MaxIdle,     \* bound on idle times: longer ones are not told apart
  MaxIo,       \* bound on the reads and writes of a disk
  MaxPlugs     \* bound on the plugging and unplugging of disks

ASSUME SlotsAssumption == Answering \subseteq Slots /\ Pluggable \subseteq Slots
ASSUME SpindownAssumption ==
  Spindown \in [Slots -> Nat] /\ \A s \in Slots: Spindown[s] < MaxIdle
ASSUME DiskAssumption == MaxIdle \in Nat /\ MaxIo \in Nat /\ MaxPlugs \in Nat

VARIABLES
  there,       \* the slots with a disk, as the kernel knows
  spinning,    \* the slots whose disk spins
  io,          \* reads plus writes of the slot's disk, of /sys/block/*/stat
  used,        \* the slots whose disk has been used since the last check
  bay,         \* the slots /etc/bay lists
  job,         \* hot.sh's edit of /etc/bay under way, one at a time: mdev.seq
  watched,     \* the inotify watch is on the file that is /etc/bay now
  events,      \* inotify events not read
  pc,          \* "sleep", "reading" in a signal handler, or "check"
  dev,         \* the slots with a disk in disks[]
  power, rdwr, idle,   \* power_state, rdwr_cnt and the time since last_access
  led,         \* the led of a slot: its last use by hdd_powercheck
  powerLed, plugs

disks     == <<there, spinning, io, used>>
file      == <<bay, job, plugs>>
inotify   == <<watched, events>>
remembered == <<power, rdwr, idle>>
shown     == <<led, powerLed>>
diskVars == <<disks, file, inotify, pc, dev, remembered, shown>>

Idle == <<"none", "none">>   \* no edit of /etc/bay under way

------------------------------------------------------------------------------
(* The disks                                                                *)

\* A read or a write wakes the disk.
Use(s) ==
  /\ s \in there /\ io[s] < MaxIo
  /\ io' = [io EXCEPT ![s] = @ + 1]
  /\ spinning' = spinning \cup {s}
  /\ used' = used \cup {s}
  /\ UNCHANGED <<there, file, inotify, pc, dev, remembered, shown>>

\* The timeout that hdparm -S gave the disk, which is longer than a check.
StopsItself(s) ==
  /\ s \in Answering \cap (spinning \ used)
  /\ spinning' = spinning \ {s}
  /\ UNCHANGED <<there, io, used, file, inotify, pc, dev, remembered, shown>>

\* The kernel counts a new disk's reads and writes from zero.
Plug(s) ==
  /\ s \in Pluggable \ there /\ job = Idle /\ plugs < MaxPlugs
  /\ there' = there \cup {s} /\ spinning' = spinning \cup {s}
  /\ io' = [io EXCEPT ![s] = 0]
  /\ job' = <<"add", s>> /\ plugs' = plugs + 1
  /\ UNCHANGED <<used, bay, inotify, pc, dev, remembered, shown>>

Unplug(s) ==
  /\ s \in Pluggable \cap there /\ job = Idle /\ plugs < MaxPlugs
  /\ there' = there \ {s} /\ spinning' = spinning \ {s} /\ used' = used \ {s}
  /\ job' = <<"remove", s>> /\ plugs' = plugs + 1
  /\ UNCHANGED <<io, bay, inotify, pc, dev, remembered, shown>>

\* The clock, first set by ntpd years after the epoch: every last use is long ago.
StepClock ==
  /\ idle' = [s \in Slots |-> MaxIdle]
  /\ UNCHANGED <<disks, file, inotify, pc, dev, power, rdwr, shown>>

------------------------------------------------------------------------------
(* hot.sh: add_disk and remove_disk edit /etc/bay                           *)

\* sed -i: a new file is renamed over the old one, whose watch ends.
Replace(contents) ==
  /\ bay' = contents
  /\ watched' = FALSE
  /\ events' = IF watched THEN events \cup {"ignored"} ELSE events

\* echo >>
Append(s) ==
  /\ bay' = bay \cup {s}
  /\ UNCHANGED watched
  /\ events' = IF watched THEN events \cup {"modify"} ELSE events

AddDrops ==
  /\ job[1] = "add"
  /\ Replace(bay \ {job[2]})
  /\ job' = <<"list", job[2]>>
  /\ UNCHANGED <<disks, plugs, pc, dev, remembered, shown>>

AddLists ==
  /\ job[1] = "list"
  /\ Append(job[2])
  /\ job' = Idle
  /\ UNCHANGED <<disks, plugs, pc, dev, remembered, shown>>

RemoveDrops ==
  /\ job[1] = "remove"
  /\ Replace(bay \ {job[2]})
  /\ job' = Idle
  /\ UNCHANGED <<disks, plugs, pc, dev, remembered, shown>>

------------------------------------------------------------------------------
(* sysctrl's inotify handler, which runs in the sleep of the loop           *)

\* Mutant of ReadEvents: a watch that has ended is not replaced.
ReadEventsOnce ==
  /\ pc = "sleep" /\ events # {}
  /\ events' = {}
  /\ pc' = "reading"
  /\ UNCHANGED <<disks, file, watched, dev, remembered, shown>>

\* All events are read; a watch that has ended is replaced by one on the file
\* of now, before that is read.
ReadEvents ==
  /\ pc = "sleep" /\ events # {}
  /\ events' = {}
  /\ watched' = (watched \/ "ignored" \in events)
  /\ pc' = "reading"
  /\ UNCHANGED <<disks, file, dev, remembered, shown>>

\* read_bay forgets no more of a slot than its device.
ReadBay ==
  /\ pc = "reading"
  /\ dev' = bay
  /\ pc' = "sleep"
  /\ UNCHANGED <<disks, file, inotify, remembered, shown>>

WakeUp ==
  /\ pc = "sleep" /\ events = {}
  /\ pc' = "check"
  /\ idle' = [s \in Slots |-> IF idle[s] < MaxIdle THEN idle[s] + 1 ELSE idle[s]]
  /\ UNCHANGED <<disks, file, inotify, dev, power, rdwr, shown>>

------------------------------------------------------------------------------
(* hdd_powercheck                                                           *)

\* check_powermode: a disk that does not answer, or is gone, is unknown.
CheckPowermode(s) ==
  IF s \in there \cap Answering THEN IF s \in spinning THEN 1 ELSE 0 ELSE -1

\* The statistics of a disk that is gone read as 0.
Dstat(s) == IF s \in there THEN io[s] ELSE 0

Timed(s) == s \in dev /\ CheckPowermode(s) = -1 /\ Spindown[s] > 0

\* It has been used since the last check.
Active(s) == Timed(s) /\ Dstat(s) > rdwr[s]

\* Mutant of Stopped: the time alone decides, whatever the counter says.
StoppedOnTime(s) == Timed(s) /\ power[s] # 0 /\ idle[s] > Spindown[s]

\* It has not, nor for the spindown time: it is stopped (spindown_disk).
Stopped(s) == Timed(s) /\ ~Active(s) /\ power[s] # 0 /\ idle[s] > Spindown[s]

\* Mutant of PowerState: a disk found active keeps the state it had.
PowerStateKept(s) ==
  IF Stopped(s) THEN 0 ELSE IF Timed(s) THEN power[s] ELSE CheckPowermode(s)

PowerState(s) ==
  IF Active(s) THEN 1
  ELSE IF Stopped(s) THEN 0
  ELSE IF Timed(s) THEN power[s]
  ELSE CheckPowermode(s)

\* The sum of the known disks' states is not 0; an unknown one counts -1.
SomeActive(state) ==
  Cardinality({s \in dev: state[s] = 1}) # Cardinality({s \in dev: state[s] = -1})

HddPowercheck ==
  /\ pc = "check"
  /\ power' = [s \in Slots |-> IF s \in dev THEN PowerState(s) ELSE power[s]]
  /\ rdwr' = [s \in Slots |-> IF Active(s) THEN Dstat(s) ELSE rdwr[s]]
  /\ idle' = [s \in Slots |-> IF Active(s) THEN 0 ELSE idle[s]]
  /\ spinning' = {s \in spinning: ~Stopped(s)}
  /\ led' = [s \in Slots |-> IF power'[s] = power[s] THEN led[s]
                             ELSE IF power'[s] = 0 THEN "standby" ELSE "off"]
  /\ powerLed' = IF SomeActive(power') \/ dev = {} THEN "on" ELSE "off"
  /\ used' = {}
  /\ pc' = "sleep"
  /\ UNCHANGED <<there, io, file, inotify, dev>>

------------------------------------------------------------------------------
DiskInit ==
  /\ there = Slots /\ spinning = Slots
  /\ io = [s \in Slots |-> 0] /\ used = {}
  /\ bay = Slots /\ job = Idle /\ plugs = 0
  /\ watched = TRUE /\ events = {} /\ pc = "sleep"
  /\ dev = Slots
  /\ power = [s \in Slots |-> 1] /\ rdwr = [s \in Slots |-> 0]
  /\ idle = [s \in Slots |-> MaxIdle]
  /\ led = [s \in Slots |-> "off"] /\ powerLed = "on"

Loop == WakeUp \/ HddPowercheck \/ ReadEvents \/ ReadBay
HotScript == AddDrops \/ AddLists \/ RemoveDrops

DiskNext ==
  \/ Loop \/ HotScript \/ StepClock
  \/ \E s \in Slots: Use(s) \/ StopsItself(s) \/ Plug(s) \/ Unplug(s)

DiskSpec == DiskInit /\ [][DiskNext]_diskVars
FairDiskSpec == DiskSpec /\ WF_diskVars(Loop) /\ WF_diskVars(HotScript)

------------------------------------------------------------------------------
\* No edit of /etc/bay is missed, however it interleaves with the handler that
\* replaces the watch and reads the file: with no event left, and the handler
\* not half way, sysctrl knows the disks the file lists and watches that file.
SeesEdits == (events = {} /\ pc # "reading") => dev = bay /\ watched

\* A disk used since the last check is not stopped: neither the counter of its
\* uses nor the time of its last use is ever another moment's or another disk's.
NoBusySpindown == [][used \cap spinning \cap there' \subseteq spinning']_diskVars

\* A disk that does not stop by itself and is not used any more is stopped for
\* good, whenever it was used and whatever came and went (MaxIo bounds its uses).
IdleSpinsDown ==
  \A s \in Slots \ Answering: <>[](s \in there) => <>[](s \notin spinning)
==============================================================================
