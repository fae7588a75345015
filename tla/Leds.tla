-------------------------------- MODULE Leds --------------------------------
(***************************************************************************)
(* The disk leds of sysctrl: hdd_powercheck, md_stat and check_syserrlog   *)
(* want different things of them, through a queue of three priorities, of  *)
(* which leds_proc lets the last have its way.  All four run one after the *)
(* other, every five seconds, when no button is down.                      *)
(***************************************************************************)
EXTENDS Naturals

CONSTANTS
  Mds,           \* the RAID devices
  MaxEvents      \* bound on what the world does

VARIABLES
  md,            \* "absent", "inactive", "plain" (no redundancy), "whole", "degraded"
  log,           \* the error log: "none", "empty", "full"
  asleep,        \* the disk is in standby
  leds,          \* "off", "on", "blink", or "flash": slowly, for a disk that sleeps
  queue,         \* leds_pqueue
  degraded, last,      \* md_stat's: per device, and any
  logged,        \* check_syserrlog's leds_state
  sleeps,        \* power_state of the disk is 0
  button,        \* a button is down
  events

world == <<md, log, asleep>>
memory == <<queue, degraded, last, logged, sleeps>>
vars == <<world, leds, memory, button, events>>

High == 1
Low == 3
Priorities == 1..3

------------------------------------------------------------------------------
\* hdd_powercheck: the disk's led flashes when it falls asleep, and goes off
\* when it wakes.
PowerCheck == IF asleep = sleeps THEN leds ELSE IF asleep THEN "flash" ELSE "off"

\* md_stat: what each device is remembered as; one that is not there any more
\* stays what it was, and the log has a line for each that is new.
DegradedNow == [d \in Mds |->
  CASE md[d] = "absent" -> degraded[d] [] md[d] = "degraded" -> TRUE [] OTHER -> FALSE]
NewlyDegraded == \E d \in Mds: md[d] = "degraded" /\ ~degraded[d]
LastNow == (last \/ NewlyDegraded) /\ \E d \in Mds: DegradedNow[d]

MdMode == CASE NewlyDegraded -> "on"
            [] last /\ ~LastNow -> "off"
            [] OTHER -> queue[High]
LogNow == IF NewlyDegraded THEN "full" ELSE log

\* check_syserrlog: on with the first line, off when it is emptied or removed.
LogMode == CASE LogNow = "full" /\ ~logged -> "on"
             [] LogNow # "full" /\ logged -> "off"
             [] OTHER -> queue[Low]

\* Mutant of Taken: an entry is taken from the queue once it is done.
TakenAll(q) == [p \in Priorities |-> "na"]

\* leds_proc: off is done once, on is done again each time; the last one wins.
Taken(q) == [p \in Priorities |-> IF q[p] = "off" THEN "na" ELSE q[p]]
Shown(q, now) ==
  LET set == {p \in Priorities: q[p] # "na"} IN
  IF set = {} THEN now ELSE q[CHOOSE p \in set: \A r \in set: r <= p]

\* One round of mainloop, of which there is one every five seconds.
Round ==
  /\ ~button
  /\ LET q == [queue EXCEPT ![High] = MdMode, ![Low] = LogMode] IN
     leds' = Shown(q, PowerCheck) /\ queue' = Taken(q)
  /\ sleeps' = asleep
  /\ degraded' = DegradedNow /\ last' = LastNow
  /\ log' = LogNow /\ logged' = (LogNow = "full")
  /\ UNCHANGED <<md, asleep, button, events>>

------------------------------------------------------------------------------
\* A button that is pressed puts the leds out; back_button blinks them, and
\* when it is released they are out again.
Press ==
  /\ ~button /\ events < MaxEvents
  /\ button' = TRUE /\ events' = events + 1
  /\ leds' \in {"off", "blink"}
  /\ UNCHANGED <<world, memory>>

Release ==
  /\ button
  /\ button' = FALSE /\ leds' = "off"
  /\ UNCHANGED <<world, memory, events>>

\* mdadm, the disks, the other writers of the log and the page that clears it.
Happens(m, l, a) ==
  /\ events < MaxEvents
  /\ md' = m /\ log' = l /\ asleep' = a /\ events' = events + 1
  /\ UNCHANGED <<leds, memory, button>>

MdChanges(d, s) == Happens([md EXCEPT ![d] = s], log, asleep)
LogChanges(s) == Happens(md, s, asleep)
DiskChanges == Happens(md, log, ~asleep)

Init ==
  /\ md \in [Mds -> {"absent", "whole", "degraded"}] /\ log \in {"none", "full"} /\ asleep \in BOOLEAN
  /\ leds = "off" /\ queue = [p \in Priorities |-> "off"]
  /\ degraded = [d \in Mds |-> FALSE] /\ last = FALSE /\ logged = FALSE /\ sleeps = FALSE
  /\ button = FALSE /\ events = 0

Next ==
  \/ Round \/ Press \/ Release \/ DiskChanges
  \/ \E d \in Mds, s \in {"absent", "inactive", "plain", "whole", "degraded"}: MdChanges(d, s)
  \/ \E s \in {"none", "empty", "full"}: LogChanges(s)

Spec == Init /\ [][Next]_vars

------------------------------------------------------------------------------
Trouble == log = "full" \/ \E d \in Mds: md[d] = "degraded"
Vanished == \E d \in Mds: md[d] = "absent" /\ degraded[d]

\* leds_proc: in the end the leds are lit while, and only while, there is
\* trouble, whatever came and went, in whatever order, and whichever buttons and
\* disks put the leds out.  A device that vanished degraded keeps them lit.
LitWhileTrouble == <>[]((leds = "on") <=> (Trouble \/ Vanished))
=============================================================================
