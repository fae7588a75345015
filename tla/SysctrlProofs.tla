---------------------------- MODULE SysctrlProofs ----------------------------
(***************************************************************************)
(* What holds of sysctrl's thermal control for every temperature, limit,    *)
(* set of fan modes and bound, and of its disk power management for any     *)
(* slots, disks, spindown times and bounds.                                 *)
(***************************************************************************)
EXTENDS Thermal, DiskPower, TLAPS

------------------------------------------------------------------------------
(* fanctl: the type invariant, and that no box is powered off for a heat    *)
(* that no sensor reported                                                  *)

\* The filter is an average: what it gives is no hotter than its arguments.
LEMMA FilterBounded ==
  ASSUME NEW t \in Nat, NEW degrees \in Nat, NEW h \in Nat,
         t <= 10 * h, degrees <= h
  PROVE  /\ Filter(t, degrees) \in Nat
         /\ Filter(t, degrees) <= 10 * h
BY DEF Filter

\* Whatever the mode and the reported speed, fanctl writes one of three values.
LEMMA PwmForType ==
  ASSUME NEW mode \in FanModes, NEW t \in Nat, NEW rpm \in Nat
  PROVE  PwmFor(mode, t, rpm) \in {0, 127, 255}
<1>1. AutoPwm(t, rpm) \in {0, 127, 255}
  BY DEF AutoPwm, PwmOf
<1> QED
  BY <1>1 DEF PwmFor, PwmOf, FanModes

LEMMA LevelForType == ASSUME NEW value \in Nat PROVE LevelFor(value) \in Levels
BY DEF LevelFor, Levels

\* TypeOK is inductive by itself.
LEMMA InitType == Init => TypeOK
<1> SUFFICES ASSUME Init PROVE TypeOK
  OBVIOUS
<1>1. off \in BOOLEAN
  BY Zenon DEF Init
<1> QED
  BY <1>1, TemperaturesAssumption, ModesAssumption, BoundsAssumption
  DEF Init, TypeOK, Levels, Empty

LEMMA SufferType ==
  ASSUME NEW kind, Suffer(kind), adversity \in 0..MaxAdversity
  PROVE  adversity' \in 0..MaxAdversity
BY BoundsAssumption DEF Suffer

LEMMA MayTearType ==
  ASSUME NEW writing, MayTear(writing), adversity \in 0..MaxAdversity
  PROVE  adversity' \in 0..MaxAdversity
BY SufferType DEF MayTear

LEMMA NextType == TypeOK /\ [Next]_vars => TypeOK'
<1> SUFFICES ASSUME TypeOK, [Next]_vars PROVE TypeOK'
  OBVIOUS
<1> USE TemperaturesAssumption, ModesAssumption, BoundsAssumption
<1> USE DEF TypeOK, sysctrlVars, daemonVars, files, hardware, Levels, Empty
<1>1. CASE PrimeTemp
  BY <1>1, MayTearType DEF PrimeTemp, Read
<1>2. CASE ReadTemp
  BY <1>2, MayTearType DEF ReadTemp, Read
<1>3. CASE Control
  <2>1. PICK dtemp \in {diskTemp, 0} :
          /\ hottest' = MaxOf(hottest, dtemp)
          /\ temp' = Filter(temp, MaxOf(stemp, dtemp))
    BY <1>3 DEF Control
  <2>2. dtemp \in Nat /\ MaxOf(stemp, dtemp) \in Nat /\ hottest' \in Nat
    BY <2>1 DEF MaxOf
  <2>3. temp' \in Nat
    BY <2>1, <2>2 DEF Filter
  <2>4. pwm' \in {0, 127, 255}
    BY <1>3, <2>3, PwmForType DEF Control, Read
  <2> QED
    BY <1>3, <2>2, <2>3, <2>4, MayTearType DEF Control
<1>4. CASE TruncatePwm
  BY <1>4 DEF TruncatePwm
<1>5. CASE WritePwm
  BY <1>5 DEF WritePwm
<1>6. CASE Alarms
  BY <1>6 DEF Alarms
<1>7. CASE ReadConfig
  BY <1>7, SufferType DEF ReadConfig
<1>8. CASE QuitHandler
  BY <1>8, SufferType DEF QuitHandler, PwmOf
<1>9. CASE StartSysctrl
  BY <1>9 DEF StartSysctrl
<1>10. CASE BeginRound
  BY <1>10 DEF BeginRound
<1>11. CASE ClientGetTemp
  BY <1>11, SufferType DEF ClientGetTemp
<1>12. CASE ClientSetFan
  BY <1>12, SufferType DEF ClientSetFan
<1>13. CASE AskTemp
  BY <1>13 DEF AskTemp, MaxOf
<1>14. CASE AskTempFails
  BY <1>14, SufferType DEF AskTempFails, AfterTemp
<1>15. CASE TruncateTemp
  BY <1>15 DEF TruncateTemp
<1>16. CASE WriteTemp
  BY <1>16 DEF WriteTemp, AfterTemp
<1>17. CASE ReadPwm
  BY <1>17, MayTearType, LevelForType DEF ReadPwm
<1>18. CASE SetFan
  BY <1>18 DEF SetFan
<1>19. CASE SetFanFails
  BY <1>19, SufferType DEF SetFanFails
<1>20. CASE TruncateFan
  BY <1>20 DEF TruncateFan
<1>21. CASE WriteFan
  BY <1>21 DEF WriteFan, RpmOf
<1>22. CASE Terminate
  BY <1>22, SufferType DEF Terminate
<1>23. CASE Respawn
  BY <1>23 DEF Respawn
<1>24. CASE Weather
  BY <1>24 DEF Weather
<1>25. CASE UNCHANGED vars
  BY <1>25 DEF vars
<1> QED
  BY <1>1, <1>2, <1>3, <1>4, <1>5, <1>6, <1>7, <1>8, <1>9, <1>10, <1>11, <1>12, <1>13,
     <1>14, <1>15, <1>16, <1>17, <1>18, <1>19, <1>20, <1>21, <1>22, <1>23, <1>24, <1>25
  DEF Next, Fanctl, ReadsetTemp

\* Every variable of both daemons keeps its type.
THEOREM TypeCorrect == Spec => []TypeOK
BY InitType, NextType, PTL DEF Spec

------------------------------------------------------------------------------
\* The strengthening: every copy of a temperature, in a variable or in the
\* file, is at most the hottest one that a sensor reported.
Bounded ==
  /\ temp <= 10 * hottest
  /\ stemp <= hottest /\ tempFile <= hottest /\ reading <= hottest

HeatInv == Bounded /\ NoSpuriousShutdown

LEMMA InitHeat == Init => HeatInv
BY DEF Init, HeatInv, Bounded, NoSpuriousShutdown

LEMMA NextHeat == TypeOK /\ HeatInv /\ [Next]_vars => HeatInv'
<1> SUFFICES ASSUME TypeOK, HeatInv, [Next]_vars PROVE HeatInv'
  OBVIOUS
<1> USE TemperaturesAssumption, ThresholdsAssumption
<1> USE DEF TypeOK, HeatInv, Bounded, NoSpuriousShutdown, sysctrlVars, daemonVars,
            files, hardware, Empty
<1>1. CASE PrimeTemp
  BY <1>1 DEF PrimeTemp, Read
<1>2. CASE ReadTemp
  BY <1>2 DEF ReadTemp, Read
<1>3. CASE Control
  <2>1. PICK dtemp \in {diskTemp, 0} :
          /\ hottest' = MaxOf(hottest, dtemp)
          /\ temp' = Filter(temp, MaxOf(stemp, dtemp))
    BY <1>3 DEF Control
  <2>2. /\ MaxOf(stemp, dtemp) \in Nat /\ hottest' \in Nat
        /\ MaxOf(stemp, dtemp) <= hottest' /\ hottest <= hottest'
    BY <2>1 DEF MaxOf
  <2>3. temp' <= 10 * hottest'
    BY <2>1, <2>2, FilterBounded
  <2> QED
    BY <1>3, <2>2, <2>3 DEF Control
<1>4. CASE Alarms
  BY <1>4 DEF Alarms, Above
<1>5. CASE AskTemp
  BY <1>5 DEF AskTemp, MaxOf
<1>6. CASE WriteTemp
  BY <1>6 DEF WriteTemp
<1>7. CASE StartSysctrl
  BY <1>7 DEF StartSysctrl
<1>8. CASE WriteFan
  BY <1>8 DEF WriteFan
<1>9. CASE TruncateTemp
  BY <1>9 DEF TruncateTemp
<1>10. CASE Terminate \/ SetFanFails \/ SetFan \/ AskTempFails
  BY <1>10 DEF Terminate, SetFanFails, SetFan, AskTempFails
<1>11. CASE TruncatePwm \/ WritePwm \/ ReadConfig \/ QuitHandler
  BY <1>11 DEF TruncatePwm, WritePwm, ReadConfig, QuitHandler
<1>12. CASE BeginRound \/ ClientGetTemp \/ ClientSetFan \/ ReadPwm
  BY <1>12 DEF BeginRound, ClientGetTemp, ClientSetFan, ReadPwm
<1>13. CASE TruncateFan \/ Respawn \/ Weather
  BY <1>13 DEF TruncateFan, Respawn, Weather
<1>14. CASE UNCHANGED vars
  BY <1>14 DEF vars
<1> QED
  BY <1>1, <1>2, <1>3, <1>4, <1>5, <1>6, <1>7, <1>8, <1>9, <1>10, <1>11, <1>12, <1>13,
     <1>14
  DEF Next, Fanctl, ReadsetTemp

\* crit_temp_command never runs unless a sensor reported more than crit_temp:
\* not for torn reads, restarts, lost answers nor for what the filter keeps.
THEOREM ShutdownOnlyIfHot == Spec => []NoSpuriousShutdown
<1>1. HeatInv => NoSpuriousShutdown
  BY DEF HeatInv
<1> QED
  BY InitType, NextType, InitHeat, NextHeat, <1>1, PTL DEF Spec

------------------------------------------------------------------------------
(* read_bay and hdd_powercheck                                              *)

\* The inductive form of SeesEdits: a watch that has ended has left its event
\* behind, and between reading the events and reading the file nothing is known.
EditsKnown ==
  /\ watched \/ "ignored" \in events
  /\ (events = {} /\ pc # "reading") => dev = bay

\* No edit of /etc/bay is lost: not by the edits and the handler interleaving,
\* nor by sed -i replacing the file under its watch.
THEOREM EditsSeen == DiskSpec => []SeesEdits
<1>1. DiskInit => EditsKnown
  BY DEF DiskInit, EditsKnown
<1>2. EditsKnown /\ [DiskNext]_diskVars => EditsKnown'
  <2> SUFFICES ASSUME EditsKnown, [DiskNext]_diskVars PROVE EditsKnown'
    OBVIOUS
  <2>1. CASE HotScript
    BY <2>1 DEF HotScript, AddDrops, AddLists, RemoveDrops, Replace, Append, EditsKnown
  <2>2. CASE ReadEvents
    BY <2>2 DEF ReadEvents, EditsKnown
  <2>3. CASE ReadBay
    BY <2>3 DEF ReadBay, file, inotify, EditsKnown
  <2>4. CASE WakeUp
    BY <2>4 DEF WakeUp, file, inotify, EditsKnown
  <2>5. CASE HddPowercheck
    BY <2>5 DEF HddPowercheck, file, inotify, EditsKnown
  <2>6. CASE \/ StepClock
             \/ \E s \in Slots: Use(s) \/ StopsItself(s) \/ Plug(s) \/ Unplug(s)
    BY <2>6 DEF StepClock, Use, StopsItself, Plug, Unplug, file, inotify, EditsKnown
  <2>7. CASE UNCHANGED diskVars
    BY <2>7 DEF diskVars, file, inotify, EditsKnown
  <2>8. QED
    BY <2>1, <2>2, <2>3, <2>4, <2>5, <2>6, <2>7 DEF DiskNext, Loop
<1>3. EditsKnown => SeesEdits
  BY DEF EditsKnown, SeesEdits
<1>4. QED
  BY <1>1, <1>2, <1>3, PTL DEF DiskSpec

\* The counter sysctrl remembers of a disk that does not answer, and its kernel's.
CountsAgree ==
  /\ Slots \ Answering \subseteq there
  /\ io \in [Slots -> Int] /\ rdwr \in [Slots -> Int]
  /\ used \subseteq Slots
  /\ \A s \in Slots \ Answering: rdwr[s] <= io[s] /\ (s \in used => rdwr[s] < io[s])

\* A check stops no disk that has been used since the one before.
LEMMA UsedIsActive ==
  ASSUME CountsAgree, NEW s \in used, s \in there
  PROVE ~Stopped(s)
<1>1. CASE s \in Answering
  <2>1. CheckPowermode(s) # -1
    BY <1>1 DEF CheckPowermode
  <2>2. QED
    BY <2>1 DEF Stopped, Timed
<1>2. CASE s \notin Answering
  <2>1. Dstat(s) > rdwr[s]
    BY <1>2 DEF CountsAgree, Dstat
  <2>2. QED
    BY <2>1 DEF Stopped, Active
<1>3. QED
  BY <1>1, <1>2

LEMMA CountsKept ==
  ASSUME Pluggable \subseteq Answering, CountsAgree, [DiskNext]_diskVars PROVE CountsAgree'
<1>1. ASSUME NEW s \in Slots, Use(s) PROVE CountsAgree'
  BY <1>1 DEF Use, remembered, CountsAgree
<1>2. ASSUME NEW s \in Slots, StopsItself(s) PROVE CountsAgree'
  BY <1>2 DEF StopsItself, remembered, CountsAgree
<1>3. ASSUME NEW s \in Slots, Plug(s) PROVE CountsAgree'
  BY <1>3 DEF Plug, remembered, CountsAgree
<1>4. ASSUME NEW s \in Slots, Unplug(s) PROVE CountsAgree'
  BY <1>4 DEF Unplug, remembered, CountsAgree
<1>5. CASE HddPowercheck
  <2>1. \A s \in Slots \ Answering: Dstat(s) = io[s]
    BY DEF CountsAgree, Dstat
  <2>2. \A s \in Slots: Dstat(s) \in Int
    BY DEF CountsAgree, Dstat
  <2>3. rdwr' \in [Slots -> Int]
    BY <1>5, <2>2 DEF HddPowercheck, CountsAgree
  <2>4. \A s \in Slots \ Answering: rdwr'[s] <= io[s]
    BY <1>5, <2>1 DEF HddPowercheck, CountsAgree
  <2>5. QED
    BY <1>5, <2>3, <2>4 DEF HddPowercheck, CountsAgree
<1>6. CASE HotScript \/ ReadEvents \/ ReadBay \/ WakeUp \/ StepClock \/ UNCHANGED diskVars
  BY <1>6 DEF HotScript, AddDrops, AddLists, RemoveDrops, ReadEvents, ReadBay, WakeUp,
              StepClock, diskVars, disks, remembered, CountsAgree
<1>7. QED
  BY <1>1, <1>2, <1>3, <1>4, <1>5, <1>6 DEF DiskNext, Loop

\* No disk is stopped while it is in use, whatever its spindown time and however
\* the clock is set, if every disk that comes and goes answers CHECK POWER MODE.
THEOREM BusyDisksSpin ==
  ASSUME Pluggable \subseteq Answering PROVE DiskSpec => NoBusySpindown
<1>1. DiskInit => CountsAgree
  BY DEF DiskInit, CountsAgree
<1>2. CountsAgree /\ [DiskNext]_diskVars => CountsAgree'
  BY CountsKept
<1>3. CountsAgree /\ [DiskNext]_diskVars
        => (used \cap spinning \cap there' \subseteq spinning') \/ UNCHANGED diskVars
  <2> SUFFICES ASSUME CountsAgree, DiskNext
               PROVE used \cap spinning \cap there' \subseteq spinning'
    OBVIOUS
  <2>1. CASE HddPowercheck
    <3>1. there' = there /\ spinning' = {s \in spinning: ~Stopped(s)}
      BY <2>1 DEF HddPowercheck
    <3>2. QED
      BY <3>1, UsedIsActive
  <2>2. ASSUME NEW s \in Slots, Use(s) \/ StopsItself(s) \/ Plug(s) \/ Unplug(s)
        PROVE used \cap spinning \cap there' \subseteq spinning'
    BY <2>2 DEF Use, StopsItself, Plug, Unplug
  <2>3. CASE HotScript \/ ReadEvents \/ ReadBay \/ WakeUp \/ StepClock
    BY <2>3 DEF HotScript, AddDrops, AddLists, RemoveDrops, ReadEvents, ReadBay, WakeUp,
                StepClock, disks
  <2>4. QED
    BY <2>1, <2>2, <2>3 DEF DiskNext, Loop
<1>4. QED
  BY <1>1, <1>2, <1>3, PTL DEF DiskSpec, NoBusySpindown
=============================================================================
