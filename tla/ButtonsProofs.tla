---------------------------- MODULE ButtonsProofs ----------------------------
(***************************************************************************)
(* What Buttons' runs check for a few presses, proved for any number.      *)
(***************************************************************************)
EXTENDS Buttons, TLAPS

\* A script, if one is run, is on the way to where its caller goes.
LEMMA ExecGoesTo == ASSUME NEW s, NEW next, Exec(s, next) PROVE Towards(next)
<1>1. CASE s = None
  BY <1>1 DEF Exec, Towards
<1>2. CASE s # None /\ pc' = "script" /\ script' = <<s, next>>
  BY <1>2 DEF Towards
<1>3. CASE pc' = next
  BY <1>3 DEF Towards
<1>4. QED
  BY <1>1, <1>2, <1>3 DEF Exec

UserActions == PressGpio \/ ReleaseGpio \/ StepClock \/ SendTerm

\* The front button takes the box down in one way only: a round of the loop that
\* finds it released, in the state that says how.
LEMMA DownByRelease ==
  ASSUME Next, GoesDown
  PROVE  /\ Debounced = None
         /\ \/ state = "HALT" /\ Towards("poweroff")
            \/ state = "REBOOT" /\ Towards("reboot")
<1>1. CASE Tick
  <2>1. ASSUME NEW n, Idle(bt', n) PROVE FALSE
    BY <2>1 DEF Idle, GoesDown, Towards
  <2>2. ASSUME NEW n, Halt(bt', n)
        PROVE bt' = None /\ state = "HALT" /\ Towards("poweroff")
    <3>1. bt' # None => pc' = "sleep"
      BY <2>2 DEF Halt
    <3>2. bt' = None
      BY <3>1 DEF GoesDown, Towards
    <3>3. QED
      BY <2>2, <3>2, ExecGoesTo DEF Halt
  <2>3. ASSUME NEW n, Reboot(bt', n)
        PROVE bt' = None /\ state = "REBOOT" /\ Towards("reboot")
    <3>1. bt' # None => pc' = "sleep"
      BY <2>3 DEF Reboot
    <3>2. bt' = None
      BY <3>1 DEF GoesDown, Towards
    <3>3. QED
      BY <2>3, <3>2, ExecGoesTo DEF Reboot
  <2>4. QED
    BY <1>1, <2>1, <2>2, <2>3 DEF Tick
<1>2. CASE EnterBack \/ BackDone \/ Sleep \/ BackPoll \/ BackAction \/ GpioPoweroff
           \/ GoDown \/ ScriptEnds \/ AlarmRings
  BY <1>2 DEF EnterBack, BackDone, Sleep, BackPoll, BackAction, GpioPoweroff, GoDown,
              ScriptEnds, AlarmRings, GoesDown, Towards
<1>3. CASE UserActions \/ \E b \in Buttons: Press(b) \/ Release(b)
  BY <1>3 DEF UserActions, Press, Release, PressGpio, ReleaseGpio, StepClock, SendTerm,
              loopVars, GoesDown, Towards
<1>4. QED
  BY <1>1, <1>2, <1>3 DEF Next, Loop, UserActions

------------------------------------------------------------------------------
(* The leds                                                                 *)

\* The leds that announce follow the state; any other use of them ends dark.
LedsFollowState ==
  /\ leds = "right" => state = "HALT"
  /\ leds = "left" => state = "REBOOT"

\* What the flashing led announced is what the release does, whatever happened
\* since: back buttons, scripts, other events.
THEOREM LedsTellTheEnd == Spec => LedAnnounces
<1>1. Init => LedsFollowState
  BY DEF Init, LedsFollowState
<1>2. LedsFollowState /\ [Next]_vars => LedsFollowState'
  <2> SUFFICES ASSUME LedsFollowState, [Next]_vars PROVE LedsFollowState'
    OBVIOUS
  <2>1. CASE Tick
    <3>1. ASSUME NEW n, Idle(bt', n) PROVE LedsFollowState'
      BY <3>1 DEF Idle, LedsFollowState
    <3>2. ASSUME NEW n, Halt(bt', n) PROVE LedsFollowState'
      BY <3>2 DEF Halt, LedsFollowState
    <3>3. ASSUME NEW n, Reboot(bt', n) PROVE LedsFollowState'
      BY <3>3 DEF Reboot, LedsFollowState
    <3>4. QED
      BY <2>1, <3>1, <3>2, <3>3 DEF Tick
  <2>2. CASE EnterBack
    BY <2>2 DEF EnterBack, LedsFollowState
  <2>3. CASE BackDone
    BY <2>3 DEF BackDone, LedsFollowState
  <2>4. CASE Sleep \/ BackPoll \/ BackAction \/ GpioPoweroff \/ GoDown \/ ScriptEnds
    BY <2>4 DEF Sleep, BackPoll, BackAction, GpioPoweroff, GoDown, ScriptEnds,
                LedsFollowState
  <2>5. CASE \/ AlarmRings \/ UserActions \/ UNCHANGED vars
             \/ \E b \in Buttons: Press(b) \/ Release(b)
    BY <2>5 DEF AlarmRings, UserActions, Press, Release, PressGpio, ReleaseGpio,
                StepClock, SendTerm, vars, loopVars, LedsFollowState
  <2>6. QED
    BY <2>1, <2>2, <2>3, <2>4, <2>5 DEF Next, Loop, UserActions
<1>3. LedsFollowState /\ [Next]_vars
        => (GoesDown => /\ leds = "right" => Towards("poweroff")
                        /\ leds = "left" => Towards("reboot")) \/ UNCHANGED vars
  BY DownByRelease DEF LedsFollowState
<1>4. QED
  BY <1>1, <1>2, <1>3, PTL DEF Spec, LedAnnounces

------------------------------------------------------------------------------
(* The front button                                                         *)

\* Debounce's one last event tells of the front button as long as it is held,
\* if none was pressed together with another.
FrontIsKnown ==
  ~overlap => /\ \A b, c \in held: b = c
              /\ "FRONT" \in held => Debounced = "FRONT"

\* A front button that is held takes the box down in no interleaving of presses,
\* releases, rounds and scripts, unless another was pressed with it.
THEOREM HeldStaysUp == Spec => DownOnRelease
<1>1. Init => FrontIsKnown
  BY DEF Init, FrontIsKnown
<1>2. FrontIsKnown /\ [Next]_vars => FrontIsKnown'
  <2> SUFFICES ASSUME FrontIsKnown, [Next]_vars PROVE FrontIsKnown'
    OBVIOUS
  <2>1. CASE Tick \/ EnterBack \/ BackPoll \/ BackAction
    BY <2>1 DEF Tick, EnterBack, BackPoll, BackAction, FrontIsKnown, Debounced
  <2>2. ASSUME NEW b \in Buttons, Press(b) PROVE FrontIsKnown'
    BY <2>2 DEF Press, MayPress, FrontIsKnown, Debounced, Nothing, None
  <2>3. ASSUME NEW b \in Buttons, Release(b) PROVE FrontIsKnown'
    BY <2>3 DEF Release, FrontIsKnown
  <2>4. CASE PressGpio \/ ReleaseGpio
    <3>1. CASE ReleaseGpio
      BY <3>1 DEF ReleaseGpio, loopVars, FrontIsKnown, Debounced
    <3>2. CASE PressGpio
      <4>1. ~overlap' => held' = {"GPIO"}
        BY <3>2 DEF PressGpio
      <4>2. QED
        BY <4>1 DEF FrontIsKnown
    <3>3. QED
      BY <2>4, <3>1, <3>2
  <2>5. CASE \/ BackDone \/ Sleep \/ GpioPoweroff \/ GoDown \/ ScriptEnds \/ AlarmRings
             \/ StepClock \/ SendTerm \/ UNCHANGED vars
    BY <2>5 DEF BackDone, Sleep, GpioPoweroff, GoDown, ScriptEnds, AlarmRings, StepClock,
                SendTerm, vars, loopVars, userVars, FrontIsKnown, Debounced
  <2>6. QED
    BY <2>1, <2>2, <2>3, <2>4, <2>5 DEF Next, Loop
<1>3. FrontIsKnown /\ [Next]_vars => (GoesDown => overlap \/ "FRONT" \notin held) \/ UNCHANGED vars
  BY DownByRelease DEF FrontIsKnown, None
<1>4. QED
  BY <1>1, <1>2, <1>3, PTL DEF Spec, DownOnRelease

------------------------------------------------------------------------------
(* The back button                                                          *)

\* The clock never runs ahead of the time the back button has been held.
ClockIsLate == backHeld \in Int /\ skew \in Int /\ skew <= 0

\* With a clock that is set back but never forward, the flash is not cleared by
\* a back button held for 20 seconds or less.
THEOREM FlashIsSafe ==
  ASSUME \A s \in ClockSteps: s <= 0 PROVE Spec => FlashNeedsLongPress
<1>1. Init => ClockIsLate
  BY DEF Init, ClockIsLate
<1>2. ClockIsLate /\ [Next]_vars => ClockIsLate'
  <2> SUFFICES ASSUME ClockIsLate, [Next]_vars PROVE ClockIsLate'
    OBVIOUS
  <2>1. CASE StepClock
    BY <2>1, BoundsAssumption DEF StepClock, ClockIsLate
  <2>2. CASE BackPoll
    BY <2>2, BoundsAssumption DEF BackPoll, MinOf, MaxHeld, ClockIsLate
  <2>3. CASE EnterBack
    BY <2>3 DEF EnterBack, ClockIsLate
  <2>4. CASE \/ Tick \/ BackAction \/ BackDone \/ Sleep \/ GpioPoweroff \/ GoDown
             \/ ScriptEnds \/ AlarmRings \/ PressGpio \/ ReleaseGpio \/ SendTerm
             \/ UNCHANGED vars \/ \E b \in Buttons: Press(b) \/ Release(b)
    BY <2>4 DEF Tick, BackAction, BackDone, Sleep, GpioPoweroff, GoDown, ScriptEnds,
                AlarmRings, PressGpio, ReleaseGpio, SendTerm, Press, Release, vars,
                backVars, ClockIsLate
  <2>5. QED
    BY <2>1, <2>2, <2>3, <2>4 DEF Next, Loop
<1>3. ASSUME ClockIsLate, Next, pc = "back", pc' = "script", script'[1] = "flash"
      PROVE backHeld > 20
  <2>1. ASSUME NEW s, NEW next, Exec(s, next), next # "script" PROVE s = "flash"
    <3>1. script' = <<s, next>>
      BY <1>3, <2>1 DEF Exec
    <3>2. QED
      BY <1>3, <3>1
  <2>2. CASE BackAction
    <3>1. BackEffect = "flash"
      BY <2>1, <2>2 DEF BackAction
    <3>2. Elapsed > 20
      BY <3>1 DEF BackEffect
    <3>3. QED
      BY <1>3, <3>2 DEF Elapsed, ClockIsLate
  <2>3. CASE GpioPoweroff
    BY <2>1, <2>3 DEF GpioPoweroff, FrontCommand, None
  <2>4. CASE \/ Tick \/ EnterBack \/ Sleep \/ BackPoll \/ BackDone \/ GoDown
             \/ ScriptEnds \/ AlarmRings
    BY <1>3, <2>4 DEF Tick, EnterBack, Sleep, BackPoll, BackDone, GoDown, ScriptEnds,
                      AlarmRings
  <2>5. CASE UserActions \/ \E b \in Buttons: Press(b) \/ Release(b)
    BY <1>3, <2>5 DEF UserActions, Press, Release, PressGpio, ReleaseGpio, StepClock,
                      SendTerm, loopVars
  <2>6. QED
    BY <1>3, <2>2, <2>3, <2>4, <2>5 DEF Next, Loop, UserActions
<1>4. ClockIsLate /\ [Next]_vars
        => ((pc = "back" /\ pc' = "script" /\ script'[1] = "flash") => backHeld > 20)
             \/ UNCHANGED vars
  BY <1>3
<1>5. QED
  BY <1>1, <1>2, <1>4, PTL DEF Spec, FlashNeedsLongPress
==============================================================================
