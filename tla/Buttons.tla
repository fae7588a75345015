------------------------------- MODULE Buttons -------------------------------
(***************************************************************************)
(* sysctrl's main loop as the user of the box's buttons sees it: debounce, *)
(* the front button's state machine, back_button with its wall-clock       *)
(* timing, the user scripts and the signals, blocked in the whole loop     *)
(* body but for the sleep at its end.  The two back buttons (reset and     *)
(* USB), which the loop treats alike, are one.                             *)
(*                                                                         *)
(* Seconds: a round of the loop is one second; back_button is followed in  *)
(* steps of BackStep seconds.                                              *)
(***************************************************************************)
EXTENDS Integers

CONSTANTS
  McuBoard,       \* TRUE: a 320L, 320-Bx or 327L, whose power button is a GPIO
  HasCommands,    \* TRUE: the three button commands are configured
  Recovery,       \* args.recovery
  MayHang,        \* TRUE: a user script may never end
  MayVanish,      \* TRUE: a user script may be gone when it is to be executed
  BackStep,       \* the seconds of a step of back_button
  ClockSteps,     \* the steps, in seconds, the wall clock can be given
  MaxPresses,     \* bound on button presses
  MaxClockSteps   \* bound on steps of the wall clock

ASSUME FlagsAssumption ==
  {McuBoard, HasCommands, Recovery, MayHang, MayVanish} \subseteq BOOLEAN
ASSUME BoundsAssumption ==
  /\ BackStep \in Nat \ {0} /\ ClockSteps \subseteq Int
  /\ MaxPresses \in Nat /\ MaxClockSteps \in Nat

HALT == 3
REBOOT == 6
ABORT == 9

MaxCount == ABORT + 1   \* bound on count: no comparison tells higher ones apart
MaxHeld == 30           \* bound on back_button's seconds: more are not told apart

Buttons == {"FRONT", "BACK"}

VARIABLES
  pc,             \* where the loop is
  bt,             \* debounce's static last button
  count, state,   \* mainloop's locals
  leds,           \* what the disk leds show
  held,           \* the buttons physically held (BACK and FRONT, and the GPIO one)
  event,          \* the last input event not yet read
  overlap,        \* the last press was made while another button was held
  backHeld,       \* the seconds spent in back_button
  skew,           \* the seconds the wall clock was stepped since back_button began
  script,         \* the script being waited for
  hung,           \* that script never ends
  alarm,          \* "off", "armed", or "pending": SIGALRM raised while blocked
  term,           \* SIGTERM sent and not delivered
  effect,         \* what the last use of the back button did
  done,           \* "reboot", "poweroff" or "quit" once the loop is left
  presses, clockSteps

loopVars   == <<pc, bt, count, state, leds>>
userVars   == <<held, event, overlap, presses>>
backVars   == <<backHeld, skew, clockSteps>>
scriptVars == <<script, hung, alarm>>
vars == <<loopVars, userVars, backVars, scriptVars, term, effect, done>>

None == "none"
Nothing == <<None, None>>   \* no event, no script
MinOf(a, b) == IF a <= b THEN a ELSE b

------------------------------------------------------------------------------
(* The user, the clock and the signals                                      *)

MayPress == presses < MaxPresses /\ pc # "gone"

Press(b) ==
  /\ MayPress /\ b \notin held
  /\ held' = held \cup {b}
  /\ event' = <<b, "pressed">> /\ overlap' = (held # {})
  /\ presses' = presses + 1
  /\ UNCHANGED <<loopVars, backVars, scriptVars, term, effect, done>>

Release(b) ==
  /\ b \in held
  /\ held' = held \ {b}
  /\ event' = <<b, "released">>
  /\ UNCHANGED <<loopVars, overlap, presses, backVars, scriptVars, term, effect, done>>

\* The power button of an MCU board is no input event: its GPIO reads 0.
PressGpio ==
  /\ McuBoard /\ MayPress /\ "GPIO" \notin held
  /\ held' = held \cup {"GPIO"} /\ overlap' = (held # {})
  /\ presses' = presses + 1
  /\ UNCHANGED <<loopVars, event, backVars, scriptVars, term, effect, done>>

ReleaseGpio ==
  /\ "GPIO" \in held
  /\ held' = held \ {"GPIO"}
  /\ UNCHANGED <<loopVars, event, overlap, presses, backVars, scriptVars, term, effect, done>>

\* ntpd, adjtime or a user steps the clock while the back button is pressed.
StepClock ==
  /\ pc = "back" /\ clockSteps < MaxClockSteps
  /\ clockSteps' = clockSteps + 1
  /\ \E s \in ClockSteps: skew' = skew + s
  /\ UNCHANGED <<loopVars, userVars, backHeld, scriptVars, term, effect, done>>

SendTerm ==
  /\ ~term /\ pc # "gone"
  /\ term' = TRUE
  /\ UNCHANGED <<loopVars, userVars, backVars, scriptVars, effect, done>>

------------------------------------------------------------------------------
(* debounce and button                                                      *)

\* Mutant of Debounced: only presses are remembered, a release is no event.
DebouncedPresses ==
  IF event = Nothing \/ event[2] = "released" THEN bt ELSE event[1]

\* Every event of the queue is consumed; the last one tells.
Debounced ==
  IF event = Nothing THEN bt ELSE IF event[2] = "pressed" THEN event[1] ELSE None

GpioPressed == McuBoard /\ "GPIO" \in held

------------------------------------------------------------------------------
(* exec_userscript                                                          *)

\* Runs s, after which the loop goes to next; nothing is run for no command.
\* When exec fails the child does not exit: it goes on as the caller, at next,
\* while its parent waits for it, so that there still is one loop.
Exec(s, next) ==
  IF s = None
    THEN pc' = next /\ UNCHANGED scriptVars
    ELSE \/ /\ pc' = "script" /\ script' = <<s, next>>
            /\ alarm' = "armed"
            /\ hung' \in {FALSE} \cup (IF MayHang THEN {TRUE} ELSE {})
         \/ /\ MayVanish
            /\ pc' = next
            /\ UNCHANGED scriptVars

\* The child ends and waitpid returns; alarm(0) cancels an alarm not yet raised.
ScriptEnds ==
  /\ pc = "script" /\ ~hung
  /\ pc' = script[2]
  /\ script' = Nothing
  /\ alarm' = IF alarm = "armed" THEN "off" ELSE alarm
  /\ UNCHANGED <<bt, count, state, leds, userVars, backVars, hung, term,
                 effect, done>>

\* The timeout: SIGALRM is among the signals blocked, so it stays pending.
AlarmRings ==
  /\ pc = "script" /\ alarm = "armed"
  /\ alarm' = "pending"
  /\ UNCHANGED <<loopVars, userVars, backVars, script, hung, term, effect,
                 done>>

------------------------------------------------------------------------------
(* mainloop                                                                 *)

FrontCommand == IF HasCommands THEN "front" ELSE None

\* poweroff() called by debounce itself, wherever it is called from.
GpioPoweroff ==
  /\ pc \in {"tick", "back"} /\ GpioPressed
  /\ Exec(FrontCommand, "poweroff")
  /\ UNCHANGED <<bt, count, state, leds, userVars, backVars, term, effect, done>>

\* The front button's switch, for the button now read and the count now due.
Idle(b, n) ==
  /\ state = "IDLE"
  /\ count' = IF b = None THEN 0 ELSE n
  /\ IF b # None /\ n = HALT
       THEN state' = "HALT" /\ leds' = "right"
       ELSE UNCHANGED state /\ leds' = IF b # None THEN "off" ELSE leds
  /\ pc' = "sleep" /\ UNCHANGED <<scriptVars>>

\* Mutant of Halt: the box goes down when the time is over, not on the release.
HaltAtOnce(b, n) ==
  /\ state = "HALT"
  /\ IF b = None \/ n = REBOOT
       THEN /\ state' = "IDLE" /\ count' = 0 /\ leds' = "off"
            /\ Exec(FrontCommand, "poweroff")
       ELSE /\ count' = n /\ pc' = "sleep" /\ UNCHANGED <<state, leds, scriptVars>>

\* Mutant of Halt: the left led does not follow the state.
HaltRightLed(b, n) ==
  /\ state = "HALT"
  /\ IF b = None
       THEN /\ state' = "IDLE" /\ count' = 0 /\ leds' = "off"
            /\ Exec(FrontCommand, "poweroff")
       ELSE /\ count' = n /\ UNCHANGED leds
            /\ state' = IF n = REBOOT THEN "REBOOT" ELSE state
            /\ pc' = "sleep" /\ UNCHANGED scriptVars

Halt(b, n) ==
  /\ state = "HALT"
  /\ IF b = None
       THEN /\ state' = "IDLE" /\ count' = 0 /\ leds' = "off"
            /\ Exec(FrontCommand, "poweroff")
       ELSE /\ count' = n
            /\ IF n = REBOOT THEN state' = "REBOOT" /\ leds' = "left"
                             ELSE UNCHANGED <<state, leds>>
            /\ pc' = "sleep" /\ UNCHANGED scriptVars

Reboot(b, n) ==
  /\ state = "REBOOT"
  /\ IF b = None
       THEN /\ state' = "IDLE" /\ count' = 0 /\ leds' = "off"
            /\ Exec(FrontCommand, "reboot")
       ELSE /\ IF n = ABORT
                 THEN state' = "IDLE" /\ count' = 0 /\ leds' = "off"
                 ELSE count' = n /\ UNCHANGED <<state, leds>>
            /\ pc' = "sleep" /\ UNCHANGED scriptVars

\* One round of the loop with the front button, or none.
Tick ==
  /\ pc = "tick" /\ ~GpioPressed /\ Debounced # "BACK"
  /\ bt' = Debounced /\ event' = Nothing
  /\ LET n == MinOf(count + 1, MaxCount)
     IN  Idle(bt', n) \/ Halt(bt', n) \/ Reboot(bt', n)
  /\ UNCHANGED <<held, overlap, presses, backVars, term, effect, done>>

\* One round with a back button: the leds blink, back_button begins.
EnterBack ==
  /\ pc = "tick" /\ ~GpioPressed /\ Debounced = "BACK"
  /\ bt' = "BACK" /\ event' = Nothing
  /\ count' = MinOf(count + 1, MaxCount)
  /\ leds' = "blink"
  /\ backHeld' = 0 /\ skew' = 0
  /\ pc' = "back"
  /\ UNCHANGED <<state, held, overlap, presses, clockSteps, scriptVars, term, effect, done>>

\* Mutant of Sleep: the signals are not unblocked before the sleep.
SleepMasked ==
  /\ pc = "sleep"
  /\ pc' = "tick"
  /\ UNCHANGED <<bt, count, state, leds, userVars, backVars, scriptVars, term, effect,
                 done>>

\* SIGTERM, and a pending SIGALRM, are delivered when the signals are unblocked.
Sleep ==
  /\ pc = "sleep"
  /\ alarm' = "off"
  /\ IF term THEN pc' = "gone" /\ done' = "quit" ELSE pc' = "tick" /\ UNCHANGED done
  /\ UNCHANGED <<bt, count, state, leds, userVars, backVars, script, hung,
                 term, effect>>

------------------------------------------------------------------------------
(* back_button, reboot and poweroff                                         *)

BackPoll ==
  /\ pc = "back" /\ ~GpioPressed /\ Debounced = "BACK"
  /\ bt' = "BACK" /\ event' = Nothing
  /\ backHeld' = MinOf(backHeld + BackStep, MaxHeld)
  /\ UNCHANGED <<pc, count, state, leds, held, overlap, presses, skew, clockSteps, scriptVars,
                 term, effect, done>>

\* count = time(NULL) - count.
Elapsed == backHeld + skew

BackEffect ==
  IF Recovery /\ Elapsed > 20 THEN "flash"
  ELSE IF Recovery /\ Elapsed > 10 THEN "telnet"
  ELSE IF HasCommands THEN "user" ELSE "eject"

\* Another button, or none, is the last one: the action, then leds_off and
\* continue, with neither sleep nor delivery of signals.
BackAction ==
  /\ pc = "back" /\ ~GpioPressed /\ Debounced # "BACK"
  /\ bt' = Debounced /\ event' = Nothing
  /\ effect' = BackEffect
  /\ Exec(BackEffect, "backdone")
  /\ UNCHANGED <<count, state, leds, held, overlap, presses, backVars, term, done>>

BackDone ==
  /\ pc = "backdone"
  /\ leds' = "off"
  /\ pc' = "tick"
  /\ UNCHANGED <<bt, count, state, userVars, backVars, scriptVars, term, effect, done>>

\* execl of reboot or poweroff replaces the daemon.
GoDown ==
  /\ pc \in {"reboot", "poweroff"}
  /\ done' = pc
  /\ pc' = "gone"
  /\ UNCHANGED <<bt, count, state, leds, userVars, backVars, scriptVars, term, effect>>

Init ==
  /\ pc = "tick" /\ bt = None /\ count = 0 /\ state = "IDLE" /\ leds = "off"
  /\ held = {} /\ event = Nothing /\ overlap = FALSE /\ presses = 0
  /\ backHeld = 0 /\ skew = 0 /\ clockSteps = 0
  /\ script = Nothing /\ hung = FALSE /\ alarm = "off"
  /\ term = FALSE /\ effect = None /\ done = None

Loop == Tick \/ EnterBack \/ Sleep \/ BackPoll \/ BackAction \/ BackDone
        \/ GpioPoweroff \/ GoDown

Next == \/ Loop \/ ScriptEnds \/ AlarmRings
        \/ \E b \in Buttons: Press(b) \/ Release(b)
        \/ PressGpio \/ ReleaseGpio \/ StepClock \/ SendTerm

Spec == Init /\ [][Next]_vars

\* The loop runs, a script that does not hang ends, and alarms ring.
FairSpec == Spec /\ WF_vars(Loop) /\ WF_vars(ScriptEnds) /\ WF_vars(AlarmRings)

------------------------------------------------------------------------------
\* The loop decides to go down because of the front button, and how.
Towards(end) == pc' = end \/ (pc' = "script" /\ script'[2] = end)
GoesDown == pc = "tick" /\ ~GpioPressed /\ (Towards("poweroff") \/ Towards("reboot"))

\* "Releasing the power button": a front button that is still held takes the
\* box down in no interleaving with events (README.INSTALL, README.USE), unless
\* another was pressed with it, which hides it from debounce.
DownOnRelease == [][GoesDown => overlap \/ "FRONT" \notin held]_vars

\* What the flashing led announces is what a release does: the right one a
\* power off, the left one a reboot.
LedAnnounces ==
  [][GoesDown => /\ leds = "right" => Towards("poweroff")
                 /\ leds = "left" => Towards("reboot")]_vars

\* The flash is cleared only by a back button really held for 20 seconds.
FlashNeedsLongPress ==
  [][(pc = "back" /\ pc' = "script" /\ script'[1] = "flash") => backHeld > 20]_vars

\* A script that hangs stops the loop for good, as its timeout is blocked.
Stuck == pc = "script" /\ hung

\* With the buttons left alone, SIGTERM is delivered: neither the signals'
\* blocking nor back_button's continue, which skips the unblocking, starves it.
TermDelivered == <>[](held = {}) => (term ~> pc = "gone" \/ Stuck)

\* Whatever was pressed, once the buttons are left alone the machine is idle
\* again or the box is going down: a release is never lost.
SettlesIdle == <>[](held = {}) => <>[](state = "IDLE" \/ pc = "gone" \/ Stuck)
==============================================================================
