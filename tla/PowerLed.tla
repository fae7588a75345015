------------------------------ MODULE PowerLed ------------------------------
(***************************************************************************)
(* The power led of the DNS-320L, which only the MCU can switch.  Scripts  *)
(* and sysctrl write what they want into two files; readset_powerled of    *)
(* dns320l-daemon looks at them twice a second, sends a command when they  *)
(* differ from what it remembers, and writes back what it has done.        *)
(***************************************************************************)
EXTENDS Integers

CONSTANTS
  MaxWrites,     \* bound on requests by scripts and by sysctrl
  MaxFailures    \* bound on commands that the MCU refuses and on restarts

VARIABLES
  trigger, brightness,   \* the two files of /tmp/sys/power_led
  curr,                  \* curr_led_trigger, curr_led_brightness
  led,                   \* what the MCU shows
  at,                    \* where the daemon is, in readset_powerled
  cmd,                   \* the command it has sent, with its answer
  setting,               \* sysctrl has read "none" and writes this, or -1
  checks,                \* some fsck runs, and hot_aux wants a heartbeat
  excused, overwrote,    \* what the properties do not speak of: see below
  writes, failures

files == <<trigger, brightness>>
daemon == <<curr, at, cmd>>
bounds == <<writes, failures>>
vars == <<files, daemon, led, setting, checks, excused, overwrote, bounds>>

Blinking == {"heartbeat", "timer"}
Effect(c) == CASE c = "off" -> 0 [] c = "on" -> 1 [] c \in {"blink", "client blink"} -> 2

\* A request written between the daemon's look and its writing back may be lost.
Overwritten == at # "sleep"
Written == writes' = writes + 1 /\ overwrote' = (overwrote \/ Overwritten)

------------------------------------------------------------------------------
\* The trigger: changed, it is remembered at once, and a blink is sent.
ReadTrigger ==
  /\ at = "sleep"
  /\ curr' = IF curr.trigger # trigger THEN [curr EXCEPT !.trigger = trigger] ELSE curr
  /\ LET blinks == curr.trigger # trigger /\ trigger \in Blinking IN
     /\ cmd' = IF blinks THEN "blink" ELSE "none"
     /\ at' = CASE blinks -> "send" [] ~blinks /\ trigger = "none" -> "bright" [] OTHER -> "sleep"
  /\ UNCHANGED <<files, led, setting, checks, excused, overwrote, bounds>>

\* The brightness, with a trigger that was "none".
ReadBrightness ==
  /\ at = "bright"
  /\ LET changed == curr.brightness # brightness IN
     /\ curr' = [curr EXCEPT !.brightness = brightness]
     /\ cmd' = IF changed /\ brightness \in {0, 1} THEN (IF brightness = 0 THEN "off" ELSE "on") ELSE "none"
     /\ at' = IF changed /\ brightness \in {0, 1} THEN "send" ELSE "sleep"
  /\ UNCHANGED <<files, led, setting, checks, excused, overwrote, bounds>>

\* setpowerled_cmd: obeyed, remembered; or, after all retries, an error.
Obeyed ==
  /\ at = "send"
  /\ led' = Effect(cmd)
  /\ curr' = CASE cmd = "off" -> [trigger |-> "none", brightness |-> 0]
               [] cmd = "on" -> [trigger |-> "none", brightness |-> 1]
               [] OTHER -> [curr EXCEPT !.trigger = "timer"]
  /\ at' = "sent"
  /\ excused' = (excused \/ cmd = "client blink")
  /\ UNCHANGED <<files, cmd, setting, checks, overwrote, bounds>>

Refused ==
  /\ at = "send" /\ failures < MaxFailures
  /\ failures' = failures + 1 /\ excused' = TRUE /\ at' = "sleep"
  /\ UNCHANGED <<files, led, curr, cmd, setting, checks, overwrote, writes>>

\* The files are written back, one after the other.
WriteTrigger ==
  /\ at = "sent"
  /\ trigger' = curr.trigger /\ at' = "back"
  /\ UNCHANGED <<brightness, led, curr, cmd, setting, checks, excused, overwrote, bounds>>

\* Mutant of WriteBrightness: the brightness before a blink is still believed.
WriteBrightnessOnly ==
  /\ at = "back"
  /\ brightness' = curr.brightness /\ at' = "sleep"
  /\ UNCHANGED <<trigger, led, curr, cmd, setting, checks, excused, overwrote, bounds>>

\* A blink of readset_powerled, not one of a client, forgets the brightness.
WriteBrightness ==
  /\ at = "back"
  /\ brightness' = curr.brightness /\ at' = "sleep"
  /\ curr' = IF cmd = "blink" THEN [curr EXCEPT !.brightness = -1] ELSE curr
  /\ UNCHANGED <<trigger, led, cmd, setting, checks, excused, overwrote, bounds>>

\* PowerLedOn, Off and Blink of a client, served between two rounds.
ClientCommand(c) ==
  /\ at = "sleep" /\ writes < MaxWrites
  /\ cmd' = c /\ at' = "send" /\ writes' = writes + 1
  /\ UNCHANGED <<files, curr, led, setting, checks, excused, overwrote, failures>>

\* init starts the daemon again, which has forgotten everything.
Restart ==
  /\ failures < MaxFailures
  /\ failures' = failures + 1
  /\ curr' = [trigger |-> "", brightness |-> -1] /\ at' = "sleep" /\ cmd' = "none"
  /\ UNCHANGED <<files, led, setting, checks, excused, overwrote, writes>>

------------------------------------------------------------------------------
\* hot_aux: a heartbeat when a partition's check starts, "none" after the last.
CheckStarts ==
  /\ writes < MaxWrites
  /\ checks' = TRUE /\ trigger' = "heartbeat" /\ Written
  /\ UNCHANGED <<brightness, daemon, led, setting, excused, failures>>

CheckEnds ==
  /\ checks
  /\ checks' = FALSE /\ trigger' = "none"
  /\ overwrote' = (overwrote \/ Overwritten)
  /\ UNCHANGED <<brightness, daemon, led, setting, excused, bounds>>

\* hdd_powercheck of sysctrl: when no script uses the led, on or off, after
\* the disks; the trigger first.  led_get returns the brightness, or -1 when it
\* cannot be read, and a file that holds -1 is taken for that.
LedGet(v) ==
  /\ setting = -1 /\ trigger = "none" /\ brightness # -1 /\ writes < MaxWrites
  /\ setting' = v /\ writes' = writes + 1
  /\ UNCHANGED <<files, daemon, led, checks, excused, overwrote, failures>>

SetTrigger ==
  /\ setting \in {0, 1}
  /\ trigger' = "none" /\ setting' = setting + 2
  /\ overwrote' = (overwrote \/ Overwritten \/ checks)
  /\ UNCHANGED <<brightness, daemon, led, checks, excused, bounds>>

SetBrightness ==
  /\ setting \in {2, 3}
  /\ brightness' = setting - 2 /\ setting' = -1
  /\ overwrote' = (overwrote \/ Overwritten)
  /\ UNCHANGED <<trigger, daemon, led, checks, excused, bounds>>

Init ==   \* rcS: echo none, echo 1
  /\ trigger = "none" /\ brightness = 1
  /\ curr = [trigger |-> "", brightness |-> -1] /\ at = "sleep" /\ cmd = "none"
  /\ led \in 0..2 /\ setting = -1 /\ checks = FALSE
  /\ excused = FALSE /\ overwrote = FALSE /\ writes = 0 /\ failures = 0

Daemon == ReadTrigger \/ ReadBrightness \/ Obeyed \/ Refused \/ WriteTrigger \/ WriteBrightness
Scripts == CheckEnds \/ SetTrigger \/ SetBrightness

Next == \/ Daemon \/ Restart \/ \E c \in {"off", "on", "client blink"}: ClientCommand(c)
        \/ Scripts \/ CheckStarts \/ \E v \in {0, 1}: LedGet(v)

Spec == Init /\ [][Next]_vars

------------------------------------------------------------------------------
\* The led shows what the files say; a brightness of -1 says nothing.
Shows ==
  /\ trigger = "none" /\ brightness # -1 => led = brightness
  /\ trigger \in Blinking => led = 2

\* readset_powerled: once nobody writes, the led and the files agree, in every
\* order of their writes and the daemon's.  Excused: after a command that failed,
\* which is not sent again, and after a client's PowerLedBlink, which leaves the
\* brightness from before the blink to be believed.
LedShowsFiles == <>[](excused \/ Shows)

\* README.INSTALL: the led stops blinking when the disk checks have finished.
\* Excused also: the end was written while the daemon obeyed an earlier request,
\* which it then wrote over it.
NoStaleBlink == <>[](excused \/ overwrote \/ checks \/ led # 2)
=============================================================================
