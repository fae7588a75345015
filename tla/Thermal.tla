------------------------------- MODULE Thermal -------------------------------
(***************************************************************************)
(* Fan and temperature control of a box whose fan hangs from an MCU        *)
(* (DNS-320L, -320-Bx, -327L, -322L).  Two daemons and an MCU:             *)
(*                                                                         *)
(*   sysctrl          every 15 s: reads temp1_input, fan1_input, filters   *)
(*                    the temperature, writes pwm1, raises the alarms      *)
(*   dns320l-daemon   every 15 s: asks the MCU for the temperature, writes *)
(*                    temp1_input, reads pwm1, commands the fan, writes    *)
(*                    fan1_input; between rounds serves client commands    *)
(*                                                                         *)
(* They share the three files of /tmp/sys with no lock: a writer opens the *)
(* file with O_TRUNC and then writes it, so a reader can find it empty.    *)
(*                                                                         *)
(* Temperatures of files and MCU are degrees; the filtered temperature is  *)
(* tenths of a degree.  The fan's level is 0 (stopped), 1 (half), 2 (full).*)
(***************************************************************************)
EXTENDS Integers

CONSTANTS
  SysTemps,      \* the temperatures the MCU can report
  DiskTemps,     \* the temperatures hddtemp can report; 0: no answer
  FanOffTemp,    \* args.fan_off_temp
  LoTemp,        \* args.lo_temp
  HistTemp,      \* args.hist_temp
  WarnTemp,      \* args.warn_temp
  CritTemp,      \* args.crit_temp
  Modes,         \* the fan modes /etc/sysctrl.conf is given
  Adversities,   \* what disturbs the loops, from AllAdversities
  MaxAdversity   \* bound on how often they are disturbed, all kinds together

FanModes == {"AUTO", "OFF", "SLOW", "FAST"}

\* torn: a read of a file its writer has just emptied; fault: an MCU command
\* that fails all its tries; client: a client's command; reload: a change of
\* configuration; quit: SIGTERM to sysctrl; term, kill: dns320l-daemon ended
\* through its exit handler, or without it.
AllAdversities == {"torn", "fault", "client", "reload", "quit", "term", "kill"}

ASSUME TemperaturesAssumption ==
  /\ SysTemps \subseteq Nat /\ SysTemps # {}
  /\ DiskTemps \subseteq Nat /\ DiskTemps # {}
ASSUME ThresholdsAssumption ==
  /\ FanOffTemp \in Nat /\ LoTemp \in Nat /\ HistTemp \in Nat
  /\ WarnTemp \in Nat /\ CritTemp \in Nat
ASSUME ModesAssumption == Modes \subseteq FanModes /\ Modes # {}
ASSUME BoundsAssumption ==
  /\ Adversities \subseteq AllAdversities
  /\ MaxAdversity \in Nat

Empty == -1      \* what a file holds between open(O_TRUNC) and write

VARIABLES
  sPc,           \* sysctrl: where it is
  temp,          \* fanctl's static filtered temperature
  stemp,         \* fanctl's last reading of the board temperature
  pwm,           \* the pwm fanctl, or the quit handler, is about to write
  warn, crit,    \* fanctl's static alarm flags
  fanMode,       \* args.fan_mode
  off,           \* TRUE once the critical temperature command (poweroff) ran
  tempFile, pwmFile, fanFile,   \* /tmp/sys/{temp1_input,pwm1,fan1_input}
  dPc,           \* dns320l-daemon: where it is
  caller,        \* who runs the command: "main" loop or "client"
  reading,       \* the temperature gettemperature_cmd is about to write
  oldPwm,        \* readset_temp's static old_pwm
  fanSpeed,      \* the level of the last fan command the MCU acknowledged
  target,        \* the level of the fan command being sent
  socket,        \* "bound" while the file /var/run/dns320l.socket exists, or "none"
  mcuTemp, diskTemp, mcuFan,    \* the hardware
  hottest,       \* the highest temperature read so far (history)
  adversity      \* how often the loops were disturbed

sysctrlVars == <<sPc, temp, stemp, pwm, warn, crit, fanMode, off>>
daemonVars  == <<dPc, caller, reading, oldPwm, fanSpeed, target, socket>>
files       == <<tempFile, pwmFile, fanFile>>
hardware    == <<mcuTemp, diskTemp, mcuFan>>
vars        == <<sysctrlVars, daemonVars, files, hardware, hottest, adversity>>

MaxOf(a, b) == IF a >= b THEN a ELSE b

Levels == 0..2
PwmOf(level) == CASE level = 0 -> 0 [] level = 1 -> 127 [] level = 2 -> 255
RpmOf(level) == 3000 * level

Suffer(kind) ==
  /\ kind \in Adversities /\ adversity < MaxAdversity
  /\ adversity' = adversity + 1

------------------------------------------------------------------------------
(* sysctrl: fanctl() of a board with fan levels                             *)

\* read_int_from_file leaves the caller's 0 when the file is empty.
Read(file) == IF file = Empty THEN 0 ELSE file

\* The bound on torn reads: those that find a file between its writer's open
\* and write.  (A file left empty by a writer that died is read freely.)
MayTear(writing) == IF writing THEN Suffer("torn") ELSE UNCHANGED adversity

\* Mutant of Filter: the weights do not add up to one.
FilterGrowing(t, degrees) == 9 * degrees + t

\* temp = 0.9 * max + 0.1 * temp, in tenths, rounded up: as in the code's
\* floats, only zeros give zero.
Filter(t, degrees) == (90 * degrees + t + 9) \div 10

Above(t, degrees) == t > 10 * degrees
Below(t, degrees) == t < 10 * degrees

\* Mutant of AutoPwm: a comparison swapped at full speed.
AutoPwmSwapped(t, rpm) ==
  CASE rpm = RpmOf(0) -> IF Above(t, FanOffTemp + HistTemp) THEN PwmOf(1) ELSE PwmOf(0)
    [] rpm = RpmOf(1) -> IF Below(t, FanOffTemp - HistTemp) THEN PwmOf(0)
                         ELSE IF Above(t, LoTemp + HistTemp) THEN PwmOf(2) ELSE PwmOf(1)
    [] rpm = RpmOf(2) -> IF Above(t, LoTemp - HistTemp) THEN PwmOf(1) ELSE PwmOf(2)
    [] OTHER          -> PwmOf(1)

\* The FAN_AUTO switch on the measured fan speed, its failsafe included.
AutoPwm(t, rpm) ==
  CASE rpm = RpmOf(0) -> IF Above(t, FanOffTemp + HistTemp) THEN PwmOf(1) ELSE PwmOf(0)
    [] rpm = RpmOf(1) -> IF Below(t, FanOffTemp - HistTemp) THEN PwmOf(0)
                         ELSE IF Above(t, LoTemp + HistTemp) THEN PwmOf(2) ELSE PwmOf(1)
    [] rpm = RpmOf(2) -> IF Below(t, LoTemp - HistTemp) THEN PwmOf(1) ELSE PwmOf(2)
    [] OTHER          -> PwmOf(1)

PwmFor(mode, t, rpm) ==
  CASE mode = "OFF"  -> PwmOf(0)
    [] mode = "SLOW" -> PwmOf(1)
    [] mode = "FAST" -> PwmOf(2)
    [] mode = "AUTO" -> AutoPwm(t, rpm)

\* if (temp == 0.) temp = read_temp(): fanctl's extra first reading.
PrimeTemp ==
  /\ sPc = "sleep"
  /\ MayTear(temp = 0 /\ dPc = "tempwrite")
  /\ temp' = IF temp = 0 THEN 10 * Read(tempFile) ELSE temp
  /\ sPc' = "readtemp"
  /\ UNCHANGED <<stemp, pwm, warn, crit, fanMode, off, daemonVars, files, hardware,
                 hottest>>

ReadTemp ==
  /\ sPc = "readtemp"
  /\ MayTear(dPc = "tempwrite")
  /\ stemp' = Read(tempFile)
  /\ sPc' = "control"
  /\ UNCHANGED <<temp, pwm, warn, crit, fanMode, off, daemonVars, files, hardware,
                 hottest>>

\* hddtemp answers, or not (0); the reading is filtered, the fan's speed read.
Control ==
  /\ sPc = "control"
  /\ MayTear(dPc = "fanwrite")
  /\ \E dtemp \in {diskTemp, 0}:
       /\ hottest' = MaxOf(hottest, dtemp)
       /\ temp' = Filter(temp, MaxOf(stemp, dtemp))
  /\ pwm' = PwmFor(fanMode, temp', Read(fanFile))
  /\ sPc' = "truncate"
  /\ UNCHANGED <<stemp, warn, crit, fanMode, off, daemonVars, files, hardware>>

\* write_pwm: open(O_TRUNC), then write.  The quit handler writes too.
TruncatePwm ==
  /\ sPc \in {"truncate", "quit"}
  /\ pwmFile' = Empty
  /\ sPc' = IF sPc = "quit" THEN "quitwrite" ELSE "write"
  /\ UNCHANGED <<temp, stemp, pwm, warn, crit, fanMode, off, daemonVars, tempFile,
                 fanFile, hardware, hottest, adversity>>

WritePwm ==
  /\ sPc \in {"write", "quitwrite"}
  /\ pwmFile' = pwm
  /\ sPc' = IF sPc = "quitwrite" THEN "stopped" ELSE "alarms"
  /\ UNCHANGED <<temp, stemp, pwm, warn, crit, fanMode, off, daemonVars, tempFile,
                 fanFile, hardware, hottest, adversity>>

\* Mutant of Alarms: the critical alarm is raised only after a warning.
AlarmsInSequence ==
  /\ sPc = "alarms"
  /\ warn' = IF Below(temp, WarnTemp) THEN 0
             ELSE IF Above(temp, WarnTemp) /\ Below(temp, CritTemp) THEN 1 ELSE warn
  /\ crit' = IF Below(temp, CritTemp) THEN 0
             ELSE IF Above(temp, CritTemp) /\ warn = 1 THEN 1 ELSE crit
  /\ off' = (off \/ (Above(temp, CritTemp) /\ warn = 1 /\ crit = 0))
  /\ sPc' = "sleep"
  /\ stemp' = 0 /\ pwm' = 0
  /\ UNCHANGED <<temp, fanMode, daemonVars, files, hardware, hottest, adversity>>

\* The warning and the critical temperature, each with its flag; fanctl
\* returns, and its locals are gone.
Alarms ==
  /\ sPc = "alarms"
  /\ warn' = IF Below(temp, WarnTemp) THEN 0
             ELSE IF Above(temp, WarnTemp) /\ Below(temp, CritTemp) THEN 1 ELSE warn
  /\ crit' = IF Below(temp, CritTemp) THEN 0
             ELSE IF Above(temp, CritTemp) THEN 1 ELSE crit
  /\ off' = (off \/ (Above(temp, CritTemp) /\ crit = 0))
  /\ sPc' = "sleep"
  /\ stemp' = 0 /\ pwm' = 0
  /\ UNCHANGED <<temp, fanMode, daemonVars, files, hardware, hottest, adversity>>

\* SIGHUP or an inotify event, delivered only between rounds.
ReadConfig ==
  /\ sPc = "sleep"
  /\ Suffer("reload")
  /\ fanMode' \in Modes
  /\ UNCHANGED <<sPc, temp, stemp, pwm, warn, crit, off, daemonVars, files, hardware,
                 hottest>>

\* SIGTERM: quit_handler leaves the fan at medium speed.
QuitHandler ==
  /\ sPc = "sleep"
  /\ Suffer("quit")
  /\ pwm' = PwmOf(1)
  /\ sPc' = "quit"
  /\ UNCHANGED <<temp, stemp, warn, crit, fanMode, off, daemonVars, files, hardware,
                 hottest>>

StartSysctrl ==
  /\ sPc = "stopped"
  /\ sPc' = "sleep"
  /\ temp' = 0 /\ warn' = 0 /\ crit' = 0 /\ pwm' = 0
  /\ fanMode' \in Modes
  /\ UNCHANGED <<stemp, off, daemonVars, files, hardware, hottest, adversity>>

------------------------------------------------------------------------------
(* dns320l-daemon                                                           *)

\* Mutant of LevelFor: off by one, the middle pwm of 127 is full speed.
LevelForOffByOne(value) == IF value = 0 THEN 0 ELSE IF value < 127 THEN 1 ELSE 2

LevelFor(value) == IF value = 0 THEN 0 ELSE IF value < 128 THEN 1 ELSE 2

\* Where the daemon goes when a command is over.
AfterTemp == IF caller = "main" THEN "pwm" ELSE "poll"

\* The 15 s round begins, or a client asks for the temperature.
BeginRound ==
  /\ dPc = "poll"
  /\ dPc' = "ask" /\ caller' = "main"
  /\ UNCHANGED <<sysctrlVars, reading, oldPwm, fanSpeed, target, socket, files,
                 hardware, hottest, adversity>>

ClientGetTemp ==
  /\ dPc = "poll" /\ Suffer("client")
  /\ dPc' = "ask" /\ caller' = "client"
  /\ UNCHANGED <<sysctrlVars, reading, oldPwm, fanSpeed, target, socket, files,
                 hardware, hottest>>

ClientSetFan ==
  /\ dPc = "poll" /\ Suffer("client")
  /\ target' \in Levels
  /\ dPc' = "setfan" /\ caller' = "client"
  /\ UNCHANGED <<sysctrlVars, reading, oldPwm, fanSpeed, socket, files, hardware,
                 hottest>>

\* gettemperature_cmd, its SendCommand acknowledged within its tries ...
AskTemp ==
  /\ dPc = "ask"
  /\ reading' = mcuTemp
  /\ hottest' = MaxOf(hottest, mcuTemp)
  /\ dPc' = "temptrunc"
  /\ UNCHANGED <<sysctrlVars, caller, oldPwm, fanSpeed, target, socket, files,
                 hardware, adversity>>

\* ... or not: the file keeps the last temperature.
AskTempFails ==
  /\ dPc = "ask" /\ Suffer("fault")
  /\ dPc' = AfterTemp /\ caller' = "main"
  /\ UNCHANGED <<sysctrlVars, reading, oldPwm, fanSpeed, target, socket, files,
                 hardware, hottest>>

TruncateTemp ==
  /\ dPc = "temptrunc"
  /\ tempFile' = Empty
  /\ dPc' = "tempwrite"
  /\ UNCHANGED <<sysctrlVars, caller, reading, oldPwm, fanSpeed, target, socket,
                 pwmFile, fanFile, hardware, hottest, adversity>>

WriteTemp ==
  /\ dPc = "tempwrite"
  /\ tempFile' = reading
  /\ reading' = 0
  /\ dPc' = AfterTemp /\ caller' = "main"
  /\ UNCHANGED <<sysctrlVars, oldPwm, fanSpeed, target, socket, pwmFile, fanFile,
                 hardware, hottest, adversity>>

\* readset_temp: an empty pwm1 ends the round; a new value is remembered and,
\* if it asks for another level than the last one acknowledged, commanded.
ReadPwm ==
  /\ dPc = "pwm"
  /\ MayTear(sPc \in {"write", "quitwrite"})
  /\ oldPwm' = IF pwmFile = Empty THEN oldPwm ELSE pwmFile
  /\ IF pwmFile \notin {Empty, oldPwm} /\ fanSpeed # LevelFor(pwmFile)
       THEN dPc' = "setfan" /\ target' = LevelFor(pwmFile)
       ELSE dPc' = "poll" /\ UNCHANGED target
  /\ UNCHANGED <<sysctrlVars, caller, reading, fanSpeed, socket, files, hardware,
                 hottest>>

\* setfan_cmd: acknowledged, then reported in fan1_input in two steps ...
SetFan ==
  /\ dPc = "setfan"
  /\ mcuFan' = target
  /\ fanSpeed' = target
  /\ dPc' = "fantrunc"
  /\ UNCHANGED <<sysctrlVars, caller, reading, oldPwm, target, socket, files, mcuTemp,
                 diskTemp, hottest, adversity>>

\* ... or not acknowledged, though the MCU may have obeyed.
SetFanFails ==
  /\ dPc = "setfan" /\ Suffer("fault")
  /\ mcuFan' \in {mcuFan, target}
  /\ target' = 0
  /\ dPc' = "poll" /\ caller' = "main"
  /\ UNCHANGED <<sysctrlVars, reading, oldPwm, fanSpeed, socket, files, mcuTemp,
                 diskTemp, hottest>>

TruncateFan ==
  /\ dPc = "fantrunc"
  /\ fanFile' = Empty
  /\ dPc' = "fanwrite"
  /\ UNCHANGED <<sysctrlVars, caller, reading, oldPwm, fanSpeed, target, socket,
                 tempFile, pwmFile, hardware, hottest, adversity>>

WriteFan ==
  /\ dPc = "fanwrite"
  /\ fanFile' = RpmOf(target)
  /\ target' = 0
  /\ dPc' = "poll" /\ caller' = "main"
  /\ UNCHANGED <<sysctrlVars, reading, oldPwm, fanSpeed, socket, tempFile, pwmFile,
                 hardware, hottest, adversity>>

\* The daemon ends anywhere: by SIGTERM or SIGINT (quithandler unlinks the
\* socket), or killed, when the socket stays behind.
Terminate ==
  /\ dPc # "dead"
  /\ \/ Suffer("term") /\ socket' = "none"
     \/ Suffer("kill") /\ UNCHANGED socket
  /\ dPc' = "dead"
  /\ reading' = 0 /\ target' = 0 /\ caller' = "main"
  /\ oldPwm' = -1 /\ fanSpeed' = -1
  /\ UNCHANGED <<sysctrlVars, files, hardware, hottest>>

\* init respawns it; start_listening exits again if bind finds the socket.
Respawn ==
  /\ dPc = "dead" /\ socket = "none"
  /\ socket' = "bound"
  /\ dPc' = "poll"
  /\ UNCHANGED <<sysctrlVars, caller, reading, oldPwm, fanSpeed, target, files,
                 hardware, hottest, adversity>>

------------------------------------------------------------------------------
\* The box and the disks warm up and cool down.
Weather ==
  /\ mcuTemp' \in SysTemps
  /\ diskTemp' \in DiskTemps
  /\ UNCHANGED <<sysctrlVars, daemonVars, files, mcuFan, hottest, adversity>>

\* rcS: temperature and fan files 0, pwm 127; the fan is whatever it was.
Init ==
  /\ sPc = "sleep" /\ temp = 0 /\ stemp = 0 /\ pwm = 0
  /\ warn = 0 /\ crit = 0 /\ off = FALSE
  /\ fanMode \in Modes
  /\ tempFile = 0 /\ pwmFile = 127 /\ fanFile = 0
  /\ dPc = "poll" /\ caller = "main" /\ reading = 0
  /\ oldPwm = -1 /\ fanSpeed = -1 /\ target = 0 /\ socket = "bound"
  /\ mcuTemp \in SysTemps /\ diskTemp \in DiskTemps /\ mcuFan \in Levels
  /\ hottest = 0
  /\ adversity = 0

Fanctl == PrimeTemp \/ ReadTemp \/ Control \/ TruncatePwm \/ WritePwm \/ Alarms

ReadsetTemp == BeginRound \/ AskTemp \/ AskTempFails \/ TruncateTemp \/ WriteTemp
               \/ ReadPwm \/ SetFan \/ SetFanFails \/ TruncateFan \/ WriteFan

Next == \/ Fanctl \/ ReadConfig \/ QuitHandler \/ StartSysctrl
        \/ ReadsetTemp \/ ClientGetTemp \/ ClientSetFan \/ Terminate \/ Respawn
        \/ Weather

Spec == Init /\ [][Next]_vars

\* Each daemon keeps running its loop, and init respawns dns320l-daemon.  The
\* fairness is strong for the loops because the bound on torn reads disables a
\* reader now and then: it does not always hit the writer's window.
FairSpec == Spec /\ SF_vars(Fanctl) /\ SF_vars(ReadsetTemp) /\ WF_vars(Respawn)

------------------------------------------------------------------------------
TypeOK ==
  /\ sPc \in {"sleep", "readtemp", "control", "truncate", "write", "alarms",
              "quit", "quitwrite", "stopped"}
  /\ temp \in Nat /\ stemp \in Nat /\ pwm \in {0, 127, 255}
  /\ warn \in {0, 1} /\ crit \in {0, 1} /\ off \in BOOLEAN
  /\ fanMode \in FanModes
  /\ tempFile \in Nat \cup {Empty}
  /\ pwmFile \in {0, 127, 255, Empty}
  /\ fanFile \in {0, 3000, 6000, Empty}
  /\ dPc \in {"poll", "ask", "temptrunc", "tempwrite", "pwm", "setfan",
              "fantrunc", "fanwrite", "dead"}
  /\ caller \in {"main", "client"}
  /\ reading \in Nat /\ oldPwm \in {-1, 0, 127, 255}
  /\ fanSpeed \in Levels \cup {-1} /\ target \in Levels /\ socket \in {"none", "bound"}
  /\ mcuTemp \in SysTemps /\ diskTemp \in DiskTemps /\ mcuFan \in Levels
  /\ hottest \in Nat
  /\ adversity \in 0..MaxAdversity

\* The box is never powered off for heat unless some sensor really reported
\* more than crit_temp: no torn read, restart of a daemon, lost MCU answer or
\* state of the filter makes fanctl run crit_temp_command on its own.
NoSpuriousShutdown == off => hottest > CritTemp

\* A pwm that stays the same (but for the moments it is being rewritten) is the
\* fan's level in the end: "read temperature and desired fan speed and update if
\* necessary", "adjust fan speed every 15 seconds" (readset_temp and main).
FanFollowsPwm ==
  \A l \in Levels: <>[](pwmFile \in {PwmOf(l), Empty}) => <>[](mcuFan = l)

\* In automatic mode, with sysctrl alive, the fan does not oscillate: a box that
\* stays hot ends with it at full speed, one that cools down and stays cool with
\* it stopped.
FanSettles ==
  /\ <>[](mcuTemp > LoTemp + HistTemp /\ fanMode = "AUTO" /\ sPc # "stopped") => <>[](mcuFan = 2)
  /\ <>[](mcuTemp < FanOffTemp - HistTemp /\ diskTemp < FanOffTemp - HistTemp
          /\ fanMode = "AUTO" /\ sPc # "stopped") => <>[](mcuFan = 0)

\* A box that stays critically hot is powered off, whatever its fan mode.
OverheatPowersOff == <>[](mcuTemp > CritTemp /\ sPc # "stopped") => <>off
==============================================================================
