------------------------------ MODULE McuSerial ------------------------------
(***************************************************************************)
(* The serial line between dns320l-daemon and the MCU: SendCommand, its    *)
(* retries, and the commands made of several: an alarm is four registers,  *)
(* written one by one, read back, and enabled.  A command or an answer may *)
(* be lost; an answer may also come after the daemon's patience and be     *)
(* found by a later command.  An answer names its register but not the     *)
(* command it answers; an ack names nothing.                               *)
(***************************************************************************)
EXTENDS Integers, SequencesExt

CONSTANTS
  N,            \* the registers of an alarm: month, day, hour and minute
  Times,        \* times an alarm may have; 0 stands for no alarm
  Retries,      \* nRetries
  MaxFaults,    \* bound on packets lost or late
  MaxLate       \* bound on packets still under way when a command is sent

VARIABLES
  regs, enabled,    \* in the MCU: the registers; whether the alarm is on
  had,              \* the values that each register has had
  flight, line,     \* packets under way; packets that have arrived
  step, time,       \* which command, of an alarm of this time
  at, tries,
  got,              \* what readalarm has read
  told,             \* what the client was told last: an alarm, Error or Nothing
  lost, late, faults

mcu == <<regs, enabled, had>>
wire == <<flight, line>>
task == <<step, time>>
vars == <<mcu, wire, task, at, tries, got, told, lost, late, faults>>

Alarm == 1..N            \* RAlarmMonthCmd, ... WAlarmMinuteCmd
Enable == 2 * N + 1      \* WAlarmEnableCmd, WAlarmDisableCmd
Temperature == Enable + 1  \* ThermalStatusGetCmd

Ack == <<0, -1>>    \* AckFromSerial: no register, and no value
Nothing == <<>>
Error == <<-1>>

\* The steps of a command: an alarm is written in 1..N and read in N+1..2*N; one
\* that is moved (+N d) is read first, in 1-N..0.
Sets == step \in Alarm \cup {Enable}
Reg == CASE step < 1 -> step + N [] step \in N+1..2*N -> step - N [] OTHER -> step
Zero == \A r \in Alarm: got[r] = 0

\* HandleCommand: readAlarm_cmd, writeAlarm_cmd (a date, +N), and readset_temp.
Begin(first, t) ==
  /\ at = "idle"
  /\ step' = first /\ time' = t /\ at' = "send" /\ tries' = 0 /\ told' = Nothing
  /\ UNCHANGED <<mcu, wire, got, lost, late, faults>>

------------------------------------------------------------------------------
\* _SendCommand: what has arrived is cleared, and the command is written; the
\* MCU obeys and answers.  With "lost", some of that does not happen.
Answer == IF Sets THEN <<Ack>> ELSE <<<<Reg, IF Reg \in Alarm THEN regs[Reg] ELSE 0>>, Ack>>

Obeys ==
  /\ regs' = IF step \in Alarm THEN [regs EXCEPT ![step] = time] ELSE regs
  /\ had' = IF step \in Alarm THEN [had EXCEPT ![step] = @ \cup {time}] ELSE had
  /\ enabled' = IF step = Enable THEN ~Zero ELSE enabled

Clear == line' = <<>>

Send ==
  /\ at = "send" /\ Len(flight) <= MaxLate
  /\ Clear /\ Obeys /\ flight' = flight \o Answer
  /\ at' = IF Sets THEN "ack" ELSE "answer"
  /\ UNCHANGED <<task, tries, got, told, lost, late, faults>>

SendLost(obeyed, arrives) ==
  /\ at = "send" /\ Len(flight) <= MaxLate /\ faults < MaxFaults
  /\ Clear /\ (obeyed \/ arrives = <<>>) /\ arrives # Answer
  /\ IF obeyed THEN Obeys ELSE UNCHANGED mcu
  /\ flight' = flight \o arrives
  /\ at' = IF Sets THEN "ack" ELSE "answer"
  /\ lost' = TRUE /\ faults' = faults + 1
  /\ UNCHANGED <<task, tries, got, told, late>>

Arrive ==
  /\ flight # <<>>
  /\ line' = Append(line, Head(flight)) /\ flight' = Tail(flight)
  /\ UNCHANGED <<mcu, task, at, tries, got, told, lost, late, faults>>

------------------------------------------------------------------------------
\* Mutant of Matches: any answer will do.
MatchesAny(p) == p # <<>>

\* CheckResponse: the answer has the head of the command.
Matches(p) == p # Ack /\ p[1] = Reg

ReceiveAnswer ==
  /\ at = "answer" /\ line # <<>> /\ Matches(Head(line))
  /\ got' = IF Reg \in Alarm THEN [got EXCEPT ![Reg] = Head(line)[2]] ELSE got
  /\ line' = Tail(line) /\ at' = "ack"
  /\ UNCHANGED <<mcu, flight, task, tries, told, lost, late, faults>>

\* A command has succeeded, or failed for good; what comes next.
Ends(t) == at' = "idle" /\ told' = t /\ step' = step
Goes == at' = "send" /\ step' = step + 1 /\ UNCHANGED told
AlarmRead == [r \in Alarm |-> got[r]]

ReceiveAck ==
  /\ at = "ack" /\ line # <<>> /\ Head(line) = Ack
  /\ line' = Tail(line) /\ tries' = 0
  /\ CASE step = Enable -> Ends(AlarmRead) [] step = Temperature -> Ends(Nothing) [] OTHER -> Goes
  /\ UNCHANGED <<mcu, flight, time, got, lost, late, faults>>

\* SendCommand: again, up to nRetries times; then an error, which readAlarm_cmd
\* overlooks when the alarm is enabled.
Fails ==
  /\ tries' = IF tries < Retries THEN tries + 1 ELSE 0
  /\ IF tries < Retries THEN at' = "send" /\ UNCHANGED <<step, told>>
                        ELSE Ends(IF step = Enable THEN AlarmRead ELSE Error)
  /\ UNCHANGED <<mcu, flight, time, got, lost>>

ReceiveWrong ==
  /\ line # <<>>
  /\ \/ at = "answer" /\ ~Matches(Head(line))
     \/ at = "ack" /\ Head(line) # Ack
  /\ line' = Tail(line) /\ Fails /\ UNCHANGED <<late, faults>>

\* VTIME: nothing is under way, or it is late.
Timeout ==
  /\ at \in {"answer", "ack"} /\ line = <<>>
  /\ IF flight = <<>> THEN UNCHANGED <<late, faults>>
                      ELSE faults < MaxFaults /\ faults' = faults + 1 /\ late' = TRUE
  /\ Fails /\ UNCHANGED line

Init ==
  /\ regs = [r \in Alarm |-> 0] /\ enabled = FALSE /\ had = [r \in Alarm |-> {0}]
  /\ flight = <<>> /\ line = <<>>
  /\ step = Temperature /\ time = 0 /\ at = "idle" /\ tries = 0
  /\ got = [r \in Alarm |-> -1] /\ told = Nothing
  /\ lost = FALSE /\ late = FALSE /\ faults = 0

Next ==
  \/ \E t \in Times: Begin(1 - N, t) \/ Begin(1, t)
  \/ Begin(N + 1, 0) \/ Begin(Temperature, 0)
  \/ Send \/ \E o \in BOOLEAN, n \in 0..1: SendLost(o, IF n = 0 THEN <<>> ELSE <<Head(Answer)>>)
  \/ Arrive \/ ReceiveAnswer \/ ReceiveAck \/ ReceiveWrong \/ Timeout

Spec == Init /\ [][Next]_vars

------------------------------------------------------------------------------
\* SendCommand: what a client is told of the alarm is what the MCU has, whatever
\* is lost.  When an answer was late, an older value of a register may be taken
\* for its value; another register's, or an ack, never.
AlarmAsTold == told \notin {Nothing, Error} =>
  IF late THEN \A r \in Alarm: told[r] \in had[r] ELSE told = regs
=============================================================================
