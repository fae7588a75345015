------------------------------ MODULE PidFile ------------------------------
(***************************************************************************)
(* One sysctrl at a time: rcsysctrl starts none while one runs, and        *)
(* check_other_daemon ends one that finds another's pid file.  Nothing     *)
(* removes the pid file of a daemon that ends but the next one to start.   *)
(***************************************************************************)
EXTENDS Naturals

CONSTANTS Daemons, MaxKills, NoFile

VARIABLES
  file,     \* whose /var/run/sysctrl.pid is: who created it, or NoFile
  named,    \* it has its creator's number in it, not nothing
  at,       \* where a daemon is
  seen,     \* whom it read of
  fresh,    \* those started since the last was killed
  downs     \* how many were killed

vars == <<file, named, at, seen, fresh, downs>>

Goes(d, to) == at' = [at EXCEPT ![d] = to]
Alive(d) == at[d] \notin {"none", "killed", "ended"}
In == {"write", "runs"}

------------------------------------------------------------------------------
\* rcsysctrl start: start-stop-daemon looks for a process of that program ...
Look(d) ==
  /\ at[d] = "none" /\ \A e \in Daemons: ~Alive(e) \/ at[e] = "look"
  /\ Goes(d, "look")
  /\ UNCHANGED <<file, named, seen, fresh, downs>>

\* ... and starts one when it saw none.
Start(d) ==
  /\ at[d] = "look"
  /\ Goes(d, "open")
  /\ fresh' = fresh \cup {d}
  /\ UNCHANGED <<file, named, seen, downs>>

Creates(d) == file' = d /\ named' = FALSE /\ Goes(d, "write")

\* open with O_CREAT | O_EXCL, the first and the second time.  The second time
\* a file that is there again is not expected: fdopen(-1) and a crash.
Open(d) ==
  /\ at[d] \in {"open", "reopen"}
  /\ IF file = NoFile
       THEN Creates(d)
       ELSE Goes(d, IF at[d] = "open" THEN "read" ELSE "ended") /\ UNCHANGED <<file, named>>
  /\ UNCHANGED <<seen, fresh, downs>>

\* A file that was there and is no more is a null pointer; an empty one is
\* another's that starts: exit(1), or a crash.
Read(d) ==
  /\ at[d] = "read"
  /\ IF file # NoFile /\ named
       THEN seen' = [seen EXCEPT ![d] = file] /\ Goes(d, "probe")
       ELSE Goes(d, "ended") /\ UNCHANGED seen
  /\ UNCHANGED <<file, named, fresh, downs>>

\* kill(opid, 0)
Probe(d) ==
  /\ at[d] = "probe"
  /\ Goes(d, IF Alive(seen[d]) THEN "ended" ELSE "unlink")
  /\ UNCHANGED <<file, named, seen, fresh, downs>>

\* Mutant of Unlink: the stale file stays, and is opened again.
UnlinkNot(d) ==
  /\ at[d] = "unlink"
  /\ Goes(d, "reopen")
  /\ UNCHANGED <<file, named, seen, fresh, downs>>

Unlink(d) ==
  /\ at[d] = "unlink"
  /\ file' = NoFile /\ named' = FALSE
  /\ Goes(d, "reopen")
  /\ UNCHANGED <<seen, fresh, downs>>

\* The number goes into the file one created, wherever its name is by now.
Write(d) ==
  /\ at[d] = "write"
  /\ named' = (named \/ file = d)
  /\ Goes(d, "runs")
  /\ UNCHANGED <<file, seen, fresh, downs>>

\* rcsysctrl stop, or any other end of it; it may be started again.
Kill(d) ==
  /\ Alive(d) /\ at[d] # "look" /\ downs < MaxKills
  /\ downs' = downs + 1 /\ fresh' = {}
  /\ Goes(d, IF at[d] \in In THEN "killed" ELSE "ended")
  /\ UNCHANGED <<file, named, seen>>

Init ==
  /\ file = NoFile /\ named = FALSE
  /\ at = [d \in Daemons |-> "none"] /\ seen = [d \in Daemons |-> d]
  /\ fresh = {} /\ downs = 0

Next == \E d \in Daemons: \/ Look(d) \/ Start(d) \/ Open(d) \/ Read(d) \/ Probe(d)
                          \/ Unlink(d) \/ Write(d) \/ Kill(d)

Spec == Init /\ [][Next]_vars

------------------------------------------------------------------------------
TypeOK ==
  /\ file \in Daemons \cup {NoFile} /\ named \in BOOLEAN
  /\ at \in [Daemons -> In \cup {"none", "look", "open", "read", "probe", "unlink", "reopen",
                                 "killed", "ended"}]
  /\ seen \in [Daemons -> Daemons] /\ fresh \subseteq Daemons /\ downs \in Nat

\* Until one is killed and leaves its file, no two daemons control the fan.
Daemon == INSTANCE Mutex WITH Procs <- Daemons, inside <- {d \in Daemons: at[d] \in In},
                              left <- \E d \in Daemons: at[d] = "killed"
PidIsMutex == Daemon!Spec

\* Several that find the same stale file do not all end for one another: when
\* the last of those that were started is through, one runs.  But an empty file
\* that a daemon left, killed as it started, ends all that follow.
OneSurvives ==
  /\ fresh # {} /\ \A d \in Daemons: at[d] \in {"none", "look", "runs", "killed", "ended"}
  => \/ \E d \in Daemons: at[d] = "runs"
     \/ file # NoFile /\ ~named /\ at[file] = "killed"
=============================================================================
