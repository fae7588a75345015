------------------------------ MODULE MCLocks ------------------------------
\* The three locks made of files, for TLC.  They share nothing, so a behaviour
\* has the users of one of them, and the others' stay idle.
EXTENDS TempLock

CONSTANTS Backups, Rotates, HasMirror, ClockSetBack, MaxKills, Nobody, Daemons
ASSUME NobodyAssumption == Nobody \notin Backups \cup Daemons
ASSUME CopiesAssumption == Rotates \subseteq Nat /\ MaxKills \in Nat

VARIABLES whose,
  lockdir, pidfile, at, nlogs, kept, date, current, kills,
  dfile, named, dat, seen, fresh, downs

Copies == INSTANCE Backup WITH NoPid <- Nobody, None <- Nobody
Sysctrl == INSTANCE PidFile WITH file <- dfile, at <- dat, NoFile <- Nobody

copiesVars == <<lockdir, pidfile, at, nlogs, kept, date, current, kills>>
daemonVars == <<dfile, named, dat, seen, fresh, downs>>

MCInit ==
  /\ whose \in {"temperature", "backup", "daemon"}
  /\ Init /\ Copies!Init /\ Sysctrl!Init

UsersOfTemp(A) == whose = "temperature" /\ A /\ UNCHANGED <<whose, copiesVars, daemonVars>>
BackupsRun(A) == whose = "backup" /\ A /\ UNCHANGED <<whose, vars, daemonVars>>
DaemonsStart(A) == whose = "daemon" /\ A /\ UNCHANGED <<whose, vars, copiesVars>>

MCNext == UsersOfTemp(Next) \/ BackupsRun(Copies!Next) \/ DaemonsStart(Sysctrl!Next)

MCSpec ==
  /\ MCInit /\ [][MCNext]_<<whose, vars, copiesVars, daemonVars>>
  /\ \A p \in Procs: SF_<<whose, vars, copiesVars, daemonVars>>(UsersOfTemp(Step(p)))
  /\ \A p \in Backups: SF_<<whose, vars, copiesVars, daemonVars>>(BackupsRun(Copies!Step(p)))

\* exclusive() of usr/bin/backup: two backups never overlap (Backup.tla).
BackupsTakeTurns == Copies!BackupsTakeTurns

\* clean_logs of usr/bin/backup removes nothing before there are as many copies
\* as asked for, and never the one `current` leads to (Backup.tla).
RotationKeeps == Copies!RotationKeeps

\* lock() of usr/bin/backup: a backup that starts has its turn and ends, unless
\* one was killed with the lock (Backup.tla).
QueueDrains == Copies!QueueDrains

\* check_other_daemon: of several that find a stale pid file one survives
\* (PidFile.tla).
OneSurvives == Sysctrl!OneSurvives
=============================================================================
