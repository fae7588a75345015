------------------------------- MODULE Backup -------------------------------
(***************************************************************************)
(* usr/bin/backup: cron and the web page start backups at any time; they   *)
(* take turns through a pid file that is looked at and written with a      *)
(* directory as lock.  Each makes a dated copy, links `current` to it and  *)
(* removes old copies.  A copy is the number of the backup that made it.   *)
(***************************************************************************)
EXTENDS Naturals, FiniteSets

CONSTANTS
  Backups,       \* processes, each of which makes one backup
  Rotates,       \* the values of nlogs the user may have set
  HasMirror,     \* the type is FTP or HTTP: `mirror` is beside the copies
  ClockSetBack,  \* dates of later copies may be earlier
  MaxKills       \* bound on processes killed

VARIABLES
  lockdir,   \* /var/lock/backup.lockdir exists
  pidfile,   \* who /var/run/backup.pid names, or NoPid
  at,        \* where a backup is
  nlogs,     \* how many copies it is to keep, from backup.conf
  kept,      \* the dated directories
  date,      \* their names: numbers in the order of the dates
  current,   \* what the link leads to, or None
  kills

locks == <<lockdir, pidfile>>
copies == <<kept, date, current>>
vars == <<locks, at, nlogs, copies, kills>>
CONSTANTS NoPid, None

Goes(p, to) == at' = [at EXCEPT ![p] = to]
Alive(p) == at[p] \notin {"new", "killed", "done"}
\* exclusive() is done, and the pid file not yet removed.
Doing == {"unlock", "copy", "unlink", "link", "rotate", "last", "clear"}
Holding == {"test", "claim", "requeue", "unlock", "clear", "unlast"}

------------------------------------------------------------------------------
\* Cron or the web page starts a backup.
Start(p) ==
  /\ at[p] = "new"
  /\ Goes(p, "first")
  /\ UNCHANGED <<locks, nlogs, copies, kills>>

\* Mutant of Lock: mkdir -p, which does not fail.
LockAnyway(p) ==
  /\ at[p] \in {"first", "last"}
  /\ lockdir' = TRUE
  /\ Goes(p, IF at[p] = "first" THEN "test" ELSE "clear")
  /\ UNCHANGED <<pidfile, nlogs, copies, kills>>

\* lock: mkdir, tried every five seconds.
Lock(p) ==
  /\ at[p] \in {"first", "last"} /\ ~lockdir
  /\ lockdir' = TRUE
  /\ Goes(p, IF at[p] = "first" THEN "test" ELSE "clear")
  /\ UNCHANGED <<pidfile, nlogs, copies, kills>>

\* exclusive: while the pid file is that of a process that lives the backup is
\* queued, and looks again in a minute ...
Test(p) ==
  /\ at[p] = "test"
  /\ Goes(p, IF pidfile # NoPid /\ Alive(pidfile) THEN "requeue" ELSE "claim")
  /\ UNCHANGED <<locks, nlogs, copies, kills>>

\* ... and none, or that of one that has ended, becomes its own.
Claim(p) ==
  /\ at[p] = "claim"
  /\ pidfile' = p
  /\ Goes(p, "unlock")
  /\ UNCHANGED <<lockdir, nlogs, copies, kills>>

\* Mutant of Unlock: a queued backup sleeps with the lock.
UnlockLast(p) ==
  /\ at[p] \in {"unlock", "unlast"}
  /\ lockdir' = FALSE
  /\ Goes(p, IF at[p] = "unlock" THEN "copy" ELSE "done")
  /\ UNCHANGED <<pidfile, nlogs, copies, kills>>

Unlock(p) ==
  /\ at[p] \in {"requeue", "unlock", "unlast"}
  /\ lockdir' = FALSE
  /\ Goes(p, CASE at[p] = "requeue" -> "first" [] at[p] = "unlock" -> "copy" [] OTHER -> "done")
  /\ UNCHANGED <<pidfile, nlogs, copies, kills>>

Latest == CHOOSE d \in {date[q]: q \in Backups}: \A q \in Backups: date[q] <= d

\* do_backup's mkdir and copy; a copy that fails is kept like one that is whole.
\* With no source directory, or a host that is down, there is none.
Copy(p) ==
  /\ at[p] = "copy"
  /\ \/ /\ kept' = kept \cup {p}
        /\ \E d \in IF ClockSetBack THEN 1..Latest+1 ELSE {Latest+1}:
             (\A q \in kept: d # date[q]) /\ date' = [date EXCEPT ![p] = d]
        /\ Goes(p, IF current \in kept THEN "unlink" ELSE "link")
     \/ Goes(p, "last") /\ UNCHANGED <<kept, date>>
  /\ UNCHANGED <<locks, nlogs, current, kills>>

\* `rm current`, if what it leads to exists, then `ln -sf`.  What nlogs was when
\* the backup started matters from here on.
UnlinkCurrent(p) ==
  /\ at[p] = "unlink"
  /\ current' = None
  /\ Goes(p, "link")
  /\ UNCHANGED <<locks, nlogs, kept, date, kills>>

LinkCurrent(p) ==
  /\ at[p] = "link"
  /\ current' = p
  /\ \E n \in Rotates:
       nlogs' = [nlogs EXCEPT ![p] = n] /\ Goes(p, IF n > 0 THEN "rotate" ELSE "last")
  /\ UNCHANGED <<locks, kept, date, kills>>

\* Mutant of Directories: the destination itself is counted as a copy.
DirectoriesAndDot == Cardinality(kept) + 1

\* clean_logs' find | wc, less one for the destination itself: all directories.
Directories == Cardinality(kept) + (IF HasMirror THEN 1 ELSE 0)

Oldest(S) == CHOOSE p \in S: \A q \in S: date[p] <= date[q]

\* clean_logs, one round of its loop or its end.
Rotate(p) ==
  /\ at[p] = "rotate"
  /\ IF Directories > nlogs[p] /\ kept # {}
       THEN kept' = kept \ {Oldest(kept)} /\ UNCHANGED <<at, nlogs>>
       ELSE nlogs' = [nlogs EXCEPT ![p] = 0] /\ Goes(p, "last") /\ UNCHANGED kept
  /\ UNCHANGED <<locks, date, current, kills>>

\* The pid file is removed, with the lock taken again.
Clear(p) ==
  /\ at[p] = "clear"
  /\ pidfile' = NoPid
  /\ Goes(p, "unlast")
  /\ UNCHANGED <<lockdir, nlogs, copies, kills>>

\* A backup is killed, by the user or for lack of memory.
Kill(p) ==
  /\ Alive(p) /\ kills < MaxKills
  /\ kills' = kills + 1
  /\ Goes(p, "killed")
  /\ UNCHANGED <<locks, nlogs, copies>>

Init ==
  /\ lockdir = FALSE /\ pidfile = NoPid
  /\ at = [p \in Backups |-> "new"] /\ nlogs = [p \in Backups |-> 0]
  /\ kept = {} /\ date = [p \in Backups |-> 0] /\ current = None
  /\ kills = 0

Step(p) == \/ Lock(p) \/ Test(p) \/ Claim(p) \/ Unlock(p) \/ Copy(p) \/ UnlinkCurrent(p)
           \/ LinkCurrent(p) \/ Rotate(p) \/ Clear(p)

Next == \E p \in Backups: Start(p) \/ Step(p) \/ Kill(p)

\* Strong for those that wait: the directory is held for moments, and tried for
\* every five seconds; a queued backup looks every minute.
Fair == \A p \in Backups: SF_vars(Step(p))
Spec == Init /\ [][Next]_vars
FairSpec == Spec /\ Fair

------------------------------------------------------------------------------
TypeOK ==
  /\ lockdir \in BOOLEAN /\ pidfile \in Backups \cup {NoPid}
  /\ at \in [Backups -> Doing \cup Holding \cup {"new", "first", "killed", "done"}]
  /\ nlogs \in [Backups -> Nat] /\ date \in [Backups -> Nat] /\ kills \in Nat
  /\ kept \subseteq Backups /\ current \in Backups \cup {None}

\* Backups never overlap, whoever is killed where: the pid file of a dead owner
\* is taken over under the lock, by one.
Turn == INSTANCE Mutex WITH Procs <- Backups, inside <- {p \in Backups: at[p] \in Doing},
                            left <- FALSE
BackupsTakeTurns == Turn!Spec

\* Nothing is removed before there are as many copies as the user asked for,
\* and `current`, on which the next copy is based, is never what is removed.
RotationKeeps ==
  [][\A p \in kept: p \notin kept' =>
       /\ \E q \in Backups: at[q] = "rotate" /\ Cardinality(kept) > nlogs[q]
       /\ p # current]_vars

\* A backup that starts has its turn and ends, unless one was killed with the
\* lock: then all that follow wait for ever.
Orphan == lockdir /\ \A p \in Backups: at[p] \notin Holding
QueueDrains == \A p \in Backups: (at[p] = "first") ~> (at[p] \in {"done", "killed"} \/ Orphan)
=============================================================================
