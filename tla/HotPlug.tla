------------------------------- MODULE HotPlug -------------------------------
(***************************************************************************)
(* The partitions of plugged disks: for each one hot.sh starts hot_aux.sh  *)
(* in the background, which checks it, lists it in /etc/fstab, mounts it   *)
(* and, if it finds an Alt-F directory there, makes that the writable      *)
(* branch of the root.  eject undoes it.  The scripts meet in files only:  *)
(* /tmp/check-*, two lock directories, /etc/fstab and the /Alt-F link.     *)
(*                                                                         *)
(* Of a partition's check-*.log nothing is kept: it is there while the     *)
(* check-* mark is.                                                        *)
(***************************************************************************)
EXTENDS Naturals, FiniteSets

CONSTANTS
  Devs,          \* partitions
  Procs,         \* instances of hot_aux.sh
  DevOf,         \* the partition of an instance; lvm's extra events share one
  AltF,          \* the partitions with an Alt-F directory
  Broken,        \* the partitions fsck cannot fix, mounted read only
  EjectAnytime,  \* FALSE: an eject and a hot_aux.sh never run at the same time
  MaxEjects,     \* how many times eject is called, 0 or 1
  MaxCrashes     \* how many instances are killed during their fsck, 0 or 1

ASSUME DevOfAssumption == DevOf \in [Procs -> Devs]
ASSUME SetsAssumption == AltF \subseteq Devs /\ Broken \subseteq Devs
ASSUME NamesAssumption == "none" \notin Devs \cup Procs /\ "eject" \notin Procs
ASSUME BoundsAssumption ==
  EjectAnytime \in BOOLEAN /\ {MaxEjects, MaxCrashes} \subseteq {0, 1}

VARIABLES
  pc,          \* where each instance is
  marked,      \* the partitions with a /tmp/check-* mark
  pid,         \* the instance in /tmp/check-*.pid
  fsckLock,    \* /tmp/fsck_lock
  led,         \* the power led's trigger
  fstab,       \* the partitions /etc/fstab lists
  fstabLock,   \* /tmp/fstab_lock
  copy,        \* the file sed -i is about to rename over /etc/fstab
  mounted,
  link,        \* the partition of the Alt-F directory /Alt-F points to
  branches,    \* the partitions whose Alt-F directory is a branch of the root
  eject,       \* where eject is
  target,      \* the partition it ejects
  ejected      \* the partitions ejected and not plugged again

checks == <<marked, pid, fsckLock, led>>
table  == <<fstab, fstabLock, copy>>
altf   == <<link, branches>>
user   == <<eject, target, ejected>>
vars == <<pc, checks, table, mounted, altf, user>>

None == "none"
Ejector == "eject"   \* eject's sed -i

Dev(p) == DevOf[p]
Ejecting == eject \notin {"idle", "failed", "done"}
Live(p) == pc[p] \notin {"new", "done", "duplicate", "dead"}
Goes(p, from, to) == pc[p] = from /\ pc' = [pc EXCEPT ![p] = to]
AnyCheckFile == marked # {} \/ \E d \in Devs: pid[d] # None

------------------------------------------------------------------------------
(* hot.sh: add_partition                                                    *)

Start(p) ==
  /\ Goes(p, "new", "look")
  /\ Dev(p) \notin mounted
  /\ EjectAnytime \/ ~Ejecting
  /\ ejected' = ejected \ {Dev(p)}
  /\ UNCHANGED <<checks, table, mounted, altf, eject, target>>

------------------------------------------------------------------------------
(* hot_aux.sh: check                                                        *)

\* ls /tmp/check-*
Look(p) ==
  /\ \/ ~AnyCheckFile /\ Goes(p, "look", "mark")
     \/ AnyCheckFile /\ Goes(p, "look", "probe")
  /\ UNCHANGED <<checks, table, mounted, altf, user>>

\* kill -0 with the processes of all pid files succeeds if all of them live; it
\* fails if there is none.
Checkers == {pid[d]: d \in Devs} \ {None}
AllLive == Checkers # {} /\ \A q \in Checkers: Live(q)

Probe(p) ==
  /\ \/ AllLive /\ Dev(p) \in marked /\ Goes(p, "probe", "duplicate")
     \/ AllLive /\ Dev(p) \notin marked /\ Goes(p, "probe", "look")
     \/ ~AllLive /\ Goes(p, "probe", "lock")
  /\ UNCHANGED <<checks, table, mounted, altf, user>>

\* What is left of a check that died is swept by one instance at a time.
LockFsck(p) ==
  /\ Goes(p, "lock", "sweep")
  /\ ~fsckLock /\ fsckLock' = TRUE
  /\ UNCHANGED <<marked, pid, led, table, mounted, altf, user>>

Sweep(p) ==
  /\ Goes(p, "sweep", "mark")
  /\ marked' = {} /\ pid' = [d \in Devs |-> None]
  /\ UNCHANGED <<fsckLock, led, table, mounted, altf, user>>

------------------------------------------------------------------------------
(* hot_aux.sh: fsck                                                         *)

Mark(p) ==
  /\ Goes(p, "mark", "pid")
  /\ marked' = marked \cup {Dev(p)}
  /\ UNCHANGED <<pid, fsckLock, led, table, mounted, altf, user>>

WritePid(p) ==
  /\ Goes(p, "pid", "unlock")
  /\ pid' = [pid EXCEPT ![Dev(p)] = p]
  /\ UNCHANGED <<marked, fsckLock, led, table, mounted, altf, user>>

\* Mutant of UnlockFsck: the lock is left.
UnlockFsckForgotten(p) ==
  /\ Goes(p, "unlock", "beat")
  /\ UNCHANGED <<checks, table, mounted, altf, user>>

\* Whoever made the lock directory, it is removed.
UnlockFsck(p) ==
  /\ Goes(p, "unlock", "beat")
  /\ fsckLock' = FALSE
  /\ UNCHANGED <<marked, pid, led, table, mounted, altf, user>>

Beat(p) ==
  /\ Goes(p, "beat", "fsck")
  /\ led' = "heartbeat"
  /\ UNCHANGED <<marked, pid, fsckLock, table, mounted, altf, user>>

\* Fsck runs for minutes in the memory of a small box: it may be killed.
Crash(p) ==
  /\ Goes(p, "fsck", "dead")
  /\ Cardinality({q \in Procs: pc[q] = "dead"}) < MaxCrashes
  /\ UNCHANGED <<checks, table, mounted, altf, user>>

FsckEnds(p) ==
  /\ Goes(p, "fsck", "dark")
  /\ marked' = marked \ {Dev(p)} /\ pid' = [pid EXCEPT ![Dev(p)] = None]
  /\ UNCHANGED <<fsckLock, led, table, mounted, altf, user>>

\* Mutant of Dark: the files are looked for when there is one.
DarkIfFiles(p) ==
  /\ Goes(p, "dark", "list")
  /\ led' = IF AnyCheckFile THEN None ELSE led
  /\ UNCHANGED <<marked, pid, fsckLock, table, mounted, altf, user>>

Dark(p) ==
  /\ Goes(p, "dark", "list")
  /\ led' = IF AnyCheckFile THEN led ELSE None
  /\ UNCHANGED <<marked, pid, fsckLock, table, mounted, altf, user>>

------------------------------------------------------------------------------
(* hot_aux.sh: /etc/fstab                                                   *)

\* Mutant of LockFstab: sed -i without the lock.
LockFstabNot(p) ==
  /\ Goes(p, "list", "rename")
  /\ copy' = [copy EXCEPT ![p] = fstab \ {Dev(p)}]
  /\ UNCHANGED <<fstab, fstabLock, checks, mounted, altf, user>>

\* The lock, and sed -i's reading of the table.
LockFstab(p) ==
  /\ Goes(p, "list", "rename")
  /\ ~fstabLock /\ fstabLock' = TRUE
  /\ copy' = [copy EXCEPT ![p] = fstab \ {Dev(p)}]
  /\ UNCHANGED <<fstab, checks, mounted, altf, user>>

RenameFstab(p) ==
  /\ Goes(p, "rename", "append")
  /\ fstab' = copy[p] /\ copy' = [copy EXCEPT ![p] = {}]
  /\ UNCHANGED <<fstabLock, checks, mounted, altf, user>>

\* echo >>, and the release of the lock.
AppendFstab(p) ==
  /\ Goes(p, "append", "mount")
  /\ fstab' = fstab \cup {Dev(p)} /\ fstabLock' = FALSE
  /\ UNCHANGED <<copy, checks, mounted, altf, user>>

\* mount with no more than the device finds the rest in the table, or fails.
Mount(p) ==
  /\ Goes(p, "mount", "mounted")
  /\ mounted' = mounted \cup ({Dev(p)} \cap fstab)
  /\ UNCHANGED <<checks, table, altf, user>>

------------------------------------------------------------------------------
(* hot_aux.sh: start_altf_dir                                               *)

MayStartAltF(p) == Dev(p) \in (AltF \cap mounted) \ Broken /\ link = None

FindAltF(p) ==
  /\ \/ MayStartAltF(p) /\ Goes(p, "mounted", "link")
     \/ ~MayStartAltF(p) /\ Goes(p, "mounted", "done")
  /\ UNCHANGED <<checks, table, mounted, altf, user>>

\* ln -s makes no second /Alt-F: its link goes into the directory of the first.
LinkAltF(p) ==
  /\ Goes(p, "link", "aufs")
  /\ link' = IF link = None THEN Dev(p) ELSE link
  /\ UNCHANGED <<branches, checks, table, mounted, user>>

\* Mutant of Aufs: the branch is the partition's own directory.
AufsOwn(p) ==
  /\ Goes(p, "aufs", "done")
  /\ branches' = branches \cup {Dev(p)}
  /\ UNCHANGED <<link, checks, table, mounted, user>>

\* aufs.sh -m: the branch is the directory the link points to, if it is none yet. If
\* the remount fails the link stays.
Aufs(p) ==
  /\ Goes(p, "aufs", "done")
  /\ branches' \in {branches, branches \cup ({link} \ {None})}
  /\ UNCHANGED <<link, checks, table, mounted, user>>

------------------------------------------------------------------------------
(* eject and hot.sh's remove_partition                                      *)

\* A partition that is not mounted is not in use: eject does nothing.
Eject(d) ==
  /\ eject = "idle" /\ d \in mounted
  /\ EjectAnytime \/ \A p \in Procs: ~Live(p)
  /\ MaxEjects = 1 /\ target = None
  /\ eject' = "altf" /\ target' = d
  /\ UNCHANGED <<pc, checks, table, mounted, altf, ejected>>

\* The branch is removed if it is one and not busy, else eject gives up.
EjectAltF ==
  /\ eject = "altf"
  /\ \/ link # target /\ eject' = "umount" /\ UNCHANGED branches
     \/ /\ link = target /\ target \in branches
        /\ branches' = branches \ {target} /\ eject' = "unlink"
     \/ link = target /\ eject' = "failed" /\ UNCHANGED branches
  /\ UNCHANGED <<pc, checks, table, mounted, link, target, ejected>>

EjectUnlink ==
  /\ eject = "unlink" /\ eject' = "umount"
  /\ link' = None
  /\ UNCHANGED <<pc, checks, table, mounted, branches, target, ejected>>

EjectUmount ==
  /\ eject = "umount"
  /\ \/ /\ eject' = "strip"
        /\ mounted' = mounted \ {target} /\ ejected' = ejected \cup {target}
     \/ eject' = "failed" /\ UNCHANGED <<mounted, ejected>>
  /\ UNCHANGED <<pc, checks, table, altf, target>>

\* sed -i, with no lock: its reading of the table and its renaming.
EjectStrips ==
  /\ eject = "strip" /\ eject' = "rename"
  /\ copy' = [copy EXCEPT ![Ejector] = fstab \ {target}]
  /\ UNCHANGED <<pc, checks, fstab, fstabLock, mounted, altf, target, ejected>>

EjectRenames ==
  /\ eject = "rename" /\ eject' = "done"
  /\ fstab' = copy[Ejector] /\ copy' = [copy EXCEPT ![Ejector] = {}]
  /\ UNCHANGED <<pc, checks, fstabLock, mounted, altf, target, ejected>>

------------------------------------------------------------------------------
Init ==
  /\ pc = [p \in Procs |-> "new"]
  /\ marked = {} /\ pid = [d \in Devs |-> None] /\ fsckLock = FALSE /\ led = None
  /\ fstab = {} /\ fstabLock = FALSE /\ copy = [p \in Procs \cup {Ejector} |-> {}]
  /\ mounted = {} /\ link = None /\ branches = {}
  /\ eject = "idle" /\ target = None /\ ejected = {}

\* What an instance does by itself once started.
HotAux(p) ==
  \/ Look(p) \/ Probe(p) \/ LockFsck(p) \/ Sweep(p)
  \/ Mark(p) \/ WritePid(p) \/ UnlockFsck(p) \/ Beat(p) \/ FsckEnds(p) \/ Dark(p)
  \/ LockFstab(p) \/ RenameFstab(p) \/ AppendFstab(p) \/ Mount(p)
  \/ FindAltF(p) \/ LinkAltF(p) \/ Aufs(p)

RemovePartition ==
  EjectAltF \/ EjectUnlink \/ EjectUmount \/ EjectStrips \/ EjectRenames

Next ==
  \/ \E p \in Procs: Start(p) \/ HotAux(p) \/ Crash(p)
  \/ RemovePartition \/ \E d \in Devs: Eject(d)

Spec == Init /\ [][Next]_vars

\* The scheduler runs every script; a sleep between two tries gives way to the
\* others but not for ever.
FairSpec == Spec /\ \A p \in Procs: WF_vars(HotAux(p))

------------------------------------------------------------------------------
Places == {"new", "look", "probe", "lock", "sweep", "mark", "pid", "unlock", "beat",
           "fsck", "dark", "list", "rename", "append", "mount", "mounted", "link",
           "aufs", "done", "duplicate", "dead"}

TypeOK ==
  /\ pc \in [Procs -> Places]
  /\ marked \subseteq Devs /\ pid \in [Devs -> Procs \cup {None}]
  /\ fsckLock \in BOOLEAN /\ led \in {None, "heartbeat"}
  /\ fstab \subseteq Devs /\ fstabLock \in BOOLEAN
  /\ copy \in [Procs \cup {Ejector} -> SUBSET Devs]
  /\ mounted \subseteq Devs
  /\ link \in Devs \cup {None} /\ branches \subseteq Devs
  /\ eject \in {"idle", "altf", "unlink", "umount", "strip", "rename",
                 "failed", "done"}
  /\ target \in Devs \cup {None} /\ ejected \subseteq Devs
  /\ eject # "idle" => target # None

\* A partition whose instances have ended is mounted, unless it was ejected: no
\* other instance's edit of /etc/fstab loses its entry before it is mounted.
Settled ==
  \A d \in Devs \ (ejected \cup {target}):
    (/\ \E p \in Procs: Dev(p) = d /\ pc[p] = "done"
     /\ \A p \in Procs: Dev(p) = d => ~Live(p)) => d \in mounted

\* Every instance ends, whatever the others do and one dying in its fsck: no lock
\* directory and no left-over mark stops it for ever.
EveryoneEnds == \A p \in Procs: (pc[p] = "look") ~> ~Live(p)

\* "at what time the blue power leds stops blinking": when all checks are over
\* and none has died, the led does not blink (README.INSTALL).
QuietIsDark == (\A p \in Procs: ~Live(p) /\ pc[p] # "dead") => led = None

\* The root's writable branch is the directory /Alt-F points to, and one only,
\* though two disks with an Alt-F directory may race for the link.
BranchIsLink == branches \subseteq {link}
==============================================================================
