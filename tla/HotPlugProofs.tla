---------------------------- MODULE HotPlugProofs ----------------------------
(***************************************************************************)
(* Proofs about HotPlug: types, the power led, and, for boxes where nobody *)
(* ejects while a partition is being added, the branch of the root and     *)
(* that no edit of /etc/fstab loses another one's entry.                   *)
(***************************************************************************)
EXTENDS HotPlug, TLAPS

USE DEF None, Ejector

LEMMA TypeInit == Init => TypeOK
BY DevOfAssumption, NamesAssumption DEF Init, TypeOK, Places

\* The instances' own steps change no variable's type.
LEMMA TypeHotAux ==
  ASSUME TypeOK, NEW p \in Procs, Start(p) \/ HotAux(p) \/ Crash(p)
  PROVE  TypeOK'
<1>0. Dev(p) \in Devs
  BY DevOfAssumption DEF Dev
<1>1. CASE Start(p)
  BY <1>0, <1>1 DEF TypeOK, Start, Goes, Places, checks, table, altf
<1>2. CASE Look(p) \/ Probe(p) \/ LockFsck(p) \/ Sweep(p)
  BY <1>2 DEF TypeOK, Look, Probe, LockFsck, Sweep, Goes, Places, checks, table, altf, user
<1>3. CASE Mark(p) \/ UnlockFsck(p) \/ Beat(p)
  BY <1>0, <1>3 DEF TypeOK, Mark, UnlockFsck, Beat, Goes, Places, table, altf, user
<1>7. CASE WritePid(p)
  BY <1>0, <1>7 DEF TypeOK, WritePid, Goes, Places, table, altf, user
<1>4. CASE Crash(p) \/ FsckEnds(p) \/ Dark(p)
  BY <1>0, <1>4 DEF TypeOK, Crash, FsckEnds, Dark, Goes, Places, checks, table, altf, user
<1>5. CASE LockFstab(p) \/ RenameFstab(p)
  <2>1. pc' \in [Procs -> Places] /\ copy' \in [Procs \cup {Ejector} -> SUBSET Devs]
    BY <1>0, <1>5 DEF TypeOK, LockFstab, RenameFstab, Goes, Places
  <2> QED
    BY <1>5, <2>1 DEF TypeOK, LockFstab, RenameFstab, checks, altf, user
<1>8. CASE AppendFstab(p) \/ Mount(p)
  BY <1>0, <1>8 DEF TypeOK, AppendFstab, Mount, Goes, Places, checks, table, altf, user
<1>6. CASE FindAltF(p) \/ LinkAltF(p) \/ Aufs(p)
  BY <1>0, <1>6 DEF TypeOK, FindAltF, LinkAltF, Aufs, Goes, Places, checks, table, altf, user
<1> QED
  BY <1>1, <1>2, <1>3, <1>4, <1>5, <1>6, <1>7, <1>8 DEF HotAux

LEMMA TypeUser ==
  ASSUME TypeOK, RemovePartition \/ \E d \in Devs: Eject(d)
  PROVE  TypeOK'
<1> USE DEF TypeOK
<1>1. CASE EjectAltF
  <2>1. branches' \subseteq Devs
    BY <1>1 DEF EjectAltF
  <2> QED
    BY <1>1, <2>1 DEF EjectAltF, checks, table
<1>5. CASE EjectUnlink
  BY <1>5 DEF EjectUnlink, checks, table
<1>4. CASE EjectUmount
  <2>1. mounted' \subseteq Devs /\ ejected' \subseteq Devs
    BY <1>4 DEF EjectUmount
  <2> QED
    BY <1>4, <2>1 DEF EjectUmount, checks, table, altf
<1>2. CASE EjectStrips \/ EjectRenames
  <2>1. copy' \in [Procs \cup {Ejector} -> SUBSET Devs] /\ fstab' \subseteq Devs
    BY <1>2 DEF EjectStrips, EjectRenames
  <2> QED
    BY <1>2, <2>1 DEF EjectStrips, EjectRenames, checks, altf
<1>3. ASSUME NEW d \in Devs, Eject(d) PROVE TypeOK'
  BY <1>3, NamesAssumption DEF Eject, checks, table, altf
<1> QED
  BY <1>1, <1>2, <1>3, <1>4, <1>5 DEF RemovePartition

\* Every variable keeps its type, for all partitions, instances and bounds.
THEOREM TypeCorrect == Spec => []TypeOK
<1>1. TypeOK /\ [Next]_vars => TypeOK'
  <2>1. TypeOK /\ UNCHANGED vars => TypeOK'
    BY DEF TypeOK, vars, checks, table, altf, user
  <2> QED
    BY <2>1, TypeHotAux, TypeUser DEF Next
<1> QED
  BY <1>1, TypeInit, PTL DEF Spec
------------------------------------------------------------------------------
(* The entries of /etc/fstab                                                *)

Listing == {"rename", "append"}
Mounts == {"append", "mount"}
After == {"mounted", "link", "aufs", "done"}
Twin(p, q) == Dev(q) = Dev(p)

\* The holder of the lock is the only instance between its reading of the table and
\* the entry it appends, so what it is about to rename over the table is the table
\* without its own partition.
LockedOut ==
  \A p \in Procs: pc[p] \in Listing =>
    /\ fstabLock
    /\ \A q \in Procs: pc[q] \in Listing => q = p
    /\ pc[p] = "rename" => copy[p] = fstab \ {Dev(p)}

\* A partition to be mounted is listed, unless another instance of it is about to
\* list it again; one whose mount has failed has such an instance.
Listed ==
  \A p \in Procs: pc[p] = "mount" /\ Dev(p) # target =>
    Dev(p) \in fstab \/ \E q \in Procs: Twin(p, q) /\ pc[q] = "append"
Followed ==
  \A p \in Procs: pc[p] \in After /\ Dev(p) # target =>
    Dev(p) \in mounted \/ \E q \in Procs: Twin(p, q) /\ pc[q] \in Mounts

\* Eject edits the table while no instance does.
Alone ==
  /\ Ejecting => \A p \in Procs: ~Live(p)
  /\ eject = "rename" => copy[Ejector] = fstab \ {target}

TableInv == TypeOK /\ LockedOut /\ Listed /\ Followed /\ Alone

\* A partition announced again starts afresh.
LEMMA TableStart ==
  ASSUME TableInv, ~EjectAnytime, NEW p \in Procs, Start(p)
  PROVE  TableInv'
<1>1. TypeOK'
  BY TypeHotAux DEF TableInv
<1>2. ~Ejecting /\ eject' = eject
  BY DEF Start
<1> QED
  BY <1>1, <1>2 DEF TableInv, TypeOK, LockedOut, Listed, Followed, Alone, Start, Goes,
    Listing, Mounts, After, Twin, Dev, Live, Ejecting, checks, table

\* Up to its place in the queue for the lock an instance edits no table.
LEMMA TableChecking ==
  ASSUME TableInv, NEW p \in Procs,
         \/ Look(p) \/ Probe(p) \/ LockFsck(p) \/ Sweep(p)
         \/ Mark(p) \/ WritePid(p) \/ UnlockFsck(p) \/ Beat(p)
         \/ FsckEnds(p) \/ Dark(p) \/ Crash(p)
  PROVE  TableInv'
<1>1. TypeOK'
  BY TypeHotAux DEF TableInv, HotAux
<1>2. PICK to \in Places: pc' = [pc EXCEPT ![p] = to]
                         /\ to \notin Listing \cup Mounts \cup After
  BY DEF Look, Probe, LockFsck, Sweep, Mark, WritePid, UnlockFsck, Beat, FsckEnds,
    Dark, Crash, Goes, Places, Listing, Mounts, After
<1>3. Live(p) /\ pc[p] \notin Listing \cup Mounts \cup After
  BY DEF Look, Probe, LockFsck, Sweep, Mark, WritePid, UnlockFsck, Beat, FsckEnds,
    Dark, Crash, Goes, Live, Listing, Mounts, After
<1>4. UNCHANGED <<fstab, fstabLock, copy, mounted, eject, target>>
  BY DEF Look, Probe, LockFsck, Sweep, Mark, WritePid, UnlockFsck, Beat, FsckEnds,
    Dark, Crash, user, table
<1>5. \A q \in Procs: pc'[q] = IF q = p THEN to ELSE pc[q]
  BY <1>2 DEF TableInv, TypeOK
<1> HIDE DEF None, Ejector
<1>6. LockedOut'
  BY <1>2, <1>4, <1>5 DEF TableInv, LockedOut, Dev, Listing
<1>7. Listed' /\ Followed'
  BY <1>2, <1>3, <1>4, <1>5 DEF TableInv, Listed, Followed, Twin, Dev, Mounts, After
<1>8. Alone'
  BY <1>3, <1>4 DEF TableInv, Alone, Ejecting
<1> QED
  BY <1>1, <1>6, <1>7, <1>8 DEF TableInv

\* Only the holder of the lock changes the table, and no mount is lost.
LEMMA TableListing ==
  ASSUME TableInv, NEW p \in Procs,
         LockFstab(p) \/ RenameFstab(p) \/ AppendFstab(p) \/ Mount(p)
  PROVE  TableInv'
<1>1. TypeOK'
  BY TypeHotAux DEF TableInv, HotAux
<1>2. Live(p) /\ Ejector # p
  BY NamesAssumption DEF LockFstab, RenameFstab, AppendFstab, Mount, Goes, Live
<1>3. ~Ejecting /\ ~Ejecting'
  BY <1>2 DEF TableInv, Alone, LockFstab, RenameFstab, AppendFstab, Mount, user, Ejecting
<1>4. Alone'
  BY <1>3 DEF Alone, Ejecting
<1>5. CASE LockFstab(p)
  <2>1. pc[p] = "list" /\ \A q \in Procs: pc'[q] = IF q = p THEN "rename" ELSE pc[q]
    BY <1>5 DEF TableInv, TypeOK, LockFstab, Goes
  <2>2. copy'[p] = fstab \ {Dev(p)}
    BY <1>5 DEF TableInv, TypeOK, LockFstab
  <2>3. LockedOut'
    BY <1>5, <2>1, <2>2 DEF TableInv, LockedOut, LockFstab, Listing, Dev
  <2>4. Listed' /\ Followed'
    BY <1>5, <2>1 DEF TableInv, Listed, Followed, LockFstab, Mounts, After, Twin, Dev, user
  <2> QED
    BY <1>1, <1>4, <2>3, <2>4 DEF TableInv
<1>6. CASE RenameFstab(p)
  <2>1. pc[p] = "rename" /\ \A q \in Procs: pc'[q] = IF q = p THEN "append" ELSE pc[q]
    BY <1>6 DEF TableInv, TypeOK, RenameFstab, Goes
  <2>2. fstab' = fstab \ {Dev(p)} /\ UNCHANGED <<fstabLock, mounted, target>>
    BY <1>6, <2>1 DEF TableInv, LockedOut, RenameFstab, Listing, user
  <2>3. LockedOut'
    BY <2>1, <2>2 DEF TableInv, LockedOut, Listing
  <2>4. Listed' /\ Followed'
    BY <2>1, <2>2 DEF TableInv, Listed, Followed, Mounts, After, Twin, Dev
  <2> QED
    BY <1>1, <1>4, <2>3, <2>4 DEF TableInv
<1>7. CASE AppendFstab(p)
  <2>1. pc[p] = "append" /\ \A q \in Procs: pc'[q] = IF q = p THEN "mount" ELSE pc[q]
    BY <1>7 DEF TableInv, TypeOK, AppendFstab, Goes
  <2>2. fstab' = fstab \cup {Dev(p)} /\ UNCHANGED <<mounted, target>>
    BY <1>7 DEF AppendFstab, user
  <2>3. LockedOut'
    BY <2>1 DEF TableInv, LockedOut, Listing
  <2>4. Listed' /\ Followed'
    BY <2>1, <2>2 DEF TableInv, Listed, Followed, Mounts, After, Twin, Dev
  <2> QED
    BY <1>1, <1>4, <2>3, <2>4 DEF TableInv
<1>8. CASE Mount(p)
  <2>1. pc[p] = "mount" /\ \A q \in Procs: pc'[q] = IF q = p THEN "mounted" ELSE pc[q]
    BY <1>8 DEF TableInv, TypeOK, Mount, Goes
  <2>2. /\ mounted' = mounted \cup ({Dev(p)} \cap fstab)
        /\ UNCHANGED <<fstab, fstabLock, copy, target>>
    BY <1>8 DEF Mount, table, user
  <2>3. LockedOut'
    BY <2>1, <2>2 DEF TableInv, LockedOut, Listing, Dev
  <2>4. Listed'
    BY <2>1, <2>2 DEF TableInv, Listed, Twin, Dev
  <2>5. Followed'
    BY <2>1, <2>2 DEF TableInv, Listed, Followed, Mounts, After, Twin, Dev
  <2> QED
    BY <1>1, <1>4, <2>3, <2>4, <2>5 DEF TableInv
<1> QED
  BY <1>5, <1>6, <1>7, <1>8

\* A mounted partition's further steps edit no table.
LEMMA TableAfter ==
  ASSUME TableInv, NEW p \in Procs, FindAltF(p) \/ LinkAltF(p) \/ Aufs(p)
  PROVE  TableInv'
<1>1. TypeOK'
  BY TypeHotAux DEF TableInv, HotAux
<1>2. PICK to \in After: pc' = [pc EXCEPT ![p] = to]
  BY DEF FindAltF, LinkAltF, Aufs, Goes, After
<1>3. Live(p) /\ pc[p] \in After
  BY DEF FindAltF, LinkAltF, Aufs, Goes, Live, After
<1>4. UNCHANGED <<fstab, fstabLock, copy, mounted, eject, target>>
  BY DEF FindAltF, LinkAltF, Aufs, user, table
<1>5. \A q \in Procs: pc'[q] = IF q = p THEN to ELSE pc[q]
  BY <1>2 DEF TableInv, TypeOK
<1> HIDE DEF None, Ejector
<1>6. LockedOut'
  BY <1>2, <1>4, <1>5 DEF TableInv, LockedOut, Dev, Listing, After
<1>7. Listed' /\ Followed'
  BY <1>2, <1>3, <1>4, <1>5 DEF TableInv, Listed, Followed, Twin, Dev, Mounts, After
<1>8. Alone'
  BY <1>3, <1>4 DEF TableInv, Alone, Ejecting
<1> QED
  BY <1>1, <1>6, <1>7, <1>8 DEF TableInv

\* Eject takes out no partition but its own.
LEMMA TableEject ==
  ASSUME TableInv, ~EjectAnytime, RemovePartition \/ \E d \in Devs: Eject(d)
  PROVE  TableInv'
<1>1. TypeOK'
  BY TypeUser DEF TableInv
<1>2. pc' = pc /\ \A p \in Procs: ~Live(p)
  BY DEF TableInv, Alone, Ejecting, RemovePartition, EjectAltF, EjectUnlink,
    EjectUmount, EjectStrips, EjectRenames, Eject
<1>3. \A p \in Procs: pc[p] \notin Listing \cup Mounts
  BY <1>2 DEF Live, Listing, Mounts
<1>4. LockedOut' /\ Listed'
  BY <1>2, <1>3 DEF LockedOut, Listed, Listing, Mounts
<1>5. \A d \in Devs \ {target'}: d # target /\ (d \in mounted => d \in mounted')
  BY NamesAssumption DEF TableInv, TypeOK, RemovePartition, EjectAltF, EjectUnlink,
    EjectUmount, EjectStrips, EjectRenames, Eject
<1>6. Followed'
  <2>1. \A p \in Procs: Dev(p) \in Devs
    BY DevOfAssumption DEF Dev
  <2> QED
    BY <1>2, <1>3, <1>5, <2>1 DEF TableInv, Followed, Mounts, Twin, Dev
<1>7. Alone'
  <2>1. \A p \in Procs: ~Live(p)'
    BY <1>2 DEF Live
  <2>2. (eject = "rename" => copy[Ejector] = fstab \ {target})'
    BY DEF TableInv, TypeOK, RemovePartition, EjectAltF, EjectUnlink, EjectUmount,
      EjectStrips, EjectRenames, Eject
  <2> QED
    BY <2>1, <2>2 DEF Alone
<1> QED
  BY <1>1, <1>4, <1>6, <1>7 DEF TableInv

\* If no one ejects while a partition is being added, what an instance or eject is
\* about to rename over the table loses no entry.
LEMMA TableAlways == ASSUME ~EjectAnytime PROVE Spec => []TableInv
<1>1. Init => TableInv
  BY TypeInit DEF Init, TableInv, LockedOut, Listed, Followed, Alone, Listing, After,
    Ejecting
<1>2. TableInv /\ [Next]_vars => TableInv'
  <2> SUFFICES ASSUME TableInv, [Next]_vars PROVE TableInv'
    OBVIOUS
  <2>1. ASSUME NEW p \in Procs, HotAux(p) \/ Crash(p) PROVE TableInv'
    BY <2>1, TableChecking, TableListing, TableAfter DEF HotAux
  <2>2. CASE UNCHANGED vars
    BY <2>2 DEF vars, checks, table, altf, user, TableInv, TypeOK, LockedOut, Listed,
      Followed, Alone, Live, Ejecting, Dev, Twin
  <2> QED
    BY <2>1, <2>2, TableStart, TableEject DEF Next
<1> QED
  BY <1>1, <1>2, PTL DEF Spec

\* If no one ejects while a partition is being added, every partition whose
\* instances have ended is mounted: the lock of /etc/fstab is enough, for any number
\* of partitions and instances, and with instances killed during their check.
THEOREM NoEntryLost == ASSUME ~EjectAnytime PROVE Spec => []Settled
<1>1. TableInv => Settled
  <2> SUFFICES ASSUME TableInv, NEW d \in Devs \ (ejected \cup {target}),
                      NEW p \in Procs, Dev(p) = d, pc[p] = "done",
                      \A q \in Procs: Dev(q) = d => ~Live(q)
               PROVE  d \in mounted
    BY DEF Settled
  <2>1. \A q \in Procs: Dev(q) = d => pc[q] \notin Mounts
    BY DEF Live, Mounts
  <2> QED
    BY <2>1 DEF TableInv, Followed, After, Twin
<1> QED
  BY <1>1, TableAlways, PTL

------------------------------------------------------------------------------
(* The branch of the root                                                   *)

\* The link is removed after its branch, and none is made while there is one.
BranchInv ==
  /\ branches \subseteq {link} \ {None}
  /\ eject = "unlink" => branches = {}

\* If no one ejects while a partition is being added, at most one disk with an Alt-F
\* directory is a branch of the root, and it is the one /Alt-F points to, however
\* many such disks are plugged.
THEOREM BranchFollowsLink == ASSUME ~EjectAnytime PROVE Spec => []BranchIsLink
<1>1. Init => BranchInv
  BY DEF Init, BranchInv
<1>2. BranchInv /\ TableInv /\ [Next]_vars => BranchInv'
  <2> SUFFICES ASSUME BranchInv, TableInv, [Next]_vars PROVE BranchInv'
    OBVIOUS
  <2>1. ASSUME NEW p \in Procs, LinkAltF(p) \/ Aufs(p) PROVE BranchInv'
    <3>1. eject # "unlink" /\ eject' = eject
      BY <2>1 DEF LinkAltF, Aufs, Goes, TableInv, Alone, Live, Ejecting, user
    <3> QED
      BY <2>1, <3>1 DEF LinkAltF, Aufs, BranchInv
  <2>2. CASE EjectAltF
    BY <2>2 DEF EjectAltF, BranchInv
  <2>3. CASE EjectUnlink
    BY <2>3 DEF EjectUnlink, BranchInv
  <2>4. CASE UNCHANGED altf /\ (eject' = eject \/ eject' # "unlink")
    BY <2>4 DEF altf, BranchInv
  <2>5. ASSUME NEW p \in Procs, Start(p) \/ HotAux(p) \/ Crash(p)
        PROVE  LinkAltF(p) \/ Aufs(p) \/ (UNCHANGED altf /\ eject' = eject)
    BY <2>5 DEF Start, HotAux, Crash, Look, Probe, LockFsck, Sweep, Mark, WritePid,
      UnlockFsck, Beat, FsckEnds, Dark, LockFstab, RenameFstab, AppendFstab, Mount,
      FindAltF, user
  <2>6. ASSUME NEW d \in Devs, Eject(d) PROVE UNCHANGED altf /\ eject' # "unlink"
    BY <2>6 DEF Eject
  <2>7. EjectUmount \/ EjectStrips \/ EjectRenames
          => UNCHANGED altf /\ eject' # "unlink"
    BY DEF EjectUmount, EjectStrips, EjectRenames
  <2>8. UNCHANGED vars => UNCHANGED altf /\ eject' = eject
    BY DEF vars, user
  <2> QED
    BY <2>1, <2>2, <2>3, <2>4, <2>5, <2>6, <2>7, <2>8 DEF Next, RemovePartition
<1>3. BranchInv => BranchIsLink
  BY DEF BranchInv, BranchIsLink
<1> QED
  BY <1>1, <1>2, <1>3, TableAlways, PTL DEF Spec
------------------------------------------------------------------------------
(* The power led                                                            *)

\* Who has made the files of its check and not removed them, alive or dead.
Checking == {"pid", "unlock", "beat", "fsck", "dead"}

\* Every mark and every pid file is of a partition that some instance checks: the
\* first of two that ends a check of it removes both's, and sweeping removes all.
FilesOwned ==
  \A d \in Devs: d \in marked \/ pid[d] # None =>
    \E q \in Procs: Dev(q) = d /\ pc[q] \in Checking

\* The led is left blinking only by one that saw the files of another.
LedOwned == led # None => \E q \in Procs: pc[q] \in Checking \cup {"dark"}

LedInv == FilesOwned /\ LedOwned

\* An instance that is not at its check, and does not touch its files, keeps them.
LEMMA LedAside ==
  ASSUME TypeOK, LedInv, NEW p \in Procs, NEW from \in Places \ (Checking \cup {"dark"}), NEW to \in Places,
         Goes(p, from, to), UNCHANGED <<marked, pid, led>>
  PROVE  LedInv'
BY DEF LedInv, FilesOwned, LedOwned, Goes, TypeOK, Dev

LEMMA LedChecking ==
  ASSUME TypeOK, LedInv, NEW p \in Procs,
         \/ Sweep(p) \/ Mark(p) \/ WritePid(p) \/ UnlockFsck(p) \/ Beat(p) \/ Crash(p)
  PROVE  LedInv'
<1> USE DEF LedInv, FilesOwned, LedOwned, Goes, TypeOK, Dev, Checking
<1>0. DevOf[p] \in Devs
  BY DevOfAssumption
<1>1. CASE Sweep(p)
  BY <1>1 DEF Sweep
<1>2. CASE Mark(p)
  BY <1>0, <1>2 DEF Mark
<1>3. CASE WritePid(p)
  BY <1>0, <1>3 DEF WritePid
<1>4. CASE UnlockFsck(p)
  BY <1>4 DEF UnlockFsck
<1>5. CASE Beat(p)
  BY <1>5 DEF Beat
<1>6. CASE Crash(p)
  BY <1>6 DEF Crash, checks
<1> QED
  BY <1>1, <1>2, <1>3, <1>4, <1>5, <1>6

LEMMA LedEnds ==
  ASSUME TypeOK, LedInv, NEW p \in Procs, FsckEnds(p) \/ Dark(p)
  PROVE  LedInv'
<1> USE DEF LedInv, FilesOwned, LedOwned, Goes, TypeOK, Dev, Checking
<1>1. CASE FsckEnds(p)
  <2>1. \A d \in Devs: d \in marked' \/ pid'[d] # None => d # DevOf[p] /\ (d \in marked \/ pid[d] # None)
    BY <1>1, DevOfAssumption DEF FsckEnds
  <2>2. \A q \in Procs: q # p => pc'[q] = pc[q]
    BY <1>1 DEF FsckEnds
  <2>3. FilesOwned'
    BY <2>1, <2>2
  <2>4. LedOwned'
    BY <1>1 DEF FsckEnds
  <2> QED
    BY <2>3, <2>4
<1>2. CASE Dark(p)
  <2>1. \A q \in Procs: pc[q] \in Checking => pc'[q] = pc[q]
    BY <1>2 DEF Dark
  <2>2. UNCHANGED <<marked, pid>> /\ (AnyCheckFile \/ led' = None)
    BY <1>2 DEF Dark
  <2>3. FilesOwned'
    BY <2>1, <2>2
  <2>4. AnyCheckFile => \E d \in Devs: d \in marked \/ pid[d] # None
    BY DEF AnyCheckFile
  <2>5. LedOwned'
    BY <2>1, <2>2, <2>4
  <2> QED
    BY <2>3, <2>5
<1> QED
  BY <1>1, <1>2

LEMMA LedHotAux ==
  ASSUME TypeOK, LedInv, NEW p \in Procs, Start(p) \/ HotAux(p) \/ Crash(p)
  PROVE  LedInv'
<1>1. CASE Start(p) \/ Look(p) \/ Probe(p) \/ LockFsck(p)
  <2>1. /\ {"new", "look", "probe", "lock"} \subseteq Places \ (Checking \cup {"dark"})
        /\ {"look", "mark", "probe", "lock", "duplicate", "sweep"} \subseteq Places
    BY DEF Places, Checking
  <2>2. \E from \in {"new", "look", "probe", "lock"},
           to \in {"look", "mark", "probe", "lock", "duplicate", "sweep"}: Goes(p, from, to)
    BY <1>1 DEF Start, Look, Probe, LockFsck
  <2>3. UNCHANGED <<marked, pid, led>>
    BY <1>1 DEF Start, Look, Probe, LockFsck, checks
  <2> QED
    BY <2>1, <2>2, <2>3, LedAside
<1>2. CASE Sweep(p) \/ Mark(p) \/ WritePid(p) \/ UnlockFsck(p) \/ Beat(p) \/ Crash(p)
  BY <1>2, LedChecking
<1>3. CASE FsckEnds(p) \/ Dark(p)
  BY <1>3, LedEnds
<1>4. CASE LockFstab(p) \/ RenameFstab(p) \/ AppendFstab(p) \/ Mount(p)
           \/ FindAltF(p) \/ LinkAltF(p) \/ Aufs(p)
  <2>1. /\ {"list", "rename", "append", "mount", "mounted", "link", "aufs"}
             \subseteq Places \ (Checking \cup {"dark"})
        /\ {"rename", "append", "mount", "mounted", "link", "aufs", "done"} \subseteq Places
    BY DEF Places, Checking
  <2>2. \E from \in {"list", "rename", "append", "mount", "mounted", "link", "aufs"},
           to \in {"rename", "append", "mount", "mounted", "link", "aufs", "done"}: Goes(p, from, to)
    BY <1>4 DEF LockFstab, RenameFstab, AppendFstab, Mount, FindAltF, LinkAltF, Aufs
  <2>3. UNCHANGED <<marked, pid, led>>
    BY <1>4 DEF LockFstab, RenameFstab, AppendFstab, Mount, FindAltF, LinkAltF, Aufs, checks
  <2> QED
    BY <2>1, <2>2, <2>3, LedAside
<1> QED
  BY <1>1, <1>2, <1>3, <1>4 DEF HotAux

\* QuietIsDark (HotPlug.tla): when all instances of hot_aux.sh have ended, and none
\* was killed in its check, the power led has been set to none, for any partitions
\* and instances, however their checks overlap.
THEOREM LedGoesDark == Spec => []QuietIsDark
<1>1. Init => LedInv
  BY DEF Init, LedInv, FilesOwned, LedOwned
<1>2. TypeOK /\ LedInv /\ [Next]_vars => LedInv'
  <2>1. ASSUME UNCHANGED <<pc, checks>>, LedInv PROVE LedInv'
    BY <2>1 DEF LedInv, FilesOwned, LedOwned, checks
  <2>2. RemovePartition \/ (\E d \in Devs: Eject(d)) \/ UNCHANGED vars => UNCHANGED <<pc, checks>>
    BY DEF RemovePartition, EjectAltF, EjectUnlink, EjectUmount, EjectStrips, EjectRenames, Eject, vars
  <2> QED
    BY <2>1, <2>2, LedHotAux DEF Next
<1>3. LedInv => QuietIsDark
  BY DEF LedInv, LedOwned, QuietIsDark, Live, Checking
<1> QED
  BY <1>1, <1>2, <1>3, TypeCorrect, PTL DEF Spec
=============================================================================
