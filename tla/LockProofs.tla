----------------------------- MODULE LockProofs -----------------------------
(***************************************************************************)
(* The three locks made of files.  The temperature lock is a mutex, for    *)
(* any number of readers and writers, tries and processes that end outside *)
(* of it.  Of any number of daemons that find the same stale pid file, one *)
(* survives.  Any number of backups take turns, whoever is killed where,   *)
(* and so the rotation never removes the copy the next one is based on.    *)
(***************************************************************************)
EXTENDS MCLocks, Integers, FiniteSetTheorems, WellFoundedInduction, TLAPS

In(p) == pc[p] \in Inside
InsideSet == {p \in Procs: In(p)}

Places == Inside \cup {"idle", "wait", "inspect", "ended", "gaveup"}

Typed == pc \in [Procs -> Places] /\ left \in BOOLEAN

\* Until an owner ends inside, the directory and its one owner come and go
\* together, nobody is patient enough to look at the owner, and the pid file is
\* gone before the directory.
DirHasOwner ==
  ~left =>
    /\ \A p, q \in Procs: In(p) /\ In(q) => p = q
    /\ dir <=> \E p \in Procs: In(p)
    /\ \A p \in Procs: pc[p] # "inspect"
    /\ \A p \in Procs: pc[p] = "rmdir" => pid = NoPid

LEMMA TypedHolds == Spec => []Typed
<1>1. Init => Typed
  BY DEF Init, Typed, Places
<1>2. Typed /\ [Next]_vars => Typed'
  BY DEF Typed, Next, vars, Step, Mkdir, MkdirFails, Inspect, WritePid, Use, Write,
         UnlinkPid, Rmdir, Ends, Restarts, Goes, Places, Inside, Live, ended
<1>3. QED
  BY <1>1, <1>2, PTL DEF Spec

LEMMA DirHasOwnerStep ==
  ASSUME ~Stalls, Typed, DirHasOwner, [Next]_vars PROVE DirHasOwner'
<1> USE DEF In, Typed, Places, Inside, Goes
<1>1. ASSUME NEW p \in Procs, Mkdir(p) PROVE DirHasOwner'
  BY <1>1 DEF Mkdir, DirHasOwner, ended
<1>2. ASSUME NEW p \in Procs, MkdirFails(p) PROVE DirHasOwner'
  BY <1>2 DEF MkdirFails, Patient, DirHasOwner, ended
<1>3. ASSUME NEW p \in Procs, Inspect(p) PROVE DirHasOwner'
  BY <1>3 DEF Inspect, DirHasOwner, ended
<1>4. ASSUME NEW p \in Procs, WritePid(p) PROVE DirHasOwner'
  BY <1>4 DEF WritePid, DirHasOwner, ended
<1>5. ASSUME NEW p \in Procs, Use(p) PROVE DirHasOwner'
  BY <1>5 DEF Use, DirHasOwner, ended
<1>6. ASSUME NEW p \in Procs, Write(p) \/ UnlinkPid(p) PROVE DirHasOwner'
  BY <1>6 DEF Write, UnlinkPid, DirHasOwner, ended
<1>7. ASSUME NEW p \in Procs, Rmdir(p) PROVE DirHasOwner'
  BY <1>7 DEF Rmdir, DirHasOwner, ended
<1>8. ASSUME NEW p \in Procs, Ends(p) PROVE DirHasOwner'
  BY <1>8 DEF Ends, DirHasOwner, Live
<1>9. ASSUME NEW p \in Procs, Restarts(p) PROVE DirHasOwner'
  BY <1>9 DEF Restarts, DirHasOwner, ended
<1>10. CASE UNCHANGED vars
  BY <1>10 DEF vars, DirHasOwner, ended
<1>11. QED
  BY <1>1, <1>2, <1>3, <1>4, <1>5, <1>6, <1>7, <1>8, <1>9, <1>10 DEF Next, Step

\* One process changes its place: the set of those inside gains it, loses it or
\* is the same.
LEMMA SetFollowsPlace ==
  ASSUME Typed, NEW p \in Procs, NEW to \in Places, Goes(p, to)
  PROVE  InsideSet' = IF to \in Inside THEN InsideSet \cup {p} ELSE InsideSet \ {p}
BY DEF Typed, Goes, InsideSet, In

THEOREM TempLockIsMutex == ASSUME ~Stalls PROVE Spec => TempIsMutex
<1>1. Init => DirHasOwner
  BY DEF Init, DirHasOwner, In, Inside
<1>2. Init => Lock!Init
  BY DEF Init, Lock!Init, Inside
<1>3. ASSUME Typed, DirHasOwner, Next PROVE [Lock!Next]_(Lock!vars)
  <2> USE DEF Places, Inside
  <2>1. ASSUME NEW p \in Procs, Mkdir(p) PROVE Lock!Enter(p)
    <3>1. InsideSet' = InsideSet \cup {p}
      BY <1>3, <2>1, SetFollowsPlace DEF Mkdir
    <3>2. p \notin InsideSet /\ (left \/ InsideSet = {}) /\ left' = left
      BY <1>3, <2>1 DEF Mkdir, InsideSet, In, DirHasOwner, ended
    <3>3. QED
      BY <3>1, <3>2 DEF Lock!Enter, InsideSet, In
  <2>2. ASSUME NEW p \in Procs, Inspect(p) PROVE [Lock!Next]_(Lock!vars)
    <3>1. left /\ left' = left /\ p \notin InsideSet
      BY <1>3, <2>2 DEF Inspect, InsideSet, In, DirHasOwner, ended
    <3>2. InsideSet' = InsideSet \cup {p} \/ InsideSet' = InsideSet
      BY <1>3, <2>2, <3>1, SetFollowsPlace DEF Inspect
    <3>3. QED
      BY <3>1, <3>2 DEF Lock!Next, Lock!Enter, Lock!vars, InsideSet, In
  <2>3. ASSUME NEW p \in Procs, Rmdir(p) PROVE Lock!Leave(p)
    <3>1. InsideSet' = InsideSet \ {p} /\ p \in InsideSet /\ left' = left
      BY <1>3, <2>3, SetFollowsPlace DEF Rmdir, InsideSet, In, ended
    <3>2. QED
      BY <3>1 DEF Lock!Leave, InsideSet, In
  <2>4. ASSUME NEW p \in Procs, Ends(p) PROVE [Lock!Next]_(Lock!vars)
    <3>1. InsideSet' = InsideSet \ {p}
      BY <1>3, <2>4, SetFollowsPlace DEF Ends
    <3>2. CASE p \in InsideSet
      <4>1. left' = TRUE
        BY <2>4, <3>2 DEF Ends, InsideSet, In
      <4>2. QED
        BY <3>1, <3>2, <4>1 DEF Lock!Next, Lock!End, InsideSet, In
    <3>3. CASE p \notin InsideSet
      <4>1. left' = left
        BY <1>3, <2>4, <3>3 DEF Ends, InsideSet, In, Typed
      <4>2. QED
        BY <3>1, <3>3, <4>1 DEF Lock!vars, InsideSet, In
    <3>4. QED
      BY <3>2, <3>3
  <2>5. ASSUME NEW p \in Procs,
               MkdirFails(p) \/ WritePid(p) \/ Use(p) \/ Write(p) \/ UnlinkPid(p) \/ Restarts(p)
        PROVE UNCHANGED Lock!vars
    <3>1. left' = left
      BY <2>5 DEF MkdirFails, WritePid, Use, Write, UnlinkPid, Restarts, ended
    <3>2. InsideSet' = InsideSet
      BY <1>3, <2>5, SetFollowsPlace
         DEF MkdirFails, WritePid, Use, Write, UnlinkPid, Restarts, InsideSet, In
    <3>3. QED
      BY <3>1, <3>2 DEF Lock!vars, InsideSet, In
  <2>6. QED
    BY <1>3, <2>1, <2>2, <2>3, <2>4, <2>5 DEF Next, Step, Lock!Next
<1>4. DirHasOwner /\ Typed /\ [Next]_vars => DirHasOwner'
  BY DirHasOwnerStep
<1>5. UNCHANGED vars => UNCHANGED Lock!vars
  BY DEF vars, ended, Lock!vars
<1>6. QED
  BY <1>1, <1>2, <1>3, <1>4, <1>5, TypedHolds, PTL DEF Spec, TempIsMutex, Lock!Spec

LEMMA DirHasOwnerHolds == ASSUME ~Stalls PROVE Spec => []DirHasOwner
<1>1. Init => DirHasOwner
  BY DEF Init, DirHasOwner, In, Inside
<1>2. Typed /\ DirHasOwner /\ [Next]_vars => DirHasOwner'
  BY DirHasOwnerStep
<1>3. QED
  BY <1>1, <1>2, TypedHolds, PTL DEF Spec

\* What the mutex promises is what the directory gives: until an owner ends
\* inside, no two are in.
THEOREM TempLockExcludes == ASSUME ~Stalls PROVE Spec => []Lock!Exclusion
<1>1. DirHasOwner => Lock!Exclusion
  BY DEF DirHasOwner, Lock!Exclusion, In
<1>2. QED
  BY <1>1, DirHasOwnerHolds, PTL

\* The file is torn only while one that writes it is inside.
TornHasWriter == file = "torn" => left \/ \E p \in Procs : pc[p] = "write"

LEMMA TornStep ==
  ASSUME Typed, DirHasOwner, TornHasWriter, NoTornRead, [Next]_vars
  PROVE  TornHasWriter' /\ NoTornRead'
<1> USE DEF Typed, Places, Inside, Goes
<1>1. ASSUME NEW p \in Procs, Use(p) PROVE TornHasWriter' /\ NoTornRead'
  <2>1. CASE p \in Readers
    <3>1. file = "torn" => left
      BY <1>1 DEF Use, TornHasWriter, DirHasOwner, In
    <3>2. QED
      BY <1>1, <2>1, <3>1 DEF Use, TornHasWriter, NoTornRead, ended
  <2>2. CASE p \notin Readers
    BY <1>1, <2>2 DEF Use, TornHasWriter, NoTornRead, ended
  <2>3. QED
    BY <2>1, <2>2
<1>2. ASSUME NEW p \in Procs, Write(p) PROVE TornHasWriter' /\ NoTornRead'
  BY <1>2 DEF Write, TornHasWriter, NoTornRead, ended
<1>3. ASSUME NEW p \in Procs, Ends(p) PROVE TornHasWriter' /\ NoTornRead'
  BY <1>3 DEF Ends, TornHasWriter, NoTornRead
<1>4. ASSUME NEW p \in Procs, Mkdir(p) \/ MkdirFails(p) \/ Inspect(p) PROVE TornHasWriter' /\ NoTornRead'
  BY <1>4 DEF Mkdir, MkdirFails, Inspect, TornHasWriter, NoTornRead, ended
<1>5. ASSUME NEW p \in Procs, WritePid(p) \/ UnlinkPid(p) \/ Rmdir(p) \/ Restarts(p)
      PROVE  TornHasWriter' /\ NoTornRead'
  BY <1>5 DEF WritePid, UnlinkPid, Rmdir, Restarts, TornHasWriter, NoTornRead, ended
<1>6. CASE UNCHANGED vars
  BY <1>6 DEF vars, TornHasWriter, NoTornRead, ended
<1>7. QED
  BY <1>1, <1>2, <1>3, <1>4, <1>5, <1>6 DEF Next, Step

\* NoTornRead (TempLock.tla): read_temp never reads the file between the shell's
\* open, which empties it, and its write.
THEOREM TempIsNotTorn == ASSUME ~Stalls PROVE Spec => []NoTornRead
<1>1. Init => TornHasWriter /\ NoTornRead
  BY DEF Init, TornHasWriter, NoTornRead
<1>2. Typed /\ DirHasOwner /\ TornHasWriter /\ NoTornRead /\ [Next]_vars => TornHasWriter' /\ NoTornRead'
  BY TornStep
<1>3. QED
  BY <1>1, <1>2, TypedHolds, DirHasOwnerHolds, PTL DEF Spec

------------------------------------------------------------------------------
(* The pid file.                                                              *)

TypedDaemons ==
  /\ dfile \in Daemons \cup {Nobody} /\ named \in BOOLEAN
  /\ dat \in [Daemons -> {"none", "look", "open", "read", "probe", "unlink", "reopen",
                         "write", "runs", "killed", "ended"}]
  /\ seen \in [Daemons -> Daemons] /\ fresh \subseteq Daemons

\* The file is its creator's, who has it empty until he runs; who is read of has
\* run.
FileOfOne ==
  /\ dfile = Nobody => ~named
  /\ dfile # Nobody /\ named => dat[dfile] \in {"runs", "killed"}
  /\ dfile # Nobody /\ ~named => dat[dfile] \in {"write", "killed"}
  /\ \A d \in Daemons : dat[d] = "probe" => dat[seen[d]] \in {"runs", "killed"}

\* Who will run, or has left what ends all others: while there is no file one is
\* about to create it, and one that is stale will be removed by somebody.
\* Inductive, since a daemon that is killed empties fresh, and one that starts is
\* at "open".
SomeoneGoesOn ==
  fresh # {} =>
    \/ dfile = Nobody /\ \E d \in Daemons : dat[d] \in {"open", "reopen"}
    \/ \E d \in Daemons : dat[d] = "runs"
    \/ dfile # Nobody /\ dat[dfile] = "write"
    \/ dfile # Nobody /\ ~named /\ dat[dfile] = "killed"
    \/ /\ dfile # Nobody
       /\ \E d \in Daemons : \/ dat[d] \in {"open", "read", "unlink"}
                             \/ dat[d] = "probe" /\ dat[seen[d]] = "killed"

PidInv == TypedDaemons /\ FileOfOne /\ SomeoneGoesOn

LEMMA PidStep ==
  ASSUME PidInv, [Sysctrl!Next]_(Sysctrl!vars) PROVE PidInv'
<1> USE NobodyAssumption DEF PidInv, TypedDaemons, Sysctrl!Goes, Sysctrl!Alive, Sysctrl!In
<1>1. ASSUME NEW d \in Daemons, Sysctrl!Look(d) PROVE PidInv'
  BY <1>1 DEF Sysctrl!Look, FileOfOne, SomeoneGoesOn
<1>2. ASSUME NEW d \in Daemons, Sysctrl!Start(d) PROVE PidInv'
  BY <1>2 DEF Sysctrl!Start, FileOfOne, SomeoneGoesOn
<1>3. ASSUME NEW d \in Daemons, Sysctrl!Open(d) PROVE PidInv'
  <2>1. CASE dfile = Nobody
    <3>1. dfile' = d /\ named' = FALSE /\ dat' = [dat EXCEPT ![d] = "write"]
          /\ seen' = seen /\ fresh' = fresh
      BY <1>3, <2>1 DEF Sysctrl!Open, Sysctrl!Creates
    <3>2. TypedDaemons'
      BY <3>1
    <3>3. FileOfOne'
      BY <1>3, <3>1 DEF Sysctrl!Open, FileOfOne
    <3>4. SomeoneGoesOn'
      BY <3>1 DEF SomeoneGoesOn
    <3>5. QED
      BY <3>2, <3>3, <3>4
  <2>2. CASE dfile # Nobody
    <3>1. PICK to \in {"read", "ended"} :
            /\ dat' = [dat EXCEPT ![d] = to]
            /\ dat[d] = "open" => to = "read"
      BY <1>3, <2>2 DEF Sysctrl!Open
    <3>2. dfile' = dfile /\ named' = named /\ seen' = seen /\ fresh' = fresh
          /\ dat[d] \in {"open", "reopen"}
      BY <1>3, <2>2 DEF Sysctrl!Open
    <3>3. TypedDaemons'
      BY <3>1, <3>2
    <3>4. FileOfOne'
      BY <3>1, <3>2 DEF FileOfOne
    <3>5. SomeoneGoesOn'
      BY <2>2, <3>1, <3>2 DEF SomeoneGoesOn, FileOfOne
    <3>6. QED
      BY <3>3, <3>4, <3>5
  <2>3. QED
    BY <2>1, <2>2
<1>4. ASSUME NEW d \in Daemons, Sysctrl!Read(d) PROVE PidInv'
  BY <1>4 DEF Sysctrl!Read, FileOfOne, SomeoneGoesOn
<1>5. ASSUME NEW d \in Daemons, Sysctrl!Probe(d) PROVE PidInv'
  BY <1>5 DEF Sysctrl!Probe, FileOfOne, SomeoneGoesOn
<1>6. ASSUME NEW d \in Daemons, Sysctrl!Unlink(d) PROVE PidInv'
  <2>1. dfile' = Nobody /\ named' = FALSE /\ dat' = [dat EXCEPT ![d] = "reopen"]
        /\ seen' = seen /\ fresh' = fresh /\ dat[d] = "unlink"
    BY <1>6 DEF Sysctrl!Unlink
  <2>2. TypedDaemons'
    BY <2>1
  <2>3. FileOfOne'
    BY <2>1 DEF FileOfOne
  <2>4. SomeoneGoesOn'
    BY <2>1 DEF SomeoneGoesOn
  <2>5. QED
    BY <2>2, <2>3, <2>4
<1>7. ASSUME NEW d \in Daemons, Sysctrl!Write(d) PROVE PidInv'
  <2>1. dat' = [dat EXCEPT ![d] = "runs"] /\ dfile' = dfile /\ seen' = seen /\ fresh' = fresh
        /\ dat[d] = "write" /\ named' = (named \/ dfile = d)
    BY <1>7 DEF Sysctrl!Write
  <2>2. TypedDaemons'
    BY <2>1
  <2>3. FileOfOne'
    <3>1. dfile = Nobody => dfile # d
      OBVIOUS
    <3>2. CASE dfile = d
      BY <2>1, <3>2 DEF FileOfOne
    <3>3. CASE dfile # d
      <4>1. named' = named
        BY <2>1, <3>3
      <4>2. QED
        BY <2>1, <3>3, <4>1 DEF FileOfOne
    <3>4. QED
      BY <3>2, <3>3
  <2>4. SomeoneGoesOn'
    BY <2>1 DEF SomeoneGoesOn
  <2>5. QED
    BY <2>2, <2>3, <2>4
<1>8. ASSUME NEW d \in Daemons, Sysctrl!Kill(d) PROVE PidInv'
  BY <1>8 DEF Sysctrl!Kill, FileOfOne, SomeoneGoesOn
<1>9. CASE UNCHANGED Sysctrl!vars
  BY <1>9 DEF Sysctrl!vars, FileOfOne, SomeoneGoesOn
<1>10. QED
  BY <1>1, <1>2, <1>3, <1>4, <1>5, <1>6, <1>7, <1>8, <1>9 DEF Sysctrl!Next

\* OneSurvives (PidFile.tla): check_other_daemon lets one of them run, whatever
\* the order in which they look at the stale file, remove it and make theirs.
THEOREM SomeoneSurvives == Sysctrl!Spec => []OneSurvives
<1>1. Sysctrl!Init => PidInv
  BY NobodyAssumption DEF Sysctrl!Init, PidInv, TypedDaemons, FileOfOne, SomeoneGoesOn
<1>2. PidInv => OneSurvives
  BY NobodyAssumption DEF OneSurvives, PidInv, TypedDaemons, FileOfOne, SomeoneGoesOn, Sysctrl!OneSurvives
<1>3. QED
  BY <1>1, <1>2, PidStep, PTL DEF Sysctrl!Spec

\* Until one is killed and leaves its file, who is in has it, and nobody thinks
\* it stale.
InHasFile ==
  (\A d \in Daemons : dat[d] # "killed") =>
    /\ \A d \in Daemons : dat[d] \in {"write", "runs"} => dfile = d
    /\ \A d \in Daemons : dat[d] \notin {"unlink", "reopen"}

OneDaemon == INSTANCE Mutex WITH Procs <- Daemons,
               inside <- {d \in Daemons : dat[d] \in {"write", "runs"}},
               left <- \E d \in Daemons : dat[d] = "killed"

LEMMA InHasFileStep ==
  ASSUME PidInv, InHasFile, [Sysctrl!Next]_(Sysctrl!vars)
  PROVE  InHasFile' /\ [OneDaemon!Next]_(OneDaemon!vars)
<1> USE NobodyAssumption DEF PidInv, TypedDaemons, Sysctrl!Goes
<1> DEFINE Ins == {d \in Daemons : dat[d] \in {"write", "runs"}}
           Dead == \E d \in Daemons : dat[d] = "killed"
<1>1. ASSUME NEW d \in Daemons, Sysctrl!Open(d), dfile = Nobody
      PROVE  InHasFile' /\ OneDaemon!Enter(d)
  <2>1. dfile' = d /\ dat' = [dat EXCEPT ![d] = "write"] /\ dat[d] \in {"open", "reopen"}
    BY <1>1 DEF Sysctrl!Open, Sysctrl!Creates
  <2>2. InHasFile'
    BY <1>1, <2>1 DEF InHasFile
  <2>3. Dead \/ Ins = {}
    BY <1>1 DEF InHasFile
  <2>4. Ins' = Ins \cup {d} /\ d \notin Ins /\ Dead' = Dead
    BY <2>1
  <2>5. QED
    BY <2>2, <2>3, <2>4 DEF OneDaemon!Enter
<1> DEFINE Quiet(d, to) ==
             /\ to \in {"look", "open", "read", "probe", "ended", "unlink", "reopen", "runs"}
             /\ dat' = [dat EXCEPT ![d] = to] /\ dat[d] \notin {"runs", "killed"}
             /\ dat[d] = "write" <=> to = "runs"
             /\ dfile' = dfile \/ (dfile' = Nobody /\ dat[d] = "unlink")
             /\ to = "unlink" => Dead
             /\ to = "reopen" => dat[d] = "unlink"
<1>2. ASSUME NEW d \in Daemons, NEW to, Quiet(d, to)
      PROVE  InHasFile' /\ UNCHANGED OneDaemon!vars
  <2>1. Ins' = Ins /\ Dead' = Dead
    BY <1>2
  <2>2. InHasFile'
    BY <1>2, <2>1 DEF InHasFile
  <2>3. QED
    BY <2>1, <2>2 DEF OneDaemon!vars
<1>3. ASSUME NEW d \in Daemons, Sysctrl!Kill(d) PROVE InHasFile' /\ [OneDaemon!Next]_(OneDaemon!vars)
  <2>1. CASE dat[d] \in {"write", "runs"}
    <3>1. dat' = [dat EXCEPT ![d] = "killed"]
      BY <1>3, <2>1 DEF Sysctrl!Kill, Sysctrl!In
    <3>2. Ins' = Ins \ {d} /\ d \in Ins /\ Dead' = TRUE
      BY <2>1, <3>1
    <3>3. InHasFile'
      BY <3>1 DEF InHasFile
    <3>4. QED
      BY <3>2, <3>3 DEF OneDaemon!Next, OneDaemon!End
  <2>2. CASE dat[d] \notin {"write", "runs"}
    <3>1. dat' = [dat EXCEPT ![d] = "ended"] /\ dfile' = dfile /\ dat[d] \notin {"none", "killed"}
      BY <1>3, <2>2 DEF Sysctrl!Kill, Sysctrl!In, Sysctrl!Alive
    <3>2. Ins' = Ins /\ Dead' = Dead
      BY <2>2, <3>1
    <3>3. InHasFile'
      BY <2>2, <3>1, <3>2 DEF InHasFile
    <3>4. QED
      BY <3>2, <3>3 DEF OneDaemon!vars
  <2>3. QED
    BY <2>1, <2>2
<1>4. ASSUME NEW d \in Daemons, Sysctrl!Look(d) PROVE InHasFile' /\ UNCHANGED OneDaemon!vars
  <2>1. Quiet(d, "look")
    BY <1>4 DEF Sysctrl!Look
  <2>2. QED
    BY <2>1, <1>2
<1>5. ASSUME NEW d \in Daemons, Sysctrl!Start(d) PROVE InHasFile' /\ UNCHANGED OneDaemon!vars
  <2>1. Quiet(d, "open")
    BY <1>5 DEF Sysctrl!Start
  <2>2. QED
    BY <2>1, <1>2
<1>6. ASSUME NEW d \in Daemons, Sysctrl!Open(d), dfile # Nobody PROVE InHasFile' /\ UNCHANGED OneDaemon!vars
  <2>1. Quiet(d, "read") \/ Quiet(d, "ended")
    BY <1>6 DEF Sysctrl!Open
  <2>2. QED
    BY <2>1, <1>2
<1>7. ASSUME NEW d \in Daemons, Sysctrl!Read(d) PROVE InHasFile' /\ UNCHANGED OneDaemon!vars
  <2>1. Quiet(d, "probe") \/ Quiet(d, "ended")
    BY <1>7 DEF Sysctrl!Read
  <2>2. QED
    BY <2>1, <1>2
<1>8. ASSUME NEW d \in Daemons, Sysctrl!Probe(d) PROVE InHasFile' /\ UNCHANGED OneDaemon!vars
  <2>0. dat[seen[d]] \in {"runs", "killed"} /\ seen[d] \in Daemons
    BY <1>8 DEF Sysctrl!Probe, FileOfOne
  <2>1. Quiet(d, "ended") \/ Quiet(d, "unlink")
    BY <1>8, <2>0 DEF Sysctrl!Probe, Sysctrl!Alive
  <2>2. QED
    BY <2>1, <1>2
<1>9. ASSUME NEW d \in Daemons, Sysctrl!Unlink(d) PROVE InHasFile' /\ UNCHANGED OneDaemon!vars
  <2>1. Quiet(d, "reopen")
    BY <1>9 DEF Sysctrl!Unlink
  <2>2. QED
    BY <2>1, <1>2
<1>10. ASSUME NEW d \in Daemons, Sysctrl!Write(d) PROVE InHasFile' /\ UNCHANGED OneDaemon!vars
  <2>1. Quiet(d, "runs")
    BY <1>10 DEF Sysctrl!Write
  <2>2. QED
    BY <2>1, <1>2
<1>11. CASE UNCHANGED Sysctrl!vars
  BY <1>11 DEF Sysctrl!vars, InHasFile, OneDaemon!vars
<1>12. QED
  BY <1>1, <1>3, <1>4, <1>5, <1>6, <1>7, <1>8, <1>9, <1>10, <1>11
     DEF Sysctrl!Next, OneDaemon!Next

\* PidIsMutex (PidFile.tla): until a daemon is killed and leaves its file, check_other_daemon
\* is a Mutex of those that control the fan.
THEOREM OneDaemonRuns == Sysctrl!Spec => OneDaemon!Spec
<1>1. Sysctrl!Init => PidInv /\ InHasFile /\ OneDaemon!Init
  BY DEF Sysctrl!Init, PidInv, TypedDaemons, FileOfOne, SomeoneGoesOn, InHasFile, OneDaemon!Init
<1>2. PidInv /\ InHasFile /\ [Sysctrl!Next]_(Sysctrl!vars)
        => PidInv' /\ InHasFile' /\ [OneDaemon!Next]_(OneDaemon!vars)
  BY PidStep, InHasFileStep
<1>3. QED
  BY <1>1, <1>2, PTL DEF Sysctrl!Spec, OneDaemon!Spec
------------------------------------------------------------------------------
(* The backups.                                                               *)

BackupPlaces == Copies!Doing \cup Copies!Holding \cup {"new", "first", "killed", "done"}

\* One holds the directory at a time, and holds it for what follows its mkdir;
\* who does a backup is named by the pid file; and one about to write the pid
\* file found nobody at it.
OneTurn ==
  /\ at \in [Backups -> BackupPlaces]
  /\ \A p \in Backups: at[p] \in Copies!Holding => lockdir
  /\ \A p, q \in Backups: at[p] \in Copies!Holding /\ at[q] \in Copies!Holding => p = q
  /\ \A p \in Backups: at[p] \in Copies!Doing => pidfile = p
  /\ \A p, q \in Backups: at[p] = "claim" => at[q] \notin Copies!Doing

Doers == {p \in Backups: at[p] \in Copies!Doing}

LEMMA OneTurnHolds == Copies!Spec => []OneTurn
<1> USE NobodyAssumption DEF BackupPlaces, Copies!Doing, Copies!Holding, Copies!Goes
<1>1. Copies!Init => OneTurn
  BY DEF Copies!Init, OneTurn
<1>2. ASSUME OneTurn, [Copies!Next]_(Copies!vars) PROVE OneTurn'
  <2>1. ASSUME NEW p \in Backups, Copies!Start(p) PROVE OneTurn'
    BY <1>2, <2>1 DEF Copies!Start, OneTurn, Copies!locks
  <2>2. ASSUME NEW p \in Backups, Copies!Lock(p) PROVE OneTurn'
    BY <1>2, <2>2 DEF Copies!Lock, OneTurn
  <2>3. ASSUME NEW p \in Backups, Copies!Test(p) PROVE OneTurn'
    BY <1>2, <2>3 DEF Copies!Test, Copies!Alive, OneTurn, Copies!locks
  <2>4. ASSUME NEW p \in Backups, Copies!Claim(p) PROVE OneTurn'
    BY <1>2, <2>4 DEF Copies!Claim, OneTurn
  <2>5. ASSUME NEW p \in Backups, Copies!Unlock(p) PROVE OneTurn'
    BY <1>2, <2>5 DEF Copies!Unlock, OneTurn
  <2>6. ASSUME NEW p \in Backups, Copies!Copy(p) PROVE OneTurn'
    BY <1>2, <2>6 DEF Copies!Copy, OneTurn, Copies!locks
  <2>7. ASSUME NEW p \in Backups, Copies!UnlinkCurrent(p) \/ Copies!LinkCurrent(p) \/ Copies!Rotate(p)
            PROVE OneTurn'
    BY <1>2, <2>7 DEF Copies!UnlinkCurrent, Copies!LinkCurrent, Copies!Rotate, OneTurn, Copies!locks
  <2>8. ASSUME NEW p \in Backups, Copies!Clear(p) PROVE OneTurn'
    BY <1>2, <2>8 DEF Copies!Clear, OneTurn
  <2>9. ASSUME NEW p \in Backups, Copies!Kill(p) PROVE OneTurn'
    BY <1>2, <2>9 DEF Copies!Kill, OneTurn, Copies!locks
  <2>10. CASE UNCHANGED Copies!vars
    BY <1>2, <2>10 DEF Copies!vars, Copies!locks, OneTurn
  <2>11. QED
    BY <1>2, <2>1, <2>2, <2>3, <2>4, <2>5, <2>6, <2>7, <2>8, <2>9, <2>10 DEF Copies!Next, Copies!Step
<1>3. QED
  BY <1>1, <1>2, PTL DEF Copies!Spec

\* One backup goes on: those at it gain it, lose it or are the same.
LEMMA DoersFollow ==
  ASSUME at \in [Backups -> BackupPlaces], NEW p \in Backups, NEW to \in BackupPlaces, Copies!Goes(p, to)
  PROVE  Doers' = IF to \in Copies!Doing THEN Doers \cup {p} ELSE Doers \ {p}
BY DEF Copies!Goes, Doers

\* Two backups are never at it together, and none leaves a mark that keeps the
\* others from being told apart: each step enters, leaves or changes nothing.
THEOREM TurnsAreTaken == Copies!Spec => BackupsTakeTurns
<1> USE DEF BackupPlaces, Copies!Doing, Copies!Holding
<1>1. Copies!Init => Copies!Turn!Init
  BY DEF Copies!Init, Copies!Turn!Init
<1>2. ASSUME OneTurn, Copies!Next PROVE [Copies!Turn!Next]_(Copies!Turn!vars)
  <2>1. ASSUME NEW p \in Backups, Copies!Claim(p) PROVE Copies!Turn!Enter(p)
    <3>1. Doers' = Doers \cup {p}
      BY <1>2, <2>1, DoersFollow DEF Copies!Claim, OneTurn
    <3>2. p \notin Doers /\ Doers = {}
      BY <1>2, <2>1 DEF Copies!Claim, OneTurn, Doers
    <3>3. QED
      BY <3>1, <3>2 DEF Copies!Turn!Enter, Doers
  <2>2. ASSUME NEW p \in Backups, Copies!Clear(p) PROVE Copies!Turn!Leave(p)
    <3>1. Doers' = Doers \ {p} /\ p \in Doers
      BY <1>2, <2>2, DoersFollow DEF Copies!Clear, OneTurn, Doers
    <3>2. QED
      BY <3>1 DEF Copies!Turn!Leave, Doers
  <2>3. ASSUME NEW p \in Backups, Copies!Kill(p) PROVE [Copies!Turn!Next]_(Copies!Turn!vars)
    <3>1. Doers' = Doers \ {p}
      BY <1>2, <2>3, DoersFollow DEF Copies!Kill, OneTurn
    <3>2. p \notin Doers => Doers' = Doers
      BY <3>1
    <3>3. QED
      BY <3>1, <3>2 DEF Copies!Turn!Next, Copies!Turn!Leave, Copies!Turn!vars, Doers
  <2>4. ASSUME NEW p \in Backups,
               \/ Copies!Start(p) \/ Copies!Lock(p) \/ Copies!Test(p) \/ Copies!Unlock(p) \/ Copies!Copy(p)
               \/ Copies!UnlinkCurrent(p) \/ Copies!LinkCurrent(p) \/ Copies!Rotate(p)
        PROVE UNCHANGED Copies!Turn!vars
    <3>1. CASE Copies!Start(p) \/ Copies!Test(p)
      BY <1>2, <3>1, DoersFollow DEF Copies!Start, Copies!Test, OneTurn, Doers, Copies!Turn!vars
    <3>2. CASE Copies!Lock(p)
      BY <1>2, <3>2, DoersFollow DEF Copies!Lock, OneTurn, Doers, Copies!Turn!vars
    <3>3. CASE Copies!Unlock(p)
      BY <1>2, <3>3, DoersFollow DEF Copies!Unlock, OneTurn, Doers, Copies!Turn!vars
    <3>4. CASE Copies!Copy(p) \/ Copies!UnlinkCurrent(p) \/ Copies!LinkCurrent(p) \/ Copies!Rotate(p)
      BY <1>2, <3>4, DoersFollow DEF Copies!Copy, Copies!UnlinkCurrent, Copies!LinkCurrent,
                                     Copies!Rotate, OneTurn,
                                     Doers, Copies!Turn!vars
    <3>5. QED
      BY <2>4, <3>1, <3>2, <3>3, <3>4
  <2>5. QED
    BY <1>2, <2>1, <2>2, <2>3, <2>4 DEF Copies!Next, Copies!Step, Copies!Turn!Next
<1>3. UNCHANGED Copies!vars => UNCHANGED Copies!Turn!vars
  BY DEF Copies!vars, Copies!Turn!vars
<1>4. QED
  BY <1>1, <1>2, <1>3, OneTurnHolds, PTL DEF Copies!Spec, BackupsTakeTurns, Copies!BackupsTakeTurns,
                                             Copies!Turn!Spec
------------------------------------------------------------------------------
(* The rotation.                                                              *)

\* Of finitely many things with a number one has the lowest.
LEMMA SomeLowest ==
  ASSUME NEW S, S # {}, IsFiniteSet(S), NEW f, \A x \in S: f[x] \in Int
  PROVE  \E x \in S: \A y \in S: f[x] <= f[y]
<1> DEFINE Below(x) == {y \in S: f[y] < f[x]}
           R == StrictSubsetOrdering(S)
           T == {Below(x): x \in S}
<1>1. IsWellFoundedOn(R, SUBSET S)
  BY FS_StrictSubsetOrderingWellFounded, FS_FiniteSubsetsOfFinite
<1>2. T \subseteq SUBSET S /\ T # {}
  OBVIOUS
<1>3. \E b \in T: \A a \in T: <<a, b>> \notin R
  <2> HIDE DEF R, T
  <2> QED BY <1>1, <1>2, WFMin
<1>4. PICK x \in S: \A y \in S: <<Below(y), Below(x)>> \notin R
  BY <1>3
<1>5. ASSUME NEW y \in S PROVE f[x] <= f[y]
  <2> SUFFICES ASSUME f[y] < f[x] PROVE FALSE
    OBVIOUS
  <2>1. \A z \in S: f[z] < f[y] => f[z] < f[x]
    OBVIOUS
  <2>2. y \in Below(x) /\ y \notin Below(y)
    OBVIOUS
  <2>3. Below(y) \subseteq Below(x) /\ Below(y) # Below(x)
    BY <2>1, <2>2
  <2>4. <<Below(y), Below(x)>> \in R
    BY <2>3 DEF StrictSubsetOrdering
  <2>5. QED
    BY <2>4, <1>4
<1>6. QED
  BY <1>5

\* From its copy to the end of the rotation a backup's copy has the last date,
\* and `current` leads to it once it is linked.
Dated == /\ date \in [Backups -> Nat] /\ nlogs \in [Backups -> Nat]
         /\ kept \subseteq Backups /\ current \in Backups \cup {Nobody}
Newest == \A p \in Backups: at[p] \in {"unlink", "link", "rotate"} =>
            \A q \in kept: q # p => date[q] < date[p]
Linked == \A p \in Backups: at[p] = "rotate" => current = p /\ nlogs[p] > 0

RotInv == Dated /\ Newest /\ Linked

\* What the name of a new copy is after.
LEMMA LatestIsLast ==
  ASSUME Dated, IsFiniteSet(Backups), NEW p \in Backups
  PROVE  Copies!Latest \in Nat /\ \A q \in Backups: date[q] <= Copies!Latest
<1> DEFINE f == [q \in Backups |-> 0 - date[q]]
<1>1. \A q \in Backups: f[q] \in Int /\ f[q] = 0 - date[q] /\ date[q] \in Nat
  BY DEF Dated
<1>2. \E r \in Backups: \A q \in Backups: f[r] <= f[q]
  <2> HIDE DEF f
  <2> QED BY <1>1, SomeLowest
<1>3. PICK r \in Backups: \A q \in Backups: date[q] <= date[r]
  BY <1>1, <1>2
<1>4. Copies!Latest \in {date[q]: q \in Backups} /\ \A q \in Backups: date[q] <= Copies!Latest
  BY <1>3 DEF Copies!Latest
<1>5. QED
  BY <1>1, <1>4

\* The oldest copy is one of those there are, and has the first date.
LEMMA OldestIsFirst ==
  ASSUME Dated, IsFiniteSet(Backups), kept # {}
  PROVE  Copies!Oldest(kept) \in kept /\ \A q \in kept: date[Copies!Oldest(kept)] <= date[q]
<1>1. IsFiniteSet(kept) /\ \A q \in kept: date[q] \in Int
  BY FS_Subset DEF Dated
<1>2. \E p \in kept: \A q \in kept: date[p] <= date[q]
  BY <1>1, SomeLowest
<1>3. QED
  BY <1>2 DEF Copies!Oldest

LEMMA SameCardinality == \A S: Copies!Cardinality(S) = Cardinality(S)
BY Zenon DEF Copies!Cardinality, Cardinality

\* A round of the rotation that removes a copy finds more than it is to keep, of
\* which the one just linked is not the oldest.
LEMMA RotateKeeps ==
  ASSUME Dated, Newest, Linked, IsFiniteSet(Backups), ~HasMirror, NEW q \in Backups, Copies!Rotate(q),
         NEW p \in kept, p \notin kept'
  PROVE  Cardinality(kept) > nlogs[q] /\ p # current
<1>1. /\ Cardinality(kept) + 0 > nlogs[q] /\ p = Copies!Oldest(kept) /\ at[q] = "rotate"
  BY SameCardinality DEF Copies!Rotate, Copies!Directories
<1>2. IsFiniteSet(kept) /\ Cardinality(kept) \in Nat /\ nlogs[q] \in Nat /\ nlogs[q] > 0 /\ current = q
  BY <1>1, FS_Subset, FS_CardinalityType DEF Dated, Linked
<1>3. Cardinality(kept) > nlogs[q] /\ Cardinality(kept) # 1
  BY <1>1, <1>2
<1>4. kept # {q}
  BY <1>3, FS_Singleton
<1>5. PICK r \in kept: r # q
  BY <1>4
<1>6. date[r] < date[q] /\ date[p] <= date[r]
  BY <1>1, <1>5, OldestIsFirst DEF Newest
<1>7. date[r] \in Nat /\ date[q] \in Nat /\ date[p] \in Nat
  BY DEF Dated
<1>8. p # q
  BY <1>6, <1>7
<1>9. QED
  BY <1>2, <1>3, <1>8

LEMMA RotInvHolds ==
  ASSUME IsFiniteSet(Backups), ~ClockSetBack
  PROVE  Copies!Spec => []RotInv
<1>1. Copies!Init => RotInv
  BY DEF Copies!Init, RotInv, Dated, Newest, Linked
<1>2. ASSUME RotInv, OneTurn, [Copies!Next]_(Copies!vars) PROVE RotInv'
  <2> USE <1>2 DEF RotInv
  <2>1. ASSUME NEW p \in Backups, Copies!Start(p) \/ Copies!Lock(p) \/ Copies!Test(p) \/ Copies!Claim(p)
            \/ Copies!Unlock(p) \/ Copies!Clear(p) \/ Copies!Kill(p)
        PROVE RotInv'
    <3>1. UNCHANGED Copies!copies /\ UNCHANGED nlogs
      BY <2>1 DEF Copies!Start, Copies!Lock, Copies!Test, Copies!Claim, Copies!Unlock, Copies!Clear,
                  Copies!Kill
    <3>2. \A q \in Backups: at'[q] \in {"unlink", "link", "rotate"} => at'[q] = at[q]
      BY <2>1 DEF Copies!Start, Copies!Lock, Copies!Test, Copies!Claim, Copies!Unlock, Copies!Clear,
                  Copies!Kill, Copies!Goes, OneTurn
    <3>3. QED
      BY <3>1, <3>2 DEF Copies!copies, Dated, Newest, Linked
  <2>2. ASSUME NEW p \in Backups, Copies!Copy(p) PROVE RotInv'
    <3>1. \A q \in Backups: at[q] \in {"unlink", "link", "rotate"} => FALSE
      BY <2>2 DEF Copies!Copy, OneTurn, Copies!Doing
    <3>2. CASE kept' = kept /\ date' = date
      BY <2>2, <3>1, <3>2 DEF Copies!Copy, Copies!Goes, OneTurn, Dated, Newest, Linked
    <3>3. CASE kept' = kept \cup {p} /\ date' = [date EXCEPT ![p] = Copies!Latest + 1] /\ Copies!Goes(p,
        IF current \in kept THEN "unlink" ELSE "link")
      <4>1. Copies!Latest \in Nat /\ \A q \in Backups: date[q] <= Copies!Latest
        BY LatestIsLast
      <4>2. Dated'
        BY <2>2, <3>3, <4>1 DEF Copies!Copy, Dated
      <4>3. \A q \in Backups: q # p => date'[q] < date'[p]
        BY <3>3, <4>1 DEF Dated
      <4>4. \A q \in Backups: at'[q] \in {"unlink", "link", "rotate"} => q = p /\ at'[q] # "rotate"
        BY <3>1, <3>3 DEF Copies!Goes, OneTurn
      <4>5. kept' \subseteq Backups
        BY <4>2 DEF Dated
      <4>6. QED
        BY <4>2, <4>3, <4>4, <4>5 DEF Newest, Linked
    <3>4. QED
      BY <2>2, <3>2, <3>3 DEF Copies!Copy
  <2>3. ASSUME NEW p \in Backups, Copies!UnlinkCurrent(p) PROVE RotInv'
    <3>1. \A q \in Backups: at[q] = "rotate" => FALSE
      BY <2>3 DEF Copies!UnlinkCurrent, OneTurn, Copies!Doing
    <3>2. \A q \in Backups: at'[q] = IF q = p THEN "link" ELSE at[q]
      BY <2>3 DEF Copies!UnlinkCurrent, Copies!Goes, OneTurn
    <3>3. at[p] = "unlink"
      BY <2>3 DEF Copies!UnlinkCurrent
    <3>4. QED
      BY <2>3, <3>1, <3>2, <3>3 DEF Copies!UnlinkCurrent, Dated, Newest, Linked
  <2>4. ASSUME NEW p \in Backups, Copies!LinkCurrent(p) PROVE RotInv'
    <3>1. PICK n \in Rotates: nlogs' = [nlogs EXCEPT ![p] = n] /\ Copies!Goes(p,
        IF n > 0 THEN "rotate" ELSE "last")
      BY <2>4 DEF Copies!LinkCurrent
    <3>2. n \in Nat
      BY <3>1, CopiesAssumption
    <3>3. \A q \in Backups: at[q] = "rotate" => FALSE
      BY <2>4 DEF Copies!LinkCurrent, OneTurn, Copies!Doing
    <3>4. Dated'
      BY <2>4, <3>1, <3>2 DEF Copies!LinkCurrent, Dated
    <3>5. \A q \in Backups: q # p => at'[q] = at[q]
      BY <3>1 DEF Copies!Goes, OneTurn
    <3>6. at'[p] = (IF n > 0 THEN "rotate" ELSE "last") /\ at[p] = "link" /\ current' = p /\ nlogs'[p] = n
      BY <2>4, <3>1 DEF Copies!LinkCurrent, Copies!Goes, OneTurn, Dated
    <3>7. Newest'
      BY <2>4, <3>5, <3>6 DEF Copies!LinkCurrent, Newest
    <3>8. Linked'
      BY <3>3, <3>5, <3>6 DEF Linked
    <3>9. QED
      BY <3>4, <3>7, <3>8
  <2>5. ASSUME NEW p \in Backups, Copies!Rotate(p) PROVE RotInv'
    <3>1. kept' \subseteq kept /\ date' = date /\ current' = current
      BY <2>5 DEF Copies!Rotate
    <3>2. CASE at' = at /\ nlogs' = nlogs
      BY <3>1, <3>2 DEF Dated, Newest, Linked
    <3>3. CASE nlogs' = [nlogs EXCEPT ![p] = 0] /\ Copies!Goes(p, "last")
      <4>1. \A q \in Backups: IF q = p THEN at'[q] = "last" ELSE at'[q] = at[q] /\ nlogs'[q] = nlogs[q]
        BY <3>3 DEF Copies!Goes, OneTurn, Dated
      <4>2. Dated'
        BY <3>1, <3>3 DEF Dated
      <4>3. QED
        BY <3>1, <4>1, <4>2 DEF Newest, Linked
    <3>4. QED
      BY <2>5, <3>2, <3>3 DEF Copies!Rotate
  <2>6. CASE UNCHANGED Copies!vars
    BY <2>6 DEF Copies!vars, Copies!copies, Dated, Newest, Linked
  <2>7. QED
    BY <2>1, <2>2, <2>3, <2>4, <2>5, <2>6 DEF Copies!Next, Copies!Step
<1>3. QED
  BY <1>1, <1>2, OneTurnHolds, PTL DEF Copies!Spec

\* RotationKeeps (Backup.tla): clean_logs removes nothing before there are as many
\* copies as asked for, and never the one `current` leads to; with no mirror and
\* a clock that is not set back.
THEOREM CopiesAreKept ==
  ASSUME IsFiniteSet(Backups), ~ClockSetBack, ~HasMirror
  PROVE  Copies!Spec => RotationKeeps
<1> DEFINE A == \A p \in kept: p \notin kept' =>
             /\ \E q \in Backups: at[q] = "rotate" /\ Copies!Cardinality(kept) > nlogs[q]
             /\ p # current
<1>1. ASSUME RotInv, Copies!Next PROVE A
  <2> SUFFICES ASSUME NEW p \in kept, p \notin kept'
               PROVE  /\ \E q \in Backups: at[q] = "rotate" /\ Copies!Cardinality(kept) > nlogs[q]
                      /\ p # current
    OBVIOUS
  <2>1. PICK q \in Backups: Copies!Rotate(q)
    BY <1>1 DEF Copies!Next, Copies!Step, Copies!Start, Copies!Lock, Copies!Test, Copies!Claim,
                Copies!Unlock, Copies!Copy, Copies!UnlinkCurrent, Copies!LinkCurrent, Copies!Clear,
                Copies!Kill, Copies!copies
  <2>2. at[q] = "rotate"
    BY <2>1 DEF Copies!Rotate
  <2>3. QED
    BY <1>1, <2>1, <2>2, RotateKeeps, SameCardinality DEF RotInv
<1>2. RotInv /\ [Copies!Next]_(Copies!vars) => [A]_(Copies!vars)
  BY <1>1
<1>3. QED
  <2> HIDE DEF A
  <2>1. RotInv /\ [Copies!Next]_(Copies!vars) => [A]_(Copies!vars)
    BY <1>2
  <2>2. Copies!Spec => [][A]_(Copies!vars)
    BY <2>1, RotInvHolds, PTL DEF Copies!Spec
  <2>3. QED
    BY <2>2 DEF RotationKeeps, Copies!RotationKeeps, A

------------------------------------------------------------------------------
\* The users of each lock are as free in the composition as by themselves: what
\* is proved of each specification holds of the one TLC runs.
THEOREM EachByItself == MCSpec => Spec /\ Copies!Spec /\ Sysctrl!Spec
<1> DEFINE all == <<whose, vars, copiesVars, daemonVars>>
<1>1. MCInit => Init /\ Copies!Init /\ Sysctrl!Init
  BY DEF MCInit
<1>2. [MCNext]_all => [Next]_vars /\ [Copies!Next]_(Copies!vars) /\ [Sysctrl!Next]_(Sysctrl!vars)
  <2>1. UNCHANGED copiesVars => UNCHANGED Copies!vars
    BY DEF copiesVars, Copies!vars, Copies!locks, Copies!copies
  <2>2. UNCHANGED daemonVars => UNCHANGED Sysctrl!vars
    BY DEF daemonVars, Sysctrl!vars
  <2>3. QED
    BY <2>1, <2>2 DEF MCNext, UsersOfTemp, BackupsRun, DaemonsStart
<1>3. QED
  BY <1>1, <1>2, PTL DEF MCSpec, Spec, Copies!Spec, Sysctrl!Spec
=============================================================================
