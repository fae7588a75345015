------------------------------ MODULE TempLock ------------------------------
(***************************************************************************)
(* The lock of the DNS-320's temperature file: dns320-temp.sh rewrites the *)
(* file every 15 s, sysctrl reads it, and each makes /var/lock/temp-lock   *)
(* first.  One that finds it there tries again for ten seconds, and then   *)
(* takes it over unless the pid file names a process that lives.           *)
(***************************************************************************)
EXTENDS Naturals

CONSTANTS
  Readers, Writers,   \* sysctrl, in C; dns320-temp.sh, in shell
  Tries,              \* failed mkdir before the pid file is looked at: 100
  MaxEnds,            \* bound on processes that end anywhere
  Stalls              \* a live owner may keep the lock for as long as all tries

Procs == Readers \cup Writers

ASSUME ProcsAssumption == Readers \cap Writers = {}
ASSUME TriesAssumption == Tries \in Nat \ {0} /\ MaxEnds \in Nat /\ Stalls \in BOOLEAN

VARIABLES
  dir,       \* /var/lock/temp-lock exists
  pid,       \* the process its pid file names, with its incarnation, or NoPid
  pc, tries,
  life,      \* the incarnation of a process
  file,      \* /tmp/sys/temp1_input: "whole", or "torn" between open and write
  tornRead,  \* a reader found it torn
  ends,      \* how many processes ended
  left       \* one of them ended inside

ended == <<ends, left>>
vars == <<dir, pid, pc, tries, life, file, tornRead, ended>>
mine(p) == <<p, life[p]>>
NoPid == <<>>

\* Between a lock that is had, or believed to be had, and its last trace gone.
Inside == {"name", "use", "write", "unlink", "rmdir"}
Live(p) == pc[p] \notin {"ended", "gaveup"}
Goes(p, to) == pc' = [pc EXCEPT ![p] = to]

------------------------------------------------------------------------------
\* Mutant of Patient: the tries are not spaced out.
Impatient(p) == TRUE

\* Ten seconds of tries have an end only for an owner that stalls or has ended.
Patient(p) == tries[p] + 1 = Tries => (Stalls \/ \A q \in Procs: pc[q] \notin Inside)

\* dolock: mkdir makes the directory ...
Mkdir(p) ==
  /\ pc[p] \in {"idle", "wait"} /\ ~dir
  /\ dir' = TRUE
  /\ tries' = [tries EXCEPT ![p] = 0]
  /\ Goes(p, "name")
  /\ UNCHANGED <<pid, life, file, tornRead, ended>>

\* Mutant of MkdirFails: the tries have no end.
MkdirForever(p) ==
  /\ pc[p] \in {"idle", "wait"} /\ dir
  /\ Goes(p, "wait")
  /\ UNCHANGED <<dir, pid, tries, life, file, tornRead, ended>>

\* ... or fails, and after the last try the owner is looked at.
MkdirFails(p) ==
  /\ pc[p] \in {"idle", "wait"} /\ dir /\ Patient(p)
  /\ tries' = [tries EXCEPT ![p] = IF @ + 1 = Tries THEN 0 ELSE @ + 1]
  /\ Goes(p, IF tries[p] + 1 = Tries THEN "inspect" ELSE "wait")
  /\ UNCHANGED <<dir, pid, life, file, tornRead, ended>>

\* The pid file: gone or empty, one's own, a dead process's: the lock is taken
\* over.  The owner lives: exit(1).
Inspect(p) ==
  /\ pc[p] = "inspect"
  /\ Goes(p, IF \E q \in Procs \ {p}: pid = mine(q) /\ Live(q) THEN "gaveup" ELSE "name")
  /\ UNCHANGED <<dir, pid, tries, life, file, tornRead, ended>>

\* creat and write of the pid file, which fail, unnoticed, with no directory.
WritePid(p) ==
  /\ pc[p] = "name"
  /\ pid' = IF dir THEN mine(p) ELSE pid
  /\ Goes(p, "use")
  /\ UNCHANGED <<dir, tries, life, file, tornRead, ended>>

\* read_temp's read, or the shell's open ...
Use(p) ==
  /\ pc[p] = "use"
  /\ IF p \in Readers
       THEN tornRead' = (tornRead \/ file = "torn") /\ Goes(p, "unlink") /\ UNCHANGED file
       ELSE file' = "torn" /\ Goes(p, "write") /\ UNCHANGED tornRead
  /\ UNCHANGED <<dir, pid, tries, life, ended>>

\* ... and write.
Write(p) ==
  /\ pc[p] = "write"
  /\ file' = "whole"
  /\ Goes(p, "unlink")
  /\ UNCHANGED <<dir, pid, tries, life, tornRead, ended>>

\* clearlock, or rm -rf: the pid file, then the directory if it is empty.
UnlinkPid(p) ==
  /\ pc[p] = "unlink"
  /\ pid' = NoPid
  /\ Goes(p, "rmdir")
  /\ UNCHANGED <<dir, tries, life, file, tornRead, ended>>

Rmdir(p) ==
  /\ pc[p] = "rmdir"
  /\ dir' = (dir /\ pid # NoPid)
  /\ Goes(p, "idle")
  /\ UNCHANGED <<pid, tries, life, file, tornRead, ended>>

------------------------------------------------------------------------------
\* A process is killed, and is started again: by init, a page or the user.
Ends(p) ==
  /\ Live(p) /\ ends < MaxEnds
  /\ Goes(p, "ended")
  /\ tries' = [tries EXCEPT ![p] = 0]
  /\ ends' = ends + 1 /\ left' = (left \/ pc[p] \in Inside)
  /\ UNCHANGED <<dir, pid, life, file, tornRead>>

Restarts(p) ==
  /\ pc[p] = "ended"
  /\ Goes(p, "idle")
  /\ life' = [life EXCEPT ![p] = @ + 1]
  /\ UNCHANGED <<dir, pid, tries, file, tornRead, ended>>

Init ==
  /\ dir = FALSE /\ pid = NoPid
  /\ pc = [p \in Procs |-> "idle"] /\ tries = [p \in Procs |-> 0]
  /\ life = [p \in Procs |-> 0]
  /\ file = "whole" /\ tornRead = FALSE
  /\ ends = 0 /\ left = FALSE

Step(p) == \/ Mkdir(p) \/ MkdirFails(p) \/ Inspect(p) \/ WritePid(p) \/ Use(p) \/ Write(p)
           \/ UnlinkPid(p) \/ Rmdir(p)

Next == \E p \in Procs: Step(p) \/ Ends(p) \/ Restarts(p)

Spec == Init /\ [][Next]_vars

\* Strong for those that wait: a try every 0.1 s finds the pause of 15 s that
\* the other makes between its rounds.
FairSpec == Spec /\ \A p \in Procs: SF_vars(Step(p))

------------------------------------------------------------------------------
TypeOK ==
  /\ dir \in BOOLEAN /\ pid \in {NoPid} \cup (Procs \X Nat)
  /\ pc \in [Procs -> Inside \cup {"idle", "wait", "inspect", "ended", "gaveup"}]
  /\ tries \in [Procs -> 0..Tries-1] /\ life \in [Procs -> Nat]
  /\ file \in {"whole", "torn"} /\ tornRead \in BOOLEAN 
  /\ ends \in 0..MaxEnds /\ left \in BOOLEAN

\* dolock and write_temp promise a Mutex whose mark is left by an owner that
\* ends inside: until then no two are in, for all the takeovers in the code.
\* After that, two that waited for the same mark may both take it over.
Lock == INSTANCE Mutex WITH inside <- {p \in Procs: pc[p] \in Inside}
TempIsMutex == Lock!Spec

\* sysctrl never reads the file while it is being rewritten, before that.
NoTornRead == tornRead => left

\* Whatever ends where, nobody waits for ever for what is left ...
WaitsEnd == \A p \in Procs: (pc[p] = "wait") ~> (pc[p] # "wait")

=============================================================================
