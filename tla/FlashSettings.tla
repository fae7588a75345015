---------------------------- MODULE FlashSettings ----------------------------
(***************************************************************************)
(* The saved settings: loadsave_settings keeps dated sets of configuration *)
(* files in the flash, loads the newest at boot, and tells the web pages,  *)
(* from a stamp file's date, whether there are changes to save.            *)
(*                                                                         *)
(* A set is named by the second it was made in, which is its key here; of  *)
(* its contents only the version of the configuration is kept.             *)
(***************************************************************************)
EXTENDS Integers, FiniteSets

CONSTANTS
  Keep,        \* how many sets a save leaves (10)
  Tries,       \* how often a save makes room and tries again (5)
  ClockSteps,  \* how the clock is set or advances, in seconds
  MaxClock,    \* bound on the clock
  MaxVersion,  \* bound on the number of edits
  MaxReboots   \* bound on the reboots and power losses

ASSUME KeepAssumption == Keep \in Nat \ {0}
ASSUME BoundsAssumption ==
  {Tries, MaxClock, MaxVersion, MaxReboots} \subseteq Nat /\ ClockSteps \subseteq Int

VARIABLES
  config,   \* the version of the configuration files in memory, 0: the firmware's
  latest,   \* the last version there was
  mtime,    \* when the newest of them was last changed
  stamp,    \* the date of /tmp/settings_saved
  clock,
  flash,    \* the sets in the flash: their names' date -> their version
  pc,       \* where the save is
  name,     \* the date that names its set
  set,      \* the version in it
  cnt,      \* the tries it has left
  saved,    \* the result of its last cp
  blind,    \* status cannot know: see Unseen
  reboots   \* how many there were

save == <<pc, name, set, cnt, saved>>
vars == <<config, latest, mtime, stamp, clock, flash, save, blind, reboots>>

NoStamp == -1
Torn == -1      \* a set that was not written to its end

Names == DOMAIN flash
Without(sets, ns) == [n \in DOMAIN sets \ ns |-> sets[n]]
With(sets, n, v) == [m \in DOMAIN sets \cup {n} |-> IF m = n THEN v ELSE sets[m]]
Newest(sets) == {n \in DOMAIN sets: \A m \in DOMAIN sets: m <= n}

Oldest(sets) == {n \in DOMAIN sets: \A m \in DOMAIN sets: n <= m}

\* What a boot loads: the newest set, or, if that is torn or there is none, nothing.
AtBoot(sets) ==
  IF \E n \in Newest(sets): sets[n] # Torn
    THEN sets[CHOOSE n \in Newest(sets): TRUE]
    ELSE 0

\* Mutant of Modified: a missing stamp is not looked for.
ModifiedOnDate == mtime > stamp /\ stamp # NoStamp

\* status: dates have whole seconds.
Modified == stamp = NoStamp \/ mtime > stamp

------------------------------------------------------------------------------
(* saveflashdef                                                             *)

\* status, then tar.
Create ==
  /\ pc = "idle" /\ Modified
  /\ pc' = "copy" /\ name' = clock /\ set' = config /\ cnt' = Tries
  /\ blind' = FALSE
  /\ UNCHANGED <<config, latest, mtime, stamp, clock, flash, saved, reboots>>

\* Mutant of Copy: cp's result is not kept.
CopyUnchecked ==
  /\ pc = "copy"
  /\ flash' \in {With(flash, name, set), With(flash, name, Torn)}
  /\ saved' = TRUE /\ pc' = "prune"
  /\ UNCHANGED <<config, latest, mtime, stamp, clock, name, set, cnt, blind, reboots>>

\* A cp that finds too little room leaves part of the file, or none.
Copy ==
  /\ pc = "copy"
  /\ \/ /\ flash' = With(flash, name, set)
        /\ saved' = TRUE /\ pc' = "prune"
     \/ /\ flash' \in {With(flash, name, Torn), flash}
        /\ saved' = FALSE /\ pc' = IF cnt > 0 THEN "room" ELSE "prune"
  /\ UNCHANGED <<config, latest, mtime, stamp, clock, name, set, cnt, blind, reboots>>

\* The part that was written goes, and the oldest set with it.
MakeRoom ==
  /\ pc = "room" /\ pc' = "copy" /\ cnt' = cnt - 1
  /\ flash' = Without(flash, Oldest(flash) \cup {name})
  /\ UNCHANGED <<config, latest, mtime, stamp, clock, name, set, saved, blind, reboots>>

Newer(n) == {m \in Names: m > n}

\* All but the last Keep.
Pruned == {n \in Names: Cardinality(Newer(n)) >= Keep}

Prune ==
  /\ pc = "prune" /\ pc' = IF saved THEN "stamp" ELSE "idle"
  /\ flash' = Without(flash, Pruned)
  /\ UNCHANGED <<config, latest, mtime, stamp, clock, name, set, cnt, saved, blind,
                 reboots>>

Stamp ==
  /\ pc = "stamp" /\ pc' = "idle"
  /\ stamp' = clock
  /\ UNCHANGED <<config, latest, mtime, clock, flash, name, set, cnt, saved, blind,
                 reboots>>

------------------------------------------------------------------------------
(* loadflashdef, clearflashdef                                              *)

\* Valid or not, the stamp is touched.
Load(v) ==
  /\ pc = "idle"
  /\ IF v = Torn THEN UNCHANGED <<config, mtime>> ELSE config' = v /\ mtime' = clock
  /\ stamp' = clock /\ blind' = TRUE
  /\ UNCHANGED <<latest, clock, flash, save, reboots>>

LoadSettings == \E n \in Names: Load(flash[n])
Upload == \E v \in 0..latest \cup {Torn}: Load(v)

ClearFlash ==
  /\ pc = "idle"
  /\ flash' = Without(flash, Names) /\ stamp' = NoStamp
  /\ UNCHANGED <<config, latest, mtime, clock, save, blind, reboots>>

\* rcS, after a reboot or a power loss.  Before the flash is unmounted the set that
\* was being written may be lost, or part of it.
Reboot ==
  /\ reboots < MaxReboots /\ reboots' = reboots + 1
  /\ \/ UNCHANGED flash
     \/ /\ pc \in {"copy", "room", "prune"}
        /\ flash' \in {With(flash, name, Torn), Without(flash, {name})}
  /\ config' = AtBoot(flash') /\ mtime' = clock /\ stamp' = clock
  /\ pc' = "idle" /\ blind' = FALSE
  /\ UNCHANGED <<latest, clock, name, set, cnt, saved>>

------------------------------------------------------------------------------
(* The environment                                                          *)

\* An edit that status cannot tell from what is saved: one made while the save runs,
\* or in the second of the stamp.
Unseen == pc # "idle" \/ clock <= stamp

\* The web pages, services and hot plugging change files at any time.
Edit ==
  /\ latest < MaxVersion
  /\ latest' = latest + 1 /\ config' = latest + 1 /\ mtime' = clock
  /\ blind' = (blind \/ Unseen)
  /\ UNCHANGED <<stamp, clock, flash, save, reboots>>

StepClock ==
  /\ \E s \in ClockSteps: clock + s \in 0..MaxClock /\ clock' = clock + s
  /\ UNCHANGED <<config, latest, mtime, stamp, flash, save, blind, reboots>>

Init ==
  /\ config = 0 /\ latest = 0 /\ mtime = 0 /\ stamp = 0 /\ clock = 0
  /\ flash = [n \in {} |-> 0]
  /\ pc = "idle" /\ name = 0 /\ set = 0 /\ cnt = 0 /\ saved = FALSE
  /\ blind = FALSE /\ reboots = 0

Saving == Create \/ Copy \/ MakeRoom \/ Prune \/ Stamp
Next ==
  \/ Saving \/ LoadSettings \/ Upload \/ ClearFlash
  \/ Reboot \/ Edit \/ StepClock

Spec == Init /\ [][Next]_vars

------------------------------------------------------------------------------
SetsOK(sets, top) ==
  DOMAIN sets \subseteq 0..MaxClock /\ \A n \in DOMAIN sets: sets[n] \in 0..top \cup {Torn}

TypeOK ==
  /\ latest \in 0..MaxVersion /\ config \in 0..latest
  /\ clock \in 0..MaxClock /\ mtime \in 0..MaxClock
  /\ stamp \in 0..MaxClock \cup {NoStamp}
  /\ SetsOK(flash, latest)
  /\ pc \in {"idle", "copy", "room", "prune", "stamp"} /\ (pc = "room" => cnt > 0)
  /\ name \in 0..MaxClock /\ set \in 0..latest /\ cnt \in 0..Tries
  /\ saved \in BOOLEAN /\ blind \in BOOLEAN /\ reboots \in 0..MaxReboots

\* "Several sets of Alt-F settings can coexist, tagged with the date and hour": a save
\* that reports success has left its set whole and the newest, the one the next boot
\* loads, however often it made room.
SuccessIsSaved ==
  pc = "stamp" => name \in Names /\ flash[name] = set /\ AtBoot(flash) = set

\* When the pages do not ask to save, a reboot brings the running configuration back,
\* unless a set was loaded, or files changed during a save or in the stamp's second.
WarnsOfUnsaved == pc = "idle" /\ ~Modified /\ ~blind => AtBoot(flash) = config
==============================================================================
