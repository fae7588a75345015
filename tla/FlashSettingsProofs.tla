------------------------- MODULE FlashSettingsProofs -------------------------
(***************************************************************************)
(* Proofs about FlashSettings, for any number of sets, tries, edits and    *)
(* reboots (where the clock matters it is assumed never to be set back),   *)
(* and about Firmware, for files of any length and any word, block and     *)
(* header.                                                                 *)
(***************************************************************************)
EXTENDS MCFlashSettings, FiniteSetTheorems, TLAPS

\* What a boot loads is a version there was, and the newest set's if that is whole.
LEMMA AtBootType ==
  ASSUME NEW sets, NEW top \in Nat,
         \A n \in DOMAIN sets: sets[n] \in 0..top \cup {Torn}, DOMAIN sets \subseteq Nat
  PROVE  AtBoot(sets) \in 0..top
<1>1. CASE \E n \in Newest(sets): sets[n] # Torn
  <2>1. \A n, m \in Newest(sets): n = m
    BY DEF Newest
  <2>2. PICK n \in Newest(sets): sets[n] # Torn
    BY <1>1
  <2>3. n = CHOOSE m \in Newest(sets): TRUE
    BY <2>1
  <2> QED
    BY <1>1, <2>2, <2>3 DEF AtBoot, Newest
<1>2. CASE ~\E n \in Newest(sets): sets[n] # Torn
  BY <1>2 DEF AtBoot
<1> QED
  BY <1>1, <1>2

LEMMA AtBootNewest ==
  ASSUME NEW sets, DOMAIN sets \subseteq Nat, NEW n \in Newest(sets), sets[n] # Torn
  PROVE  AtBoot(sets) = sets[n]
<1>1. \A m \in Newest(sets): m = n
  BY DEF Newest
<1>2. n = CHOOSE m \in Newest(sets): TRUE
  BY <1>1
<1> QED
  BY <1>2 DEF AtBoot

LEMMA WithType ==
  ASSUME NEW sets, NEW top, SetsOK(sets, top), NEW n \in 0..MaxClock,
         NEW v \in 0..top \cup {Torn}
  PROVE  SetsOK(With(sets, n, v), top)
BY DEF SetsOK, With

LEMMA WithoutType ==
  ASSUME NEW sets, NEW top, SetsOK(sets, top), NEW ns
  PROVE  SetsOK(Without(sets, ns), top)
BY DEF SetsOK, Without

------------------------------------------------------------------------------
(* Types                                                                    *)

LEMMA TypeSaving ==
  ASSUME TypeOK, Saving
  PROVE  TypeOK'
<1> USE BoundsAssumption
<1>1. CASE Create
  <2>1. set' \in 0..latest /\ cnt' \in 0..Tries /\ name' \in 0..MaxClock
    BY <1>1 DEF Create, TypeOK
  <2> QED
    BY <1>1, <2>1 DEF Create, TypeOK
<1>2. CASE Stamp
  BY <1>2 DEF Stamp, TypeOK
<1>3. CASE Copy
  <2>1. SetsOK(flash', latest)
    BY <1>3, WithType DEF Copy, TypeOK
  <2>2. /\ pc' \in {"room", "prune"} /\ (pc' = "room" => cnt > 0)
        /\ saved' \in BOOLEAN
    BY <1>3 DEF Copy, TypeOK
  <2> QED
    BY <1>3, <2>1, <2>2 DEF Copy, TypeOK
<1>4. CASE MakeRoom
  <2>1. SetsOK(flash', latest)
    BY <1>4, WithoutType DEF MakeRoom, TypeOK
  <2> QED
    BY <1>4, <2>1 DEF MakeRoom, TypeOK
<1>5. CASE Prune
  <2>1. SetsOK(flash', latest)
    BY <1>5, WithoutType DEF Prune, TypeOK
  <2> QED
    BY <1>5, <2>1 DEF Prune, TypeOK
<1> QED
  BY <1>1, <1>2, <1>3, <1>4, <1>5 DEF Saving

LEMMA TypeInit == Init => TypeOK
<1> USE BoundsAssumption
<1> SUFFICES ASSUME Init PROVE TypeOK
  OBVIOUS
<1>1. SetsOK(flash, latest)
  BY DEF Init, SetsOK
<1>2. config = 0 /\ latest = 0 /\ mtime = 0 /\ stamp = 0 /\ clock = 0 /\ reboots = 0
  BY DEF Init
<1>3. /\ name = 0 /\ set = 0 /\ cnt = 0
      /\ pc = "idle" /\ saved \in BOOLEAN /\ blind \in BOOLEAN
  BY DEF Init
<1> QED
  BY <1>1, <1>2, <1>3 DEF TypeOK

LEMMA TypeNext == TypeOK /\ [Next]_vars => TypeOK'
<1> USE BoundsAssumption
<1> SUFFICES ASSUME TypeOK, [Next]_vars PROVE TypeOK'
  OBVIOUS
<1>1. ASSUME NEW v \in 0..latest \cup {Torn}, Load(v) PROVE TypeOK'
  <2>1. config' \in 0..latest /\ mtime' \in 0..MaxClock
    BY <1>1 DEF Load, TypeOK
  <2>2. stamp' = clock /\ blind' \in BOOLEAN
        /\ UNCHANGED <<latest, clock, flash, pc, name, set, cnt, saved, reboots>>
    BY <1>1 DEF Load, save
  <2> QED
    BY <2>1, <2>2 DEF TypeOK
<1>2. CASE LoadSettings \/ Upload
  BY <1>1, <1>2 DEF LoadSettings, Upload, TypeOK, SetsOK, Names
<1>3. CASE ClearFlash
  BY <1>3, WithoutType DEF ClearFlash, TypeOK, save
<1>4. CASE Reboot
  <2>1. SetsOK(flash', latest)
    BY <1>4, WithType, WithoutType DEF Reboot, TypeOK
  <2>2. AtBoot(flash') \in 0..latest
    BY <2>1, AtBootType DEF SetsOK, TypeOK
  <2>3. config' \in 0..latest'
    BY <1>4, <2>2 DEF Reboot
  <2>4. mtime' \in 0..MaxClock /\ stamp' \in 0..MaxClock /\ reboots' \in 0..MaxReboots
    BY <1>4 DEF Reboot, TypeOK
  <2>5. blind' \in BOOLEAN /\ pc' = "idle" /\ UNCHANGED <<latest, clock, name, set, cnt, saved>>
    BY <1>4 DEF Reboot
  <2> QED
    BY <2>1, <2>3, <2>4, <2>5 DEF TypeOK
<1>5. CASE Edit
  <2>1. blind' \in BOOLEAN
    BY <1>5 DEF Edit, TypeOK
  <2>2. latest' \in 0..MaxVersion /\ config' = latest' /\ mtime' = clock
    BY <1>5 DEF Edit, TypeOK
  <2>3. SetsOK(flash, latest')
    BY <1>5 DEF Edit, TypeOK, SetsOK
  <2>4. set \in 0..latest'
    BY <1>5 DEF Edit, TypeOK
  <2>5. UNCHANGED <<stamp, clock, flash, pc, name, set, cnt, saved, reboots>>
    BY <1>5 DEF Edit, save
  <2> QED
    BY <2>1, <2>2, <2>3, <2>4, <2>5 DEF TypeOK
<1>6. CASE StepClock
  BY <1>6 DEF StepClock, TypeOK, save
<1>7. CASE UNCHANGED vars
  BY <1>7 DEF vars, save, TypeOK
<1> QED
  BY <1>2, <1>3, <1>4, <1>5, <1>6, <1>7, TypeSaving DEF Next

\* Every variable keeps its type, for all bounds and settings of the clock.
THEOREM TypeCorrect == Spec => []TypeOK
BY TypeInit, TypeNext, PTL DEF Spec

------------------------------------------------------------------------------
(* What is saved                                                            *)

\* The names in the flash are of the past, and while a save runs its own is the newest.
Dated ==
  /\ \A n \in Names: n <= clock
  /\ pc # "idle" => name <= clock /\ \A n \in Names: n <= name
Written ==
  \/ pc = "stamp"
  \/ pc = "prune" /\ saved
SavedInv == TypeOK /\ Dated /\ (Written => name \in Names /\ flash[name] = set)

LEMMA PrunedSpares ==
  ASSUME NEW n \in Names, Names \subseteq Nat, \A m \in Names: m <= n
  PROVE  n \notin Pruned
<1>1. Newer(n) = {}
  <2>1. \A m \in Names: ~(m > n)
    OBVIOUS
  <2> QED
    BY <2>1 DEF Newer
<1>2. Cardinality(Newer(n)) = 0
  BY <1>1, FS_EmptySet
<1> QED
  BY <1>2, KeepAssumption DEF Pruned

LEMMA SavedInvariant == ASSUME ClockSteps \subseteq Nat PROVE Spec => []SavedInv
<1>1. Init => SavedInv
  BY TypeInit DEF Init, SavedInv, Dated, Written, Names
<1>2. SavedInv /\ [Next]_vars => SavedInv'
  <2> SUFFICES ASSUME SavedInv, [Next]_vars PROVE SavedInv'
    OBVIOUS
  <2> USE DEF SavedInv
  <2>t. TypeOK' /\ Names \subseteq Nat /\ clock \in Nat /\ name \in Nat
    BY TypeNext DEF TypeOK, SetsOK, Names
  <2>1. CASE Create
    BY <2>1, <2>t DEF Create, Dated, Written, Names
  <2>2. CASE Copy
    <3>1. Names' \subseteq Names \cup {name}
      BY <2>2 DEF Copy, Names, With
    <3>2. Dated'
      BY <2>2, <2>t, <3>1 DEF Copy, Dated, Names
    <3>3. ASSUME Written' PROVE name' \in Names' /\ flash'[name'] = set'
      BY <2>2, <3>3 DEF Copy, Written, Names, With
    <3> QED
      BY <2>t, <3>2, <3>3
  <2>3. CASE MakeRoom
    BY <2>3, <2>t DEF MakeRoom, Dated, Written, Names, Without
  <2>4. CASE Prune
    <3>1. Names' = Names \ Pruned /\ \A n \in Names': flash'[n] = flash[n]
      BY <2>4 DEF Prune, Names, Without
    <3>2. Dated'
      BY <2>4, <2>t, <3>1 DEF Prune, Dated, Names
    <3>3. ASSUME Written' PROVE name' \in Names' /\ flash'[name'] = set'
      <4>1. name \in Names /\ flash[name] = set /\ \A m \in Names: m <= name
        BY <2>4, <3>3 DEF Prune, Written, Dated
      <4> QED
        BY <2>4, <2>t, <3>1, <4>1, PrunedSpares DEF Prune
    <3> QED
      BY <2>t, <3>2, <3>3
  <2>5. CASE Stamp
    BY <2>5, <2>t DEF Stamp, Dated, Written, Names
  <2>6. CASE LoadSettings \/ Upload
    BY <2>6, <2>t DEF LoadSettings, Upload, Load, save, Dated, Written, Names
  <2>7. CASE ClearFlash
    BY <2>7, <2>t DEF ClearFlash, save, Dated, Written, Names, Without
  <2>8. CASE Reboot
    <3>1. Names' \subseteq Names \cup {name} /\ (Names' # Names => pc # "idle")
      BY <2>8 DEF Reboot, Names, With, Without
    <3> QED
      BY <2>8, <2>t, <3>1 DEF Reboot, Dated, Written, Names
  <2>9. CASE Edit
    BY <2>9, <2>t DEF Edit, save, Dated, Written, Names
  <2>10. CASE StepClock
    <3>1. clock' >= clock /\ clock' \in Nat
      BY <2>10, <2>t, BoundsAssumption DEF StepClock
    <3> QED
      BY <2>10, <2>t, <3>1 DEF StepClock, save, Dated, Written, Names
  <2>11. CASE UNCHANGED vars
    BY <2>11, <2>t DEF vars, save, Dated, Written, Names
  <2> QED
    BY <2>1, <2>2, <2>3, <2>4, <2>5, <2>6, <2>7, <2>8, <2>9, <2>10, <2>11
       DEF Next, Saving
<1> QED
  BY <1>1, <1>2, PTL DEF Spec

LEMMA SavedInvImplies == SavedInv => SuccessIsSaved
<1> SUFFICES ASSUME SavedInv, pc = "stamp"
             PROVE  name \in Names /\ flash[name] = set /\ AtBoot(flash) = set
  BY DEF SuccessIsSaved
<1>1. name \in Newest(flash) /\ flash[name] = set
  BY DEF SavedInv, Dated, Written, Newest, Names
<1>2. set # Torn /\ DOMAIN flash \subseteq Nat
  BY DEF SavedInv, TypeOK, SetsOK, Torn
<1> QED
  BY <1>1, <1>2, AtBootNewest DEF Newest, Names

\* With a clock that is never set back, a save that reports success has left its set
\* whole, and as the one the next boot loads: neither its own tries to make room nor
\* its pruning, nor what failed saves and power losses left, displaces it.
THEOREM SuccessLasts ==
  ASSUME ClockSteps \subseteq Nat PROVE Spec => []SuccessIsSaved
BY SavedInvariant, SavedInvImplies, PTL


------------------------------------------------------------------------------
(* The warning                                                              *)

\* While status can know, a save that runs has something to save and saves what there
\* is; and when the pages are silent the newest set is the configuration.
Known ==
  ~blind =>
    /\ pc # "idle" => Modified /\ config = set
    /\ pc = "idle" /\ ~Modified => AtBoot(flash) = config

\* With such a clock, the pages ask to save whenever a reboot would bring back another
\* configuration than the one that runs, except after a load, and after an edit made
\* during a save or in the second of the stamp.
THEOREM WarningHolds ==
  ASSUME ClockSteps \subseteq Nat PROVE Spec => []WarnsOfUnsaved
<1>1. Init => Known
  BY DEF Init, Known, AtBoot, Newest
<1>2. SavedInv /\ SuccessIsSaved /\ Known /\ [Next]_vars => Known'
  <2> SUFFICES ASSUME SavedInv, SuccessIsSaved, Known, [Next]_vars PROVE Known'
    OBVIOUS
  <2>1. CASE Create
    BY <2>1 DEF Create, Known, Modified
  <2>2. CASE Copy
    BY <2>2 DEF Copy, Known, Modified
  <2>3. CASE MakeRoom
    BY <2>3 DEF MakeRoom, Known, Modified
  <2>4. CASE Prune
    BY <2>4 DEF Prune, Known, Modified
  <2>5. CASE Stamp
    BY <2>5 DEF Stamp, Known, SuccessIsSaved
  <2>6. CASE LoadSettings \/ Upload
    BY <2>6 DEF LoadSettings, Upload, Load, Known
  <2>7. CASE ClearFlash
    BY <2>7 DEF ClearFlash, save, Known, Modified
  <2>8. CASE Reboot
    BY <2>8 DEF Reboot, Known
  <2>9. CASE Edit
    <3> SUFFICES ASSUME ~blind' PROVE pc' = "idle" /\ Modified'
      BY DEF Known
    <3>1. clock \in Int /\ stamp \in Int
      BY DEF SavedInv, TypeOK, NoStamp
    <3>2. ~Unseen
      BY <2>9, Zenon DEF Edit
    <3>3. UNCHANGED <<pc, stamp>> /\ mtime' = clock
      BY <2>9 DEF Edit, save
    <3> QED
      BY <3>1, <3>2, <3>3 DEF Unseen, Modified
  <2>10. CASE StepClock
    BY <2>10 DEF StepClock, save, Known, Modified
  <2>11. CASE UNCHANGED vars
    BY <2>11 DEF vars, save, Known, Modified
  <2> QED
    BY <2>1, <2>2, <2>3, <2>4, <2>5, <2>6, <2>7, <2>8, <2>9, <2>10, <2>11
       DEF Next, Saving
<1>3. Known => WarnsOfUnsaved
  BY DEF Known, WarnsOfUnsaved
<1> QED
  BY <1>1, <1>2, <1>3, SavedInvariant, SavedInvImplies, PTL DEF Spec

------------------------------------------------------------------------------
(* The firmware.                                                            *)

Byte == {0, 1}
Types == {64, 128}   \* named, for the provers split cases over the numbers

LEMMA FirmwareSizes ==
  /\ Word \in Nat /\ Word > 0 /\ Block \in Nat /\ Block > 0
  /\ Hd64 \in Nat /\ Hd128 \in Nat /\ Hd64 < Hd128
BY SizesAssumption

LEMMA FileBytes ==
  ASSUME NEW c \in Built \cup Uploaded, NEW p \in Files!Names
  PROVE  Files!Bytes(c[p]) \in Seq(Byte)
BY FilesAssumption DEF Files!Bytes, Byte

LEMMA Concatenated ==
  \A S : \A a \in Seq(S), b \in Seq(S) :
    /\ a \o b \in Seq(S) /\ Len(a \o b) = Len(a) + Len(b)
    /\ \A n \in 1..Len(a) : (a \o b)[n] = a[n]
    /\ \A n \in 1..Len(b) : (a \o b)[Len(a) + n] = b[n]
OBVIOUS

\* What readwrite copies are bytes; and when the file has all of them, they are
\* those of the file, and no zeros follow.
LEMMA Missing ==
  ASSUME NEW l \in Nat, NEW m \in Nat, m <= l
  PROVE  /\ Files!Least(l - m, (Block - (m % Block)) % Block) \in Nat
         /\ m = l => Files!Least(l - m, (Block - (m % Block)) % Block) = 0
<1>1. (Block - (m % Block)) % Block \in Nat
  BY FirmwareSizes
<1>2. QED
  BY <1>1 DEF Files!Least

LEMMA CopyOfBytes ==
  ASSUME NEW s \in Seq(Byte), NEW from \in Nat, NEW m \in Nat
  PROVE  /\ Files!Copy(s, from, m) \in Seq(Byte)
         /\ from + m <= Len(s) => Files!Copy(s, from, m) = [n \in 1..m |-> s[from + n]]
<1> DEFINE data == SubSeq(s, from + 1, Files!Least(from + m, Len(s)))
           missing == Files!Least(m - Len(data), (Block - (Len(data) % Block)) % Block)
<1>1. data \in Seq(Byte) /\ Len(data) \in Nat /\ Len(data) <= m
  BY DEF Files!Least
<1>2. from + m <= Len(s) => Len(data) = m /\ data = [n \in 1..m |-> s[from + n]]
  BY DEF Files!Least
<1>3. missing \in Nat /\ (Len(data) = m => missing = 0)
  <2> HIDE DEF data
  <2>1. QED
    BY <1>1, Missing
<1>4. Files!Copy(s, from, m) = data \o [i \in 1..missing |-> 0]
  BY DEF Files!Copy
<1> HIDE DEF data, missing
<1>5. [i \in 1..missing |-> 0] \in Seq(Byte)
  BY <1>3 DEF Byte
<1>6. missing = 0 => data \o [i \in 1..missing |-> 0] = data
  BY <1>1, <1>5
<1>7. QED
  BY <1>1, <1>2, <1>3, <1>4, <1>5, <1>6, Concatenated

------------------------------------------------------------------------------
(* What is merged is split.                                                 *)

LEMMA DataIs ==
  ASSUME NEW t \in Types, NEW c \in Built \cup Uploaded, NEW p \in Files!Names
  PROVE  Files!Data(t, c, p) \in Seq(Byte) /\ Files!Size(t, c, p) = Len(Files!Data(t, c, p))
<1>1. Files!Bytes(c[p]) \in Seq(Byte)
  BY FileBytes
<1>2. QED
  BY <1>1 DEF Files!Data, Files!Size

\* Five sequences one after the other, each where its predecessors end.
FollowOneAnother(b, z, k, i, s, d) ==
  /\ Len(b) = Len(z) + Len(k) + Len(i) + Len(s) + Len(d)
  /\ \A n \in 1..Len(k) : b[Len(z) + n] = k[n]
  /\ \A n \in 1..Len(i) : b[Len(z) + Len(k) + n] = i[n]
  /\ \A n \in 1..Len(s) : b[Len(z) + Len(k) + Len(i) + n] = s[n]
  /\ \A n \in 1..Len(d) : b[Len(z) + Len(k) + Len(i) + Len(s) + n] = d[n]

LEMMA FiveConcatenated ==
  ASSUME NEW S, NEW z \in Seq(S), NEW k \in Seq(S), NEW i \in Seq(S), NEW s \in Seq(S), NEW d \in Seq(S),
         NEW b, b = z \o k \o i \o s \o d
  PROVE  b \in Seq(S) /\ FollowOneAnother(b, z, k, i, s, d)
<1> DEFINE Joins(a, c, e) ==
             /\ e \in Seq(S) /\ Len(e) = Len(a) + Len(c)
             /\ \A n \in 1..Len(a) : e[n] = a[n]
             /\ \A n \in 1..Len(c) : e[Len(a) + n] = c[n]
<1>1. \A a \in Seq(S), c \in Seq(S) : Joins(a, c, a \o c)
  BY Concatenated
<1>2. \A a \in Seq(S), c \in Seq(S) : \A e : Joins(a, c, e) => e \in Seq(S)
  OBVIOUS
<1> DEFINE b1 == z \o k
           b2 == b1 \o i
           b3 == b2 \o s
           b4 == b3 \o d
<1> HIDE DEF Joins
<1>3. Joins(z, k, b1) /\ b1 \in Seq(S)
  BY <1>1, <1>2, Zenon
<1> HIDE DEF b1
<1>4. Joins(b1, i, b2) /\ b2 \in Seq(S)
  BY <1>1, <1>2, <1>3, Zenon
<1> HIDE DEF b2
<1>5. Joins(b2, s, b3) /\ b3 \in Seq(S)
  BY <1>1, <1>2, <1>4, Zenon
<1> HIDE DEF b3
<1>6. Joins(b3, d, b4) /\ b4 \in Seq(S)
  BY <1>1, <1>2, <1>5, Zenon
<1> HIDE DEF b4
<1> USE DEF Joins
<1>7. /\ Len(z) \in Nat /\ Len(k) \in Nat /\ Len(i) \in Nat /\ Len(s) \in Nat /\ Len(d) \in Nat
      /\ Len(b1) = Len(z) + Len(k) /\ Len(b2) = Len(z) + Len(k) + Len(i)
      /\ Len(b3) = Len(z) + Len(k) + Len(i) + Len(s) /\ Len(b4) = Len(z) + Len(k) + Len(i) + Len(s) + Len(d)
  BY <1>3, <1>4, <1>5, <1>6
<1>8. \A n \in 1..Len(k) : b4[Len(z) + n] = k[n]
  <2> TAKE n \in 1..Len(k)
  <2>1. Len(z) + n \in 1..Len(b1) /\ Len(z) + n \in 1..Len(b2) /\ Len(z) + n \in 1..Len(b3)
    BY <1>7
  <2>2. b1[Len(z) + n] = k[n]
    BY <1>3
  <2>3. b2[Len(z) + n] = b1[Len(z) + n] /\ b3[Len(z) + n] = b2[Len(z) + n] /\ b4[Len(z) + n] = b3[Len(z) + n]
    BY <1>4, <1>5, <1>6, <2>1
  <2>4. QED
    BY <2>2, <2>3
<1>9. \A n \in 1..Len(i) : b4[Len(z) + Len(k) + n] = i[n]
  <2> TAKE n \in 1..Len(i)
  <2>1. Len(b1) + n \in 1..Len(b2) /\ Len(b1) + n \in 1..Len(b3)
    BY <1>7
  <2>2. b2[Len(b1) + n] = i[n]
    BY <1>4
  <2>3. b3[Len(b1) + n] = b2[Len(b1) + n] /\ b4[Len(b1) + n] = b3[Len(b1) + n]
    BY <1>5, <1>6, <2>1
  <2>4. QED
    BY <1>7, <2>2, <2>3
<1>10. \A n \in 1..Len(s) : b4[Len(z) + Len(k) + Len(i) + n] = s[n]
  <2> TAKE n \in 1..Len(s)
  <2>1. Len(b2) + n \in 1..Len(b3)
    BY <1>7
  <2>2. b3[Len(b2) + n] = s[n] /\ b4[Len(b2) + n] = b3[Len(b2) + n]
    BY <1>5, <1>6, <2>1
  <2>3. QED
    BY <1>7, <2>2
<1>11. \A n \in 1..Len(d) : b4[Len(z) + Len(k) + Len(i) + Len(s) + n] = d[n]
  BY <1>6, <1>7
<1>12. b4 = b
  BY Zenon DEF b1, b2, b3, b4
<1>13. QED
  BY <1>6, <1>7, <1>8, <1>9, <1>10, <1>11, <1>12, Zenon DEF FollowOneAnother

\* Each part is where the header says.
LEMMA Merged ==
  ASSUME NEW t \in Types, NEW c \in Built \cup Uploaded, NEW b, b = Files!Merge(t, c).bytes
  PROVE  /\ b \in Seq(Byte)
         /\ Len(b) >= Files!SizeOf(t) + Files!Size(t, c, "kernel") + Files!Size(t, c, "initramfs")
         /\ \A p \in Files!Names :
              /\ Files!Before(t, c, p) \in Nat /\ Files!Size(t, c, p) \in Nat
              /\ Files!Before(t, c, p) >= Files!SizeOf(t)
              /\ Files!Before(t, c, p) + Files!Size(t, c, p) <= Len(b)
              /\ \A n \in 1..Files!Size(t, c, p) : b[Files!Before(t, c, p) + n] = Files!Data(t, c, p)[n]
<1> DEFINE z == [i \in 1..Files!SizeOf(t) |-> 0]
           D(p) == Files!Data(t, c, p)
           N(p) == Files!Size(t, c, p)
<1>1. z \in Seq(Byte) /\ Len(z) = Files!SizeOf(t) /\ Len(z) \in Nat
  BY FirmwareSizes DEF Files!SizeOf, Byte
<1>2. \A p \in Files!Names : D(p) \in Seq(Byte) /\ N(p) = Len(D(p))
  BY DataIs
<1>3. b = z \o D("kernel") \o D("initramfs") \o D("sqimage") \o D("defaults")
  BY DEF Files!Merge
<1>4. /\ Files!Before(t, c, "kernel") = Files!SizeOf(t) + 0
      /\ Files!Before(t, c, "initramfs") = Files!SizeOf(t) + N("kernel")
      /\ Files!Before(t, c, "sqimage") = Files!SizeOf(t) + (N("kernel") + N("initramfs"))
      /\ Files!Before(t, c, "defaults") = Files!SizeOf(t) + (N("kernel") + N("initramfs") + N("sqimage"))
  BY DEF Files!Before
<1> HIDE DEF z, D, N
<1>5. /\ D("kernel") \in Seq(Byte) /\ D("initramfs") \in Seq(Byte)
      /\ D("sqimage") \in Seq(Byte) /\ D("defaults") \in Seq(Byte)
      /\ N("kernel") = Len(D("kernel")) /\ N("initramfs") = Len(D("initramfs"))
      /\ N("sqimage") = Len(D("sqimage")) /\ N("defaults") = Len(D("defaults"))
  BY <1>2 DEF Files!Names
<1>6. b \in Seq(Byte) /\ FollowOneAnother(b, z, D("kernel"), D("initramfs"), D("sqimage"), D("defaults"))
  BY <1>1, <1>3, <1>5, FiveConcatenated, Zenon
<1>7. /\ N("kernel") \in Nat /\ N("initramfs") \in Nat /\ N("sqimage") \in Nat /\ N("defaults") \in Nat
  BY <1>5
<1> DEFINE Lies(p) ==
             /\ Files!Before(t, c, p) \in Nat /\ N(p) \in Nat
             /\ Files!Before(t, c, p) >= Files!SizeOf(t)
             /\ Files!Before(t, c, p) + N(p) <= Len(b)
             /\ \A n \in 1..N(p) : b[Files!Before(t, c, p) + n] = D(p)[n]
<1>8. /\ Files!Before(t, c, "kernel") = Len(z)
      /\ Files!Before(t, c, "initramfs") = Len(z) + N("kernel")
      /\ Files!Before(t, c, "sqimage") = Len(z) + N("kernel") + N("initramfs")
      /\ Files!Before(t, c, "defaults") = Len(z) + N("kernel") + N("initramfs") + N("sqimage")
  BY <1>1, <1>4, <1>7
<1>9. Len(b) = Len(z) + N("kernel") + N("initramfs") + N("sqimage") + N("defaults")
  BY <1>5, <1>6 DEF FollowOneAnother
<1>10. Lies("kernel")
  <2>1. \A n \in 1..N("kernel") : b[Files!Before(t, c, "kernel") + n] = D("kernel")[n]
    BY <1>5, <1>6, <1>8 DEF FollowOneAnother
  <2>2. QED
    BY <1>1, <1>7, <1>8, <1>9, <2>1
<1>11. Lies("initramfs")
  <2>1. \A n \in 1..N("initramfs") : b[Files!Before(t, c, "initramfs") + n] = D("initramfs")[n]
    <3>1. Files!Before(t, c, "initramfs") = Len(z) + Len(D("kernel"))
      BY <1>5, <1>8, Zenon
    <3>2. QED
      BY <1>5, <1>6, <3>1, Zenon DEF FollowOneAnother
  <2>2. QED
    BY <1>1, <1>7, <1>8, <1>9, <2>1
<1>12. Lies("sqimage")
  <2>1. \A n \in 1..N("sqimage") : b[Files!Before(t, c, "sqimage") + n] = D("sqimage")[n]
    <3>1. Files!Before(t, c, "sqimage") = Len(z) + Len(D("kernel")) + Len(D("initramfs"))
      BY <1>5, <1>8, Zenon
    <3>2. QED
      BY <1>5, <1>6, <3>1, Zenon DEF FollowOneAnother
  <2>2. QED
    BY <1>1, <1>7, <1>8, <1>9, <2>1
<1>13. Lies("defaults")
  <2>1. \A n \in 1..N("defaults") : b[Files!Before(t, c, "defaults") + n] = D("defaults")[n]
    <3>1. Files!Before(t, c, "defaults") = Len(z) + Len(D("kernel")) + Len(D("initramfs")) + Len(D("sqimage"))
      BY <1>5, <1>8, Zenon
    <3>2. QED
      BY <1>5, <1>6, <3>1, Zenon DEF FollowOneAnother
  <2>2. QED
    BY <1>1, <1>7, <1>8, <1>9, <2>1
<1>14. Len(b) >= Files!SizeOf(t) + N("kernel") + N("initramfs")
  BY <1>1, <1>7, <1>9
<1> HIDE DEF Lies
<1>15. \A p \in Files!Names : Lies(p)
  BY <1>10, <1>11, <1>12, <1>13, Zenon DEF Files!Names
<1>16. QED
  BY <1>6, <1>14, <1>15, Zenon DEF D, N, Lies

LEMMA PartOfMerged ==
  ASSUME NEW t \in Types, NEW c \in Built \cup Uploaded, NEW p \in Files!Names, Files!Has(t, p)
  PROVE  Files!Part(Files!Merge(t, c), p) = Files!Bytes(c[p])
<1> DEFINE f == Files!Merge(t, c)
           off == Files!Before(t, c, p)
           len == Files!Size(t, c, p)
<1>1. f.hd.off[p] = off /\ f.hd.len[p] = len
  BY DEF Files!Merge, Files!Header
<1>2. /\ Files!Bytes(c[p]) \in Seq(Byte) /\ len = Len(Files!Bytes(c[p]))
      /\ Files!Data(t, c, p) = Files!Bytes(c[p])
  BY FileBytes DEF Files!Size, Files!Data
<1>3. /\ f.bytes \in Seq(Byte) /\ off \in Nat /\ len \in Nat /\ off + len <= Len(f.bytes)
      /\ \A n \in 1..len : f.bytes[off + n] = Files!Data(t, c, p)[n]
  BY Merged
<1> HIDE DEF f, off, len
<1>4. Files!Copy(f.bytes, off, len) = [n \in 1..len |-> f.bytes[off + n]]
  BY <1>3, CopyOfBytes
<1>5. [n \in 1..len |-> f.bytes[off + n]] = Files!Bytes(c[p])
  BY <1>2, <1>3
<1>6. QED
  BY <1>1, <1>4, <1>5 DEF Files!Part, f

\* The first word of a part is that of its file.
LEMMA MagicOfMerged ==
  ASSUME NEW t \in Types, NEW c \in Built, NEW p \in {"kernel", "initramfs"},
         Files!CanMerge(t, c, FALSE)
  PROVE  Files!IsUboot(Files!Merge(t, c).bytes, Files!Merge(t, c).hd.off[p], FALSE)
<1> DEFINE b == Files!Merge(t, c).bytes
           off == Files!Before(t, c, p)
           x == Files!Bytes(c[p])
<1>1. /\ p \in Files!Names /\ Files!Has(t, p) /\ Files!Merge(t, c).hd.off[p] = off
      /\ c[p] # NoFile /\ Files!IsUboot(c[p], 0, FALSE) /\ x = c[p]
  BY DEF Files!Names, Files!Has, Files!Merge, Files!Header, Files!CanMerge, Files!Bytes
<1>2. /\ x \in Seq(Byte) /\ Files!Size(t, c, p) = Len(x) /\ Files!Data(t, c, p) = x
  BY <1>1, FileBytes DEF Files!Size, Files!Data
<1>3. /\ b \in Seq(Byte) /\ off \in Nat /\ off + Len(x) <= Len(b)
      /\ \A n \in 1..Len(x) : b[off + n] = x[n]
  <2>1. /\ b \in Seq(Byte) /\ off \in Nat /\ off + Files!Size(t, c, p) <= Len(b)
        /\ \A n \in 1..Files!Size(t, c, p) : b[off + n] = Files!Data(t, c, p)[n]
    BY <1>1, Merged
  <2>2. QED
    BY <1>2, <2>1
<1>4. Word <= Len(x) /\ SubSeq(x, 1, Word) = Files!Magic
  BY <1>1, FirmwareSizes DEF Files!IsUboot
<1> HIDE DEF b, off, x
<1>5. off + Word <= Len(b)
  BY <1>2, <1>3, <1>4, FirmwareSizes
<1>6. SubSeq(b, off + 1, off + Word) = SubSeq(x, 1, Word)
  <2>1. SubSeq(b, off + 1, off + Word) = [n \in 1..Word |-> b[off + n]]
    BY <1>3, <1>5, FirmwareSizes
  <2>2. SubSeq(x, 1, Word) = [n \in 1..Word |-> x[n]]
    BY <1>2, <1>4, FirmwareSizes
  <2>3. \A n \in 1..Word : b[off + n] = x[n]
    BY <1>2, <1>3, <1>4, FirmwareSizes
  <2>4. QED
    BY <2>1, <2>2, <2>3
<1>7. QED
  BY <1>1, <1>4, <1>5, <1>6 DEF Files!IsUboot, b

\* SplitGivesBack (Firmware.tla): dns323-fw -s takes apart what -m put together,
\* for parts of any length and any sum, any words, blocks and headers.
THEOREM MergedIsSplit == Files!Spec => []SplitGivesBack
<1> DEFINE Sized == type \in Types
<1>1. Files!Init => Sized
  BY DEF Files!Init, Types
<1>2. Sized /\ [Files!Next]_(Files!vars) => Sized'
  BY DEF Files!Next, Files!vars, Files!Upload, Files!Abort, Files!SpecialReboot, Files!TryIt,
         Files!FlashIt, Files!Write, Files!Verify, Files!Erase, Files!Fill, Files!Finish, Files!Reboot
<1>3. Sized => SplitGivesBack
  <2> SUFFICES ASSUME type \in Types, NEW c \in Built, Files!CanMerge(type, c, FALSE)
               PROVE  LET f == Files!Merge(type, c)
                      IN  /\ Files!CanSplit(f, FALSE)
                          /\ \A p \in Files!Names :
                               Files!Has(type, p) => Files!Split(f)[p] = Files!Bytes(c[p])
    BY DEF SplitGivesBack, Files!SplitGivesBack
  <2> DEFINE f == Files!Merge(type, c)
  <2>1. f.hd.type = type /\ \A p \in Files!Names : f.hd.sum[p] = Files!Sum(Files!Bytes(c[p]))
    BY DEF Files!Merge, Files!Header
  <2>2. ASSUME NEW p \in Files!Names, Files!Has(type, p) PROVE Files!Part(f, p) = Files!Bytes(c[p])
    BY <2>2, PartOfMerged
  <2>3. Len(f.bytes) >= Hd128
    <3>1. /\ Files!Bytes(c["kernel"]) \in Seq(Byte) /\ Files!Bytes(c["initramfs"]) \in Seq(Byte)
          /\ Files!Size(type, c, "kernel") = Len(Files!Bytes(c["kernel"]))
          /\ Files!Size(type, c, "initramfs") = Len(Files!Bytes(c["initramfs"]))
      BY FileBytes DEF Files!Names, Files!Size, Files!Has
    <3>2. Len(Files!Bytes(c["kernel"])) + Len(Files!Bytes(c["initramfs"])) >= Hd128 - Hd64
      BY FilesAssumption
    <3>3. /\ f.bytes \in Seq(Byte)
          /\ Len(f.bytes) >=
               Files!SizeOf(type) + Files!Size(type, c, "kernel") + Files!Size(type, c, "initramfs")
      BY Merged
    <3>4. Files!SizeOf(type) \in {Hd64, Hd128}
      BY DEF Files!SizeOf
    <3> HIDE DEF f
    <3>5. QED
      BY <3>1, <3>2, <3>3, <3>4, FirmwareSizes
  <2>4. \A p \in {"kernel", "initramfs"} : Files!IsUboot(f.bytes, f.hd.off[p], FALSE)
    <3> TAKE p \in {"kernel", "initramfs"}
    <3>1. Files!IsUboot(Files!Merge(type, c).bytes, Files!Merge(type, c).hd.off[p], FALSE)
      BY MagicOfMerged
    <3>2. QED
      BY <3>1
  <2> HIDE DEF f
  <2>5. QED
    BY <2>1, <2>2, <2>3, <2>4 DEF Files!CanSplit, Files!Split, f
<1> HIDE DEF Sized
<1>4. QED
  BY <1>1, <1>2, <1>3, PTL DEF Files!Spec

------------------------------------------------------------------------------
(* What is accepted.                                                        *)

LEMMA SameCardinality == \A S : Files!Cardinality(S) = Cardinality(S)
BY Zenon DEF Files!Cardinality, Cardinality

LEMMA WordsOf ==
  ASSUME NEW s \in Seq(Byte)
  PROVE  Files!Words(s) \in Nat /\ Files!Words(s) <= Len(s)
BY FirmwareSizes DEF Files!Words

LEMMA OnesAreFinite ==
  ASSUME NEW s \in Seq(Byte), NEW i
  PROVE  IsFiniteSet(Files!Ones(s, i)) /\ Cardinality(Files!Ones(s, i)) \in Nat
<1>1. IsFiniteSet(1..Files!Words(s))
  BY WordsOf, FS_Interval
<1>2. Files!Ones(s, i) \subseteq 1..Files!Words(s)
  BY DEF Files!Ones
<1>3. QED
  BY <1>1, <1>2, FS_Subset, FS_CardinalityType

\* One wrong byte in a whole word is in the sum.
LEMMA OneByteShows ==
  ASSUME NEW s \in Seq(Byte), NEW j \in 1..Files!Words(s), NEW g \in Seq(Byte),
         Len(g) = Len(s), g[j] # s[j], \A n \in 1..Len(s) : n # j => g[n] = s[n]
  PROVE  Files!Sum(g) # Files!Sum(s)
<1> DEFINE i == j % Word
<1>1. i \in 0..Word-1 /\ j \in 1..Len(s)
  BY FirmwareSizes, WordsOf
<1>2. Files!Words(g) = Files!Words(s)
  BY DEF Files!Words
<1>3. s[j] \in Byte /\ g[j] \in Byte
  BY <1>1
<1>4. /\ Files!Sum(g)[i] = Cardinality(Files!Ones(g, i)) % 2
      /\ Files!Sum(s)[i] = Cardinality(Files!Ones(s, i)) % 2
  BY <1>1, SameCardinality DEF Files!Sum
<1> HIDE DEF i
<1>5. \A n \in Nat : (n + 1) % 2 # n % 2
  OBVIOUS
<1>6. CASE s[j] = 1
  <2>1. g[j] = 0
    BY <1>3, <1>6 DEF Byte
  <2>2. Files!Ones(s, i) = Files!Ones(g, i) \cup {j} /\ j \notin Files!Ones(g, i)
    BY <1>2, <1>6, <2>1, WordsOf DEF Files!Ones, i
  <2>3. Cardinality(Files!Ones(s, i)) = Cardinality(Files!Ones(g, i)) + 1
    BY <2>2, OnesAreFinite, FS_AddElement
  <2>4. Cardinality(Files!Ones(g, i)) \in Nat
    BY OnesAreFinite
  <2>5. QED
    BY <1>4, <1>5, <2>3, <2>4
<1>7. CASE s[j] = 0
  <2>1. g[j] = 1
    BY <1>3, <1>7 DEF Byte
  <2>2. Files!Ones(g, i) = Files!Ones(s, i) \cup {j} /\ j \notin Files!Ones(s, i)
    BY <1>2, <1>7, <2>1, WordsOf DEF Files!Ones, i
  <2>3. Cardinality(Files!Ones(g, i)) = Cardinality(Files!Ones(s, i)) + 1
    BY <2>2, OnesAreFinite, FS_AddElement
  <2>4. Cardinality(Files!Ones(s, i)) \in Nat
    BY OnesAreFinite
  <2>5. QED
    BY <1>4, <1>5, <2>3, <2>4
<1>8. QED
  BY <1>3, <1>6, <1>7 DEF Byte

\* Files!Unseen, of a file that need not be the last.
Missed(t, c, d, p) ==
  LET off == Files!Before(t, c, p)
      len == Files!Size(t, c, p)
  IN  \/ d[1] = "cut" /\ d[2] < off + len
      \/ /\ d[1] = "flip" /\ d[2] - off \in 1..len
         /\ Files!Sum(Files!Bytes(c[p])) = Files!NoSum \/ d[2] - off > Files!Words(Files!Bytes(c[p]))

\* Harm leaves bytes: all, all but one, or the first ones.
LEMMA HarmOf ==
  ASSUME NEW b \in Seq(Byte), NEW d, NEW m \in Nat,
         d \in {<<"none", 0>>} \cup {<<"flip", i>> : i \in m + 1..Len(b)}
               \cup {<<"cut", n>> : n \in 1..Len(b) - 1}
  PROVE  /\ d[1] = "none" => Files!Harm(b, d) = b
         /\ d[1] = "flip" => /\ d[2] \in 1..Len(b) /\ Len(Files!Harm(b, d)) = Len(b)
                             /\ Files!Harm(b, d)[d[2]] # b[d[2]]
                             /\ \A n \in 1..Len(b) : n # d[2] => Files!Harm(b, d)[n] = b[n]
         /\ d[1] = "cut" => /\ d[2] \in 1..Len(b) /\ Len(Files!Harm(b, d)) = d[2]
                            /\ \A n \in 1..d[2] : Files!Harm(b, d)[n] = b[n]
         /\ d[1] \in {"none", "flip", "cut"}
         /\ Files!Harm(b, d) \in Seq(Byte)
<1>1. CASE d = <<"none", 0>>
  BY <1>1 DEF Files!Harm
<1>2. ASSUME NEW i \in m + 1..Len(b), d = <<"flip", i>>
      PROVE  /\ i \in 1..Len(b) /\ d[1] = "flip" /\ d[2] = i /\ Len(Files!Harm(b, d)) = Len(b)
             /\ Files!Harm(b, d)[i] # b[i]
             /\ \A n \in 1..Len(b) : n # i => Files!Harm(b, d)[n] = b[n]
             /\ Files!Harm(b, d) \in Seq(Byte)
  <2>1. i \in 1..Len(b) /\ d[1] = "flip" /\ d[2] = i
    BY <1>2
  <2>2. Files!Harm(b, d) = [b EXCEPT ![i] = 1 - b[i]]
    BY <2>1 DEF Files!Harm
  <2>3. b[i] \in {0, 1} /\ 1 - b[i] \in {0, 1} /\ 1 - b[i] # b[i]
    BY <2>1 DEF Byte
  <2>4. QED
    BY <2>1, <2>2, <2>3 DEF Byte
<1>3. ASSUME NEW k \in 1..Len(b) - 1, d = <<"cut", k>>
      PROVE  /\ k \in 1..Len(b) /\ d[1] = "cut" /\ d[2] = k /\ Len(Files!Harm(b, d)) = k
             /\ \A n \in 1..k : Files!Harm(b, d)[n] = b[n]
             /\ Files!Harm(b, d) \in Seq(Byte)
  <2>1. k \in 1..Len(b) /\ d[1] = "cut" /\ d[2] = k
    BY <1>3
  <2>2. Files!Harm(b, d) = SubSeq(b, 1, k)
    BY <2>1 DEF Files!Harm
  <2>3. QED
    BY <2>1, <2>2
<1>4. QED
  BY <1>1, <1>2, <1>3

LEMMA AcceptedFile ==
  ASSUME NEW t \in Types, NEW f \in Files!Accepted(t), NEW p \in Files!Names, Files!Has(t, p)
  PROVE  /\ p \in DOMAIN f.files /\ f.files[p] \in Seq(Byte)
         /\ f.files[p] = Files!Bytes(f.parts[p]) \/ Missed(t, f.parts, f.damage, p)
<1>1. PICK c \in Uploaded : \E d, lucky :
        /\ d \in Files!Damages(Files!Merge(t, c))
        /\ f = [parts |-> c, damage |-> d, files |-> Files!Split(Files!Damaged(Files!Merge(t, c), d))]
        /\ Files!Good(t, c, d, lucky)
  <2> DEFINE Made(a, h) ==
               [parts |-> a, damage |-> h, files |-> Files!Split(Files!Damaged(Files!Merge(t, a), h))]
             Passes(a) ==
               {h \in Files!Damages(Files!Merge(t, a)) : \E lucky \in BOOLEAN : Files!Good(t, a, h, lucky)}
  <2>1. Files!Accepted(t) = UNION {{Made(a, h) : h \in Passes(a)} : a \in Uploaded}
    BY Zenon DEF Files!Accepted
  <2> HIDE DEF Made
  <2>2. PICK a \in Uploaded : f \in {Made(a, h) : h \in Passes(a)}
    BY <2>1
  <2>3. PICK h \in Passes(a) : f = Made(a, h)
    BY <2>2
  <2>4. /\ h \in Files!Damages(Files!Merge(t, a))
        /\ \E lucky \in BOOLEAN : Files!Good(t, a, h, lucky)
    BY <2>3
  <2>5. f = [parts |-> a, damage |-> h, files |-> Files!Split(Files!Damaged(Files!Merge(t, a), h))]
    BY <2>3 DEF Made
  <2>6. \E lucky : Files!Good(t, a, h, lucky)
    BY <2>4
  <2>7. QED
    BY <2>4, <2>5, <2>6, Zenon
<1>2. PICK d, lucky :
        /\ d \in Files!Damages(Files!Merge(t, c))
        /\ f = [parts |-> c, damage |-> d, files |-> Files!Split(Files!Damaged(Files!Merge(t, c), d))]
        /\ Files!Good(t, c, d, lucky)
  BY <1>1
<1> DEFINE m == Files!Merge(t, c)
           g == Files!Damaged(m, d)
           b == m.bytes
           x == Files!Harm(b, d)
           off == Files!Before(t, c, p)
           len == Files!Size(t, c, p)
           s == Files!Bytes(c[p])
           y == Files!Copy(x, off, len)
<1>3. /\ m = [hd |-> m.hd, bytes |-> b] /\ m.hd.type = t /\ m.hd.off[p] = off /\ m.hd.len[p] = len
      /\ m.hd.sum[p] = Files!Sum(s)
  BY DEF Files!Merge, Files!Header
<1>4. g.hd = m.hd /\ g.bytes = x
  <2> HIDE DEF m, b, x
  <2>1. g = [m EXCEPT !.bytes = Files!Harm(m.bytes, d)]
    BY DEF Files!Damaged
  <2>2. QED
    BY <1>3, <2>1 DEF b, x
<1>5. /\ s \in Seq(Byte) /\ len = Len(s) /\ Files!Data(t, c, p) = s
  BY FileBytes DEF Files!Size, Files!Data
<1>6. /\ b \in Seq(Byte) /\ off \in Nat /\ len \in Nat /\ off + len <= Len(b) /\ off >= Files!SizeOf(t)
      /\ \A n \in 1..len : b[off + n] = Files!Data(t, c, p)[n]
  BY Merged
<1>7. Files!SizeOf(t) \in Nat
  BY FirmwareSizes DEF Files!SizeOf
<1>8. d \in {<<"none", 0>>} \cup {<<"flip", i>> : i \in Files!SizeOf(t) + 1..Len(b)}
               \cup {<<"cut", n>> : n \in 1..Len(b) - 1}
  <2>1. d \in Files!Damages(m)
    BY <1>2
  <2>2. Files!Damages(m) = {<<"none", 0>>}
                           \cup {<<"flip", i>> : i \in Files!SizeOf(m.hd.type) + 1..Len(m.bytes)}
                           \cup {<<"cut", n>> : n \in 1..Len(m.bytes) - 1}
    BY Zenon DEF Files!Damages
  <2> HIDE DEF m
  <2>3. QED
    BY <1>3, <2>1, <2>2, Zenon DEF b
<1>9. Files!CanSplit(g, lucky) /\ f.files = Files!Split(g) /\ f.parts = c /\ f.damage = d
  BY <1>2 DEF Files!Good
<1> HIDE DEF m, g
<1>10. Files!Part(g, p) = y
  BY <1>3, <1>4 DEF Files!Part
<1>11. p \in DOMAIN f.files /\ f.files[p] = y
  BY <1>3, <1>4, <1>9, <1>10 DEF Files!Split
<1>12. Files!Sum(s) \in {Files!NoSum, Files!Sum(y)}
  BY <1>3, <1>4, <1>9, <1>10 DEF Files!CanSplit
<1> HIDE DEF b, x, off, len, s, y
<1>13. /\ d[1] = "none" => x = b
       /\ d[1] = "flip" => /\ d[2] \in 1..Len(b) /\ Len(x) = Len(b) /\ x[d[2]] # b[d[2]]
                           /\ \A n \in 1..Len(b) : n # d[2] => x[n] = b[n]
       /\ d[1] = "cut" => /\ d[2] \in 1..Len(b) /\ Len(x) = d[2]
                          /\ \A n \in 1..d[2] : x[n] = b[n]
       /\ d[1] \in {"none", "flip", "cut"}
       /\ x \in Seq(Byte)
  BY <1>6, <1>7, <1>8, HarmOf DEF x
<1>14. y \in Seq(Byte)
  BY <1>6, <1>13, CopyOfBytes DEF y
<1>15. off + len <= Len(x) => y = [n \in 1..len |-> x[off + n]]
  BY <1>6, <1>13, CopyOfBytes DEF y
<1>16. \A n \in 1..len : b[off + n] = s[n] /\ off + n \in 1..Len(b)
  BY <1>5, <1>6
<1>17. ASSUME off + len <= Len(x), \A n \in 1..len : x[off + n] = b[off + n]
       PROVE  y = s
  BY <1>5, <1>6, <1>15, <1>16, <1>17
<1>18. y = s \/ Missed(t, c, d, p)
  <2>1. CASE d[1] = "none"
    BY <1>6, <1>13, <1>17, <2>1
  <2>2. CASE d[1] = "cut" /\ off + len <= d[2]
    <3>1. off + len <= Len(x) /\ \A n \in 1..len : off + n \in 1..d[2]
      BY <1>6, <1>13, <2>2
    <3>2. QED
      BY <1>13, <1>17, <2>2, <3>1
  <2>3. CASE d[1] = "cut" /\ ~(off + len <= d[2])
    <3>1. d[2] < off + len
      BY <1>6, <1>13, <2>3
    <3>2. QED
      BY <2>3, <3>1 DEF Missed, off, len
  <2>4. CASE d[1] = "flip" /\ d[2] - off \notin 1..len
    <3>1. \A n \in 1..len : off + n # d[2]
      BY <1>6, <1>13, <2>4
    <3>2. QED
      BY <1>6, <1>13, <1>16, <1>17, <2>4, <3>1
  <2>5. CASE d[1] = "flip" /\ d[2] - off \in 1..len
    <3> DEFINE j == d[2] - off
    <3>1. j \in 1..len /\ off + j = d[2] /\ \A n \in 1..len : n # j => off + n # d[2]
      BY <1>6, <1>13, <2>5
    <3> HIDE DEF j
    <3>2. y = [n \in 1..len |-> x[off + n]]
      BY <1>6, <1>13, <1>15, <2>5
    <3>3. y[j] # s[j] /\ Len(y) = Len(s) /\ \A n \in 1..Len(s) : n # j => y[n] = s[n]
      BY <1>5, <1>6, <1>13, <1>16, <2>5, <3>1, <3>2
    <3>4. CASE j \in 1..Files!Words(s)
      <4>1. Files!Sum(y) # Files!Sum(s)
        BY <1>5, <1>14, <3>3, <3>4, OneByteShows
      <4>2. Files!Sum(s) = Files!NoSum
        BY <1>12, <4>1
      <4>3. QED
        BY <2>5, <4>2 DEF Missed, off, len, s
    <3>5. CASE j \notin 1..Files!Words(s)
      <4>1. j > Files!Words(s)
        BY <1>5, <1>6, <3>1, <3>5, WordsOf
      <4>2. QED
        BY <2>5, <4>1 DEF Missed, off, len, s, j
    <3>6. QED
      BY <3>4, <3>5
  <2>6. QED
    BY <1>13, <2>1, <2>2, <2>3, <2>4, <2>5
<1>19. QED
  BY <1>9, <1>11, <1>14, <1>18 DEF s

------------------------------------------------------------------------------
(* What is flashed.                                                         *)

Sized == /\ type \in Types /\ accepted = Files!Accepted(type)
         /\ partitions = [p \in Files!Flashing |-> partitions[p]]

\* What is in /tmp is split from the last file that was accepted.
FromLast ==
  \E f \in accepted :
    /\ last = [parts |-> f.parts, damage |-> f.damage]
    /\ \A p \in Files!Names : Files!Has(type, p) => tmp[p] = f.files[p]
Kept == tmp = Files!NoTmp \/ FromLast

\* Where FlashIt is when it has compared a part.
Past(p) ==
  CASE p = "kernel" ->
         {"initramfs", "check initramfs", "sqimage", "check sqimage", "settings", "fill", "done"}
    [] p = "initramfs" -> {"sqimage", "check sqimage", "settings", "fill", "done"}
    [] p = "sqimage" -> {"settings", "fill", "done"}

Compared(p) == partitions[p] = tmp[p] \/ (p = "sqimage" /\ tmp[p] \in {NoFile, <<>>})

\* FlashIt alone: its files are there, and what it compared is as they are.
Alone ==
  ~overlapped =>
    /\ at # "idle" => tmp["kernel"] # NoFile
    /\ \A p \in Files!Flashing : at \in Past(p) => Compared(p)
    /\ at = "done" /\ want = "flashfile" =>
         settings = IF Files!Bytes(tmp["defaults"]) = <<>> THEN Empty ELSE tmp["defaults"]

\* FlashedIsWhole says nothing of the steps before the page: until then the files
\* that are flashed are those of the last upload, and stay where they are.
FwInv == Sized /\ Kept /\ Alone /\ FlashedIsWhole

LEMMA Places ==
  ASSUME NEW p \in Files!Flashing
  PROVE  \/ p = "kernel" /\ Files!Check[p] = "check kernel" /\ Files!After(p) = "initramfs"
         \/ /\ p = "initramfs" /\ Files!Check[p] = "check initramfs"
            /\ Files!After(p) = (IF tmp["sqimage"] \in {NoFile, <<>>} THEN "settings" ELSE "sqimage")
         \/ p = "sqimage" /\ Files!Check[p] = "check sqimage" /\ Files!After(p) = "settings"
<1>1. /\ Files!Check["kernel"] = "check kernel" /\ Files!Check["initramfs"] = "check initramfs"
      /\ Files!Check["sqimage"] = "check sqimage"
  BY DEF Files!Check
<1>2. QED
  BY <1>1 DEF Files!Flashing, Files!After

LEMMA FwInit == Files!Init => FwInv
<1> SUFFICES ASSUME Files!Init PROVE FwInv
  OBVIOUS
<1>1. Sized /\ Kept
  BY DEF Files!Init, Sized, Kept, Types
<1>2. Alone
  BY DEF Files!Init, Alone, Past, Files!Flashing
<1>3. FlashedIsWhole
  BY DEF Files!Init, FlashedIsWhole, Files!FlashedIsWhole
<1>4. QED
  BY <1>1, <1>2, <1>3 DEF FwInv

\* What a page does that is asked for by itself or while FlashIt runs.
LEMMA PagesKeep ==
  ASSUME FwInv, Files!Upload \/ Files!Abort \/ Files!SpecialReboot \/ Files!TryIt
  PROVE  FwInv'
<1>1. /\ type' = type /\ accepted' = accepted /\ partitions' = partitions /\ at' = at /\ want' = want
      /\ settings' = settings /\ overlapped' = (overlapped \/ at # "idle") /\ page' # "flashed"
  BY DEF Files!Upload, Files!Abort, Files!SpecialReboot, Files!TryIt, Files!Disturbs
<1>2. Sized'
  BY <1>1 DEF FwInv, Sized
<1>3. tmp' = Files!NoTmp \/ FromLast'
  <2>1. CASE tmp' = Files!NoTmp
    BY <2>1
  <2>2. CASE tmp' # Files!NoTmp
    <3>1. PICK f \in accepted :
            /\ tmp' = [p \in Files!Names |-> IF p \in DOMAIN f.files THEN f.files[p] ELSE tmp[p]]
            /\ last' = [parts |-> f.parts, damage |-> f.damage]
      BY <2>2 DEF Files!Upload, Files!Abort, Files!SpecialReboot, Files!TryIt
    <3>2. ASSUME NEW p \in Files!Names, Files!Has(type, p) PROVE tmp'[p] = f.files[p]
      <4>1. p \in DOMAIN f.files
        BY <3>2, AcceptedFile DEF FwInv, Sized
      <4>2. QED
        BY <3>1, <4>1
    <3>3. QED
      BY <1>1, <3>1, <3>2 DEF FromLast, Files!Has
  <2>3. QED
    BY <2>1, <2>2
<1>4. Alone'
  <2>1. at # "idle" => overlapped'
    BY <1>1
  <2>2. at = "idle" => \A p \in Files!Flashing : at \notin Past(p)
    BY DEF Past, Files!Flashing
  <2>3. QED
    BY <1>1, <2>1, <2>2 DEF Alone, Past
<1>5. FlashedIsWhole'
  BY <1>1 DEF FlashedIsWhole, Files!FlashedIsWhole
<1>6. QED
  BY <1>2, <1>3, <1>4, <1>5 DEF FwInv, Kept, Files!NoTmp

LEMMA FlashItKeeps ==
  ASSUME FwInv, Files!FlashIt
  PROVE  FwInv'
<1>1. /\ type' = type /\ accepted' = accepted /\ partitions' = partitions /\ last' = last
      /\ \/ tmp' = tmp /\ tmp["kernel"] # NoFile /\ at' = "kernel"
         \/ tmp' = Files!NoTmp /\ at' = "idle" /\ page' = "missing"
  BY DEF Files!FlashIt, Files!Complete
<1>2. Sized' /\ Kept'
  BY <1>1 DEF FwInv, Sized, Kept, FromLast, Files!NoTmp, Files!Has
<1>3. Alone'
  BY <1>1 DEF Alone, Past, Files!Flashing
<1>4. FlashedIsWhole'
  BY <1>1 DEF FlashedIsWhole, Files!FlashedIsWhole
<1>5. QED
  BY <1>2, <1>3, <1>4 DEF FwInv

LEMMA WriteKeeps ==
  ASSUME FwInv, NEW p \in Files!Flashing, Files!Write(p)
  PROVE  FwInv'
<1>1. /\ type' = type /\ accepted' = accepted /\ tmp' = tmp /\ last' = last /\ overlapped' = overlapped
      /\ at = p /\ at' = Files!Check[p] /\ \E x : partitions' = [partitions EXCEPT ![p] = x]
  BY DEF Files!Write
<1>2. /\ partitions' = [q \in Files!Flashing |-> partitions'[q]]
      /\ \A q \in Files!Flashing : q # p => partitions'[q] = partitions[q]
  BY <1>1 DEF FwInv, Sized
<1>3. Sized' /\ Kept'
  BY <1>1, <1>2 DEF FwInv, Sized, Kept, FromLast, Files!NoTmp, Files!Has
<1>4. \A q \in Files!Flashing : at' \in Past(q) => at \in Past(q) /\ q # p
  BY <1>1, Places DEF Past, Files!Flashing
<1>5. Alone'
  <2>1. at # "idle" /\ at' \notin {"idle", "done"}
    BY <1>1, Places
  <2>2. ~overlapped => \A q \in Files!Flashing : at' \in Past(q) => Compared(q)'
    BY <1>1, <1>2, <1>4 DEF FwInv, Alone, Compared
  <2>3. QED
    BY <1>1, <2>1, <2>2 DEF FwInv, Alone, Past
<1>6. FlashedIsWhole'
  BY <1>1, Places DEF FlashedIsWhole, Files!FlashedIsWhole
<1>7. QED
  BY <1>3, <1>5, <1>6 DEF FwInv

LEMMA VerifyKeeps ==
  ASSUME FwInv, NEW p \in Files!Flashing, Files!Verify(p)
  PROVE  FwInv'
<1>1. /\ type' = type /\ accepted' = accepted /\ last' = last /\ overlapped' = overlapped
      /\ partitions' = partitions /\ at = Files!Check[p]
      /\ \/ partitions[p] = tmp[p] /\ at' = Files!After(p) /\ tmp' = tmp /\ page' = page
         \/ at' = "idle" /\ tmp' = Files!NoTmp /\ page' = "failed"
  BY DEF Files!Verify
<1>2. Sized' /\ Kept'
  BY <1>1 DEF FwInv, Sized, Kept, FromLast, Files!NoTmp, Files!Has
<1>3. CASE at' = "idle" /\ tmp' = Files!NoTmp /\ page' = "failed"
  <2>1. Alone'
    BY <1>3 DEF Alone, Past, Files!Flashing
  <2>2. FlashedIsWhole'
    BY <1>3 DEF FlashedIsWhole, Files!FlashedIsWhole
  <2>3. QED
    BY <1>2, <2>1, <2>2 DEF FwInv
<1>4. CASE partitions[p] = tmp[p] /\ at' = Files!After(p) /\ tmp' = tmp /\ page' = page
  <2>1. at # "idle" /\ at' \in {"initramfs", "sqimage", "settings"}
    BY <1>1, <1>4, Places
  <2>2. \A q \in Files!Flashing : at' \in Past(q) =>
          at \in Past(q) \/ q = p \/ (q = "sqimage" /\ tmp[q] \in {NoFile, <<>>})
    BY <1>1, <1>4, Places DEF Past, Files!Flashing
  <2>3. ~overlapped => \A q \in Files!Flashing : at' \in Past(q) => Compared(q)'
    BY <1>1, <1>4, <2>2 DEF FwInv, Alone, Compared
  <2>4. Alone'
    BY <1>1, <1>4, <2>1, <2>3 DEF FwInv, Alone, Past
  <2>5. FlashedIsWhole'
    BY <2>1 DEF FlashedIsWhole, Files!FlashedIsWhole
  <2>6. QED
    BY <1>2, <2>4, <2>5 DEF FwInv
<1>5. QED
  BY <1>1, <1>3, <1>4

LEMMA SettingsKeep ==
  ASSUME FwInv, Files!Erase \/ Files!Fill
  PROVE  FwInv'
<1>1. /\ type' = type /\ accepted' = accepted /\ tmp' = tmp /\ last' = last /\ overlapped' = overlapped
      /\ partitions' = partitions /\ want' = want /\ at \in {"settings", "fill"} /\ at' \in {"fill", "done"}
      /\ at' = "done" /\ want = "flashfile" =>
           settings' = IF Files!Bytes(tmp["defaults"]) = <<>> THEN Empty ELSE tmp["defaults"]
  BY DEF Files!Erase, Files!Fill
<1>2. Sized' /\ Kept'
  BY <1>1 DEF FwInv, Sized, Kept, FromLast, Files!NoTmp, Files!Has
<1>3. \A q \in Files!Flashing : at \in Past(q)
  BY <1>1 DEF Past, Files!Flashing
<1>4. Alone'
  <2>1. ~overlapped => \A q \in Files!Flashing : Compared(q)'
    BY <1>1, <1>3 DEF FwInv, Alone, Compared
  <2>2. QED
    BY <1>1, <2>1 DEF FwInv, Alone, Files!Bytes
<1>5. FlashedIsWhole'
  BY <1>1 DEF FlashedIsWhole, Files!FlashedIsWhole
<1>6. QED
  BY <1>2, <1>4, <1>5 DEF FwInv

LEMMA RebootKeeps ==
  ASSUME FwInv, Files!Reboot
  PROVE  FwInv'
<1>1. /\ type' = type /\ accepted' = accepted /\ tmp' = Files!NoTmp /\ at' = "idle"
      /\ page' \in {"dead", "start"}
      /\ partitions' = partitions \/ \E p \in Files!Flashing : partitions' = [partitions EXCEPT ![p] = Lost]
  BY DEF Files!Reboot
<1>2. Sized' /\ Kept'
  BY <1>1 DEF FwInv, Sized, Kept, Files!NoTmp
<1>3. Alone'
  BY <1>1 DEF Alone, Past, Files!Flashing
<1>4. FlashedIsWhole'
  BY <1>1 DEF FlashedIsWhole, Files!FlashedIsWhole
<1>5. QED
  BY <1>2, <1>3, <1>4 DEF FwInv

\* What the page tells when FlashIt is done.
LEMMA FinishKeeps ==
  ASSUME FwInv, Files!Finish
  PROVE  FwInv'
<1>1. /\ type' = type /\ accepted' = accepted /\ tmp' = Files!NoTmp
      /\ last' = last /\ overlapped' = overlapped
      /\ partitions' = partitions /\ want' = want /\ at = "done" /\ at' = "idle" /\ settings' = settings
  BY DEF Files!Finish
<1>2. Sized' /\ Kept'
  BY <1>1 DEF FwInv, Sized, Kept, Files!NoTmp
<1>3. Alone'
  BY <1>1 DEF Alone, Past, Files!Flashing
<1>4. ASSUME ~overlapped PROVE FlashedIsWhole'
  <2>1. tmp["kernel"] # NoFile
    BY <1>1, <1>4 DEF FwInv, Alone
  <2>2. PICK f \in accepted :
          /\ last = [parts |-> f.parts, damage |-> f.damage]
          /\ \A p \in Files!Names : Files!Has(type, p) => tmp[p] = f.files[p]
    BY <2>1 DEF FwInv, Kept, FromLast, Files!NoTmp, Files!Names
  <2>3. ASSUME NEW p \in Files!Names, Files!Has(type, p)
        PROVE  /\ tmp[p] \in Seq(Byte) /\ tmp[p] # NoFile
               /\ tmp[p] = Files!Bytes(last.parts[p]) \/ Files!Unseen(p)
    <3>1. /\ f.files[p] \in Seq(Byte)
          /\ f.files[p] = Files!Bytes(f.parts[p]) \/ Missed(type, f.parts, f.damage, p)
      BY <2>3, AcceptedFile DEF FwInv, Sized
    <3>2. tmp[p] = f.files[p] /\ f.parts = last.parts /\ f.damage = last.damage
      BY <2>2, <2>3
    <3>3. Missed(type, last.parts, last.damage, p) => Files!Unseen(p)
      BY DEF Missed, Files!Unseen, Files!Merge, Files!Header
    <3>4. QED
      BY <3>1, <3>2, <3>3, FilesAssumption DEF Byte
  <2>4. \A p \in Files!Flashing : Compared(p)
    BY <1>1, <1>4 DEF FwInv, Alone, Past, Files!Flashing
  <2>5. ASSUME NEW p \in Files!Flashing, Files!Has(type, p)
        PROVE  partitions[p] = Files!Bytes(last.parts[p]) \/ Files!Unseen(p)
               \/ (p = "sqimage" /\ Files!Bytes(last.parts[p]) = <<>>)
    <3>1. p \in Files!Names
      BY DEF Files!Flashing, Files!Names
    <3>2. QED
      BY <2>3, <2>4, <2>5, <3>1 DEF Compared
  <2>6. want = "flashfile" =>
          \/ settings = Files!Bytes(last.parts["defaults"]) \/ Files!Unseen("defaults")
          \/ (settings = Empty /\ Files!Bytes(last.parts["defaults"]) = <<>>)
    <3>1. "defaults" \in Files!Names /\ Files!Has(type, "defaults")
      BY DEF Files!Names, Files!Has
    <3>2. /\ tmp["defaults"] # NoFile
          /\ tmp["defaults"] = Files!Bytes(last.parts["defaults"]) \/ Files!Unseen("defaults")
      BY <2>3, <3>1
    <3>3. want = "flashfile" => settings = IF tmp["defaults"] = <<>> THEN Empty ELSE tmp["defaults"]
      BY <1>1, <1>4, <3>2 DEF FwInv, Alone, Files!Bytes
    <3>4. QED
      BY <3>2, <3>3
  <2>7. \A p : Files!Unseen(p)' <=> Files!Unseen(p)
    BY <1>1 DEF Files!Unseen, Files!Merge, Files!Header, Files!Before, Files!Size, Files!SizeOf, Files!Has
  <2>8. QED
    BY <1>1, <2>5, <2>6, <2>7 DEF FlashedIsWhole, Files!FlashedIsWhole, Files!Has
<1>5. FlashedIsWhole'
  BY <1>1, <1>4 DEF FlashedIsWhole, Files!FlashedIsWhole
<1>6. QED
  BY <1>2, <1>3, <1>5 DEF FwInv

\* FlashedIsWhole (Firmware.tla): when the page asks for a reboot the partitions
\* hold the parts of one file as they were merged, but for what no checksum shows.
THEOREM FlashedHolds == Files!Spec => []FlashedIsWhole
<1>1. FwInv /\ [Files!Next]_(Files!vars) => FwInv'
  <2> SUFFICES ASSUME FwInv, [Files!Next]_(Files!vars) PROVE FwInv'
    OBVIOUS
  <2>1. CASE UNCHANGED Files!vars
    BY <2>1 DEF Files!vars, FwInv, Sized, Kept, FromLast, Alone, Past, Compared, FlashedIsWhole,
                Files!FlashedIsWhole, Files!Unseen, Files!Has
  <2>2. CASE Files!Upload \/ Files!Abort \/ Files!SpecialReboot \/ Files!TryIt
    BY <2>2, PagesKeep
  <2>3. CASE Files!FlashIt
    BY <2>3, FlashItKeeps
  <2>4. CASE \E p \in Files!Flashing : Files!Write(p) \/ Files!Verify(p)
    BY <2>4, WriteKeeps, VerifyKeeps
  <2>5. CASE Files!Erase \/ Files!Fill
    BY <2>5, SettingsKeep
  <2>6. CASE Files!Finish
    BY <2>6, FinishKeeps
  <2>7. CASE Files!Reboot
    BY <2>7, RebootKeeps
  <2>8. QED
    BY <2>1, <2>2, <2>3, <2>4, <2>5, <2>6, <2>7 DEF Files!Next
<1>2. FwInv => FlashedIsWhole
  BY DEF FwInv
<1>3. QED
  BY FwInit, <1>1, <1>2, PTL DEF Files!Spec

------------------------------------------------------------------------------
\* A behaviour of the run is one of the settings and one of the firmware, each by
\* itself: what is proved of one holds of the run.
THEOREM EachByItself == MCSpec => Spec /\ Files!Spec
<1> DEFINE all == <<what, vars, fileVars>>
<1>1. MCInit => Init /\ Files!Init
  BY DEF MCInit
<1>2. [MCNext]_all => [Next]_vars /\ [Files!Next]_(Files!vars)
  <2>1. UNCHANGED fileVars => UNCHANGED Files!vars
    BY DEF fileVars, Files!vars
  <2>2. QED
    BY <2>1 DEF MCNext, Settings, Flashes
<1>3. QED
  BY <1>1, <1>2, PTL DEF MCSpec, Spec, Files!Spec
==============================================================================
