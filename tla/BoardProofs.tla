----------------------------- MODULE BoardProofs -----------------------------
(***************************************************************************)
(* The table of the socket server is counted right, for any clients and    *)
(* any size of the table.  accept() must find a free slot whenever the     *)
(* count says there is one, and a free descriptor: every open connection   *)
(* is in some slot, though a slot may hold a descriptor that was closed    *)
(* and given to another one since.  Nor does that slot ever close the      *)
(* connection of a client that waits.                                      *)
(*                                                                         *)
(* What a client is told of the alarm is right, for any number of          *)
(* registers, tries and faults of the serial line.                         *)
(***************************************************************************)
EXTENDS MCBoard, FiniteSetTheorems, TLAPS

Typed ==
  /\ slots \in [Slots -> Fds \cup {-1}] /\ nfds \in Int
  /\ open = [g \in Fds |-> open[g]]
  /\ todo \in [0..MaxFds-1 -> {"none", "in", "hup", "nval"}]

\* Only used slots have something to do.
TodoIsUsed == \A s \in Slots: todo[s] # "none" => slots[s] # -1

\* Every connection is in a slot; one that took the descriptor of a slot found
\* invalid is in another slot, which has nothing to do in this pass.
Held == \A g \in Fds: open[g] # NoClient => \E s \in Slots: slots[s] = g
StaleIsHeld == \A s \in Slots: todo[s] = "nval" /\ open[slots[s]] # NoClient =>
  \E j \in Slots: slots[j] = slots[s] /\ todo[j] = "none"

IInv == Typed /\ TodoIsUsed /\ Held /\ StaleIsHeld /\ SlotsCounted

LEMMA SlotsFinite ==
  /\ IsFiniteSet(Slots) /\ Cardinality(Slots) = MaxFds - 1
  /\ IsFiniteSet(Fds) /\ Cardinality(Fds) = MaxFds
<1>1. MaxFds \in Int /\ MaxFds > 1
  BY MaxFdsAssumption
<1>2. QED
  BY <1>1, FS_Interval, 1 \in Int, MaxFds - 1 \in Int DEF Slots, Fds

LEMMA UsedFinite == IsFiniteSet(Used) /\ Cardinality(Used) \in Nat /\ Cardinality(Used) <= MaxFds - 1
<1>1. Used \in SUBSET Slots
  BY DEF Used
<1>2. QED
  BY <1>1, SlotsFinite, FS_Subset, FS_CardinalityType

\* A table that is not full has a free slot.
LEMMA SlotFree ==
  ASSUME IInv, nfds # MaxFds PROVE Slots \ Used # {}
<1>1. Cardinality(Used) # MaxFds - 1
  BY UsedFinite, MaxFdsAssumption DEF IInv, SlotsCounted
<1>2. Used # Slots
  BY <1>1, SlotsFinite
<1>3. QED
  BY <1>2 DEF Used

\* There are more descriptors than slots, so one is free.
LEMMA FdFree ==
  ASSUME IInv PROVE \E g \in Fds: open[g] = NoClient
<1> SUFFICES ASSUME \A g \in Fds: open[g] # NoClient PROVE FALSE
  OBVIOUS
<1> DEFINE slotOf == [g \in Fds |-> CHOOSE s \in Slots: slots[s] = g]
<1>1. \A g \in Fds: slotOf[g] \in Slots /\ slots[slotOf[g]] = g
  BY DEF IInv, Held
<1>2. slotOf \in [Fds -> Slots]
  BY <1>1
<1>3. Cardinality(Slots) < Cardinality(Fds)
  BY SlotsFinite, MaxFdsAssumption
<1> HIDE DEF slotOf
<1>4. \E x, y \in Fds: x # y /\ slotOf[x] = slotOf[y]
  BY <1>2, <1>3, SlotsFinite, FS_PigeonHole
<1>5. QED
  BY <1>1, <1>4

\* A finite set of integers has a lowest member: of the sets of what is below one
\* of them, one has none of the others inside.
LEMMA LowestIsMember ==
  ASSUME NEW S \in SUBSET Int, S # {}, IsFiniteSet(S) PROVE Lowest(S) \in S
<1> DEFINE Below(x) == {y \in S: y < x}
           R == StrictSubsetOrdering(S)
           T == {Below(x): x \in S}
<1>1. IsWellFoundedOn(R, SUBSET S)
  BY FS_StrictSubsetOrderingWellFounded, FS_FiniteSubsetsOfFinite
<1>2. T \subseteq SUBSET S /\ T # {}
  OBVIOUS
<1>3. \E b \in T: \A a \in T: <<a, b>> \notin R
  <2> HIDE DEF R, T
  <2> QED BY <1>1, <1>2, WFMin
<1>4. PICK x \in S: \A y \in S: <<Below(y), Below(x)>> \notin R
  BY <1>3
<1>5. ASSUME NEW y \in S PROVE x <= y
  <2> SUFFICES ASSUME y < x PROVE FALSE
    BY S \in SUBSET Int
  <2>1. y \in Below(x) /\ y \notin Below(y) /\ Below(y) \subseteq Below(x)
    <3>1. \A z \in S: z \in Int
      BY S \in SUBSET Int
    <3>2. \A z \in S: z < y => z < x
      BY <3>1
    <3>3. y \in Below(x) /\ y \notin Below(y)
      BY <3>1
    <3>4. QED
      BY <3>2, <3>3
  <2>2. <<Below(y), Below(x)>> \in R
    <3> HIDE DEF Below
    <3> QED BY <2>1, <1>2, Below(y) \in SUBSET S, Below(x) \in SUBSET S DEF StrictSubsetOrdering, Below
  <2>3. QED
    BY <2>2, <1>4
<1>6. QED
  BY <1>5 DEF Lowest

------------------------------------------------------------------------------
LEMMA InitHolds == Init => IInv
<1> SUFFICES ASSUME Init PROVE IInv
  OBVIOUS
<1>1. Used = {}
  BY DEF Init, Used
<1>2. SlotsCounted
  BY <1>1, FS_EmptySet DEF SlotsCounted, Init
<1>3. Typed
  BY DEF Init, Typed, Quiet, Fds
<1>4. TodoIsUsed /\ Held /\ StaleIsHeld
  BY DEF Init, TodoIsUsed, Held, StaleIsHeld, Quiet, Slots
<1>5. QED
  BY <1>2, <1>3, <1>4 DEF IInv

\* Slots that keep their descriptors are counted as before.
LEMMA SameTable ==
  ASSUME SlotsCounted, UNCHANGED table PROVE SlotsCounted'
BY DEF SlotsCounted, table, Used

LEMMA PollStep ==
  ASSUME IInv, Poll PROVE IInv'
<1>1. SlotsCounted'
  BY SameTable DEF Poll, IInv
<1>2. todo' \in [0..MaxFds-1 -> {"none", "in", "hup", "nval"}]
  BY DEF Poll
<1>3. \A s \in Slots: todo'[s] \in Revents(s)
  BY DEF Poll
<1>4. \A s \in Slots: slots[s] = -1 => todo'[s] = "none"
  BY <1>3 DEF Revents
<1>5. \A s \in Slots: todo'[s] = "nval" => open[slots[s]] = NoClient
  BY <1>3 DEF Revents
<1>6. UNCHANGED <<slots, nfds, open>>
  BY DEF Poll, table
<1>7. Typed'
  BY <1>2, <1>6 DEF IInv, Typed
<1>8. TodoIsUsed' /\ StaleIsHeld'
  BY <1>4, <1>5, <1>6 DEF TodoIsUsed, StaleIsHeld
<1>9. Held'
  BY <1>6 DEF IInv, Held
<1>10. QED
  BY <1>1, <1>7, <1>8, <1>9 DEF IInv

\* Steps that take one event and leave the table and the connections alone.
LEMMA SkipStep ==
  ASSUME IInv, NEW s \in 0..MaxFds-1, Done(s), UNCHANGED <<table, open>> PROVE IInv'
<1>1. SlotsCounted'
  BY SameTable DEF IInv
<1>2. UNCHANGED <<slots, nfds, open>>
  BY DEF table
<1>3. QED
  BY <1>1, <1>2 DEF Done, IInv, Typed, TodoIsUsed, Held, StaleIsHeld

LEMMA AcceptStep ==
  ASSUME IInv, Accept PROVE IInv'
<1> DEFINE j == Lowest(Slots \ Used)
           f == Lowest({g \in Fds: open[g] = NoClient})
<1>1. j \in Slots /\ slots[j] = -1
  <2>1. nfds # MaxFds
    BY DEF Accept
  <2>2. IsFiniteSet(Slots \ Used)
    BY SlotsFinite, FS_Subset
  <2>3. Slots \ Used \in SUBSET Int
    BY MaxFdsAssumption DEF Slots
  <2>4. j \in Slots \ Used
    BY <2>1, <2>2, <2>3, SlotFree, LowestIsMember
  <2>5. QED
    BY <2>4 DEF Used
<1>2. f \in Fds /\ open[f] = NoClient
  <2>1. {g \in Fds: open[g] = NoClient} # {}
    BY FdFree
  <2>2. {g \in Fds: open[g] = NoClient} \in SUBSET Int
    BY MaxFdsAssumption DEF Fds
  <2>3. IsFiniteSet({g \in Fds: open[g] = NoClient})
    BY SlotsFinite, FS_Subset
  <2>4. f \in {g \in Fds: open[g] = NoClient}
    BY <2>1, <2>2, <2>3, LowestIsMember
  <2>5. QED
    BY <2>4
<1>3. /\ slots' = [slots EXCEPT ![j] = f] /\ open' = [open EXCEPT ![f] = Head(backlog)]
      /\ nfds' = nfds + 1 /\ todo' = [todo EXCEPT ![0] = "none"]
  BY DEF Accept, Done
<1> HIDE DEF j, f
<1>4. f # -1 /\ f \in Int
  BY <1>2, MaxFdsAssumption DEF Fds
<1>5. Typed'
  <2>1. slots' \in [Slots -> Fds \cup {-1}] /\ nfds' \in Int
    BY <1>1, <1>2, <1>3 DEF IInv, Typed
  <2>2. open' = [g \in Fds |-> open'[g]]
    BY <1>2, <1>3 DEF IInv, Typed
  <2>3. todo' \in [0..MaxFds-1 -> {"none", "in", "hup", "nval"}]
    BY <1>3 DEF IInv, Typed
  <2>4. QED
    BY <2>1, <2>2, <2>3 DEF Typed
<1>6. TodoIsUsed'
  BY <1>1, <1>3, <1>4 DEF IInv, Typed, TodoIsUsed, Slots
<1>7. Held'
  <2>1. ASSUME NEW g \in Fds, open'[g] # NoClient PROVE \E s \in Slots: slots'[s] = g
    <3>1. CASE g = f
      BY <3>1, <1>1, <1>3 DEF IInv, Typed
    <3>2. CASE g # f
      <4>1. open[g] # NoClient
        BY <3>2, <2>1, <1>2, <1>3 DEF IInv, Typed
      <4>2. PICK s \in Slots: slots[s] = g
        BY <4>1 DEF IInv, Held
      <4>3. s # j
        BY <4>2, <1>1, MaxFdsAssumption DEF Fds
      <4>4. QED
        BY <4>2, <4>3, <1>3 DEF IInv, Typed
    <3>3. QED
      BY <3>1, <3>2
  <2>2. QED
    BY <2>1 DEF Held
<1>8. StaleIsHeld'
  <2>1. ASSUME NEW s \in Slots, todo'[s] = "nval", open'[slots'[s]] # NoClient
        PROVE  \E k \in Slots: slots'[k] = slots'[s] /\ todo'[k] = "none"
    <3>1. s # 0 /\ todo[s] = "nval"
      BY <2>1, <1>3, MaxFdsAssumption DEF IInv, Typed, Slots
    <3>2. slots[s] # -1 /\ s # j /\ todo[j] = "none"
      BY <3>1, <1>1 DEF IInv, TodoIsUsed
    <3>3. slots'[s] = slots[s] /\ slots'[j] = f /\ slots[s] \in Fds
      BY <3>2, <1>1, <1>3 DEF IInv, Typed
    <3>4. todo'[j] = "none"
      BY <3>2, <1>1, <1>3, MaxFdsAssumption DEF IInv, Typed, Slots
    <3>5. CASE slots[s] = f
      BY <3>3, <3>4, <3>5, <1>1
    <3>6. CASE slots[s] # f
      <4>1. open[slots[s]] # NoClient
        BY <3>6, <3>3, <2>1, <1>2, <1>3 DEF IInv, Typed
      <4>2. PICK k \in Slots: slots[k] = slots[s] /\ todo[k] = "none"
        BY <4>1, <3>1 DEF IInv, StaleIsHeld
      <4>3. k # j
        BY <4>2, <3>2, <1>1
      <4>4. slots'[k] = slots[k] /\ todo'[k] = "none"
        BY <4>2, <4>3, <1>3, MaxFdsAssumption DEF IInv, Typed, Slots
      <4>5. QED
        BY <4>2, <4>4, <3>3
    <3>7. QED
      BY <3>5, <3>6
  <2>2. QED
    BY <2>1 DEF StaleIsHeld
<1>9. SlotsCounted'
  <2>1. Used' = Used \cup {j} /\ j \notin Used
    BY <1>1, <1>3, <1>4 DEF Used, IInv, Typed
  <2>2. Cardinality(Used \cup {j}) = Cardinality(Used) + 1
    BY <2>1, UsedFinite, FS_AddElement
  <2>3. Cardinality(Used)' = Cardinality(Used) + 1
    BY <2>1, <2>2
  <2>4. QED
    BY <2>3, <1>3, UsedFinite DEF IInv, SlotsCounted
<1>10. QED
  BY <1>5, <1>6, <1>7, <1>8, <1>9 DEF IInv

\* A slot that had something to do is freed, its connection closed if it was
\* not closed before.
LEMMA FreeStep ==
  ASSUME IInv, NEW s \in Slots, todo[s] # "none", Done(s), FreeSlot(s),
         \/ open' = [open EXCEPT ![slots[s]] = NoClient]
         \/ todo[s] = "nval" /\ open' = open
  PROVE  IInv'
<1>1. s \in 0..MaxFds-1 /\ slots[s] # -1 /\ slots[s] \in Fds
  BY MaxFdsAssumption DEF IInv, TodoIsUsed, Typed, Slots
<1>2. /\ slots' = [slots EXCEPT ![s] = -1] /\ nfds' = nfds - 1
      /\ todo' = [todo EXCEPT ![s] = "none"]
  BY DEF FreeSlot, Done
<1>3. Typed'
  <2>1. slots' \in [Slots -> Fds \cup {-1}] /\ nfds' \in Int
    BY <1>2 DEF IInv, Typed
  <2>2. open' = [g \in Fds |-> open'[g]]
    BY <1>1 DEF IInv, Typed
  <2>3. todo' \in [0..MaxFds-1 -> {"none", "in", "hup", "nval"}]
    BY <1>2 DEF IInv, Typed
  <2>4. QED
    BY <2>1, <2>2, <2>3 DEF Typed
<1>4. TodoIsUsed'
  BY <1>1, <1>2 DEF IInv, Typed, TodoIsUsed, Slots
<1>5. \A g \in Fds: open'[g] # NoClient => open[g] # NoClient
  BY <1>1 DEF IInv, Typed
<1>6. Held'
  <2>1. ASSUME NEW g \in Fds, open'[g] # NoClient PROVE \E k \in Slots: slots'[k] = g
    <3>1. PICK k \in Slots: slots[k] = g
      BY <1>5, <2>1 DEF IInv, Held
    <3>2. CASE k # s
      BY <3>1, <3>2, <1>2 DEF IInv, Typed
    <3>3. CASE k = s
      <4>1. todo[s] = "nval" /\ open' = open
        BY <3>1, <3>3, <2>1, <1>1 DEF IInv, Typed
      <4>2. PICK i \in Slots: slots[i] = g /\ todo[i] = "none"
        BY <4>1, <3>1, <3>3, <2>1 DEF IInv, StaleIsHeld
      <4>3. QED
        BY <4>2, <1>2 DEF IInv, Typed
    <3>4. QED
      BY <3>2, <3>3
  <2>2. QED
    BY <2>1 DEF Held
<1>7. StaleIsHeld'
  <2>1. ASSUME NEW r \in Slots, todo'[r] = "nval", open'[slots'[r]] # NoClient
        PROVE  \E k \in Slots: slots'[k] = slots'[r] /\ todo'[k] = "none"
    <3>1. r # s /\ todo[r] = "nval" /\ slots'[r] = slots[r] /\ slots[r] # -1
      BY <2>1, <1>1, <1>2 DEF IInv, Typed, TodoIsUsed, Slots
    <3>2. slots[r] \in Fds /\ open[slots[r]] # NoClient
      BY <3>1, <2>1, <1>5 DEF IInv, Typed
    <3>3. PICK k \in Slots: slots[k] = slots[r] /\ todo[k] = "none"
      BY <3>1, <3>2 DEF IInv, StaleIsHeld
    <3>4. k # s /\ slots'[k] = slots[k] /\ todo'[k] = "none"
      BY <3>3, <1>2 DEF IInv, Typed, Slots
    <3>5. QED
      BY <3>1, <3>3, <3>4
  <2>2. QED
    BY <2>1 DEF StaleIsHeld
<1>8. SlotsCounted'
  <2>1. Used' = Used \ {s} /\ s \in Used
    BY <1>1, <1>2 DEF Used, IInv, Typed
  <2>2. Cardinality(Used \ {s}) = Cardinality(Used) - 1
    BY <2>1, UsedFinite, FS_RemoveElement
  <2>3. Cardinality(Used)' = Cardinality(Used) - 1
    BY <2>1, <2>2
  <2>4. QED
    BY <2>3, <1>2, UsedFinite DEF IInv, SlotsCounted
<1>9. QED
  BY <1>3, <1>4, <1>6, <1>7, <1>8 DEF IInv

\* A connection is closed, and its slot left to the next poll().
LEMMA CloseStep ==
  ASSUME IInv, NEW s \in Slots, todo[s] # "none", Done(s), UNCHANGED table,
         open' = [open EXCEPT ![slots[s]] = NoClient]
  PROVE  IInv'
<1>1. s \in 0..MaxFds-1 /\ slots[s] \in Fds
  BY MaxFdsAssumption DEF IInv, TodoIsUsed, Typed, Slots
<1>2. UNCHANGED <<slots, nfds>> /\ todo' = [todo EXCEPT ![s] = "none"]
  BY DEF table, Done
<1>3. Typed'
  <2>1. open' = [g \in Fds |-> open'[g]]
    BY <1>1 DEF IInv, Typed
  <2>2. todo' \in [0..MaxFds-1 -> {"none", "in", "hup", "nval"}]
    BY <1>2 DEF IInv, Typed
  <2>3. QED
    BY <2>1, <2>2, <1>2 DEF IInv, Typed
<1>4. \A g \in Fds: open'[g] # NoClient => open[g] # NoClient
  BY <1>1 DEF IInv, Typed
<1>5. TodoIsUsed' /\ Held'
  BY <1>1, <1>2, <1>4 DEF IInv, Typed, TodoIsUsed, Held, Slots
<1>6. StaleIsHeld'
  <2>1. ASSUME NEW r \in Slots, todo'[r] = "nval", open'[slots[r]] # NoClient
        PROVE  \E k \in Slots: slots[k] = slots[r] /\ todo'[k] = "none"
    <3>1. todo[r] = "nval"
      BY <2>1, <1>1, <1>2 DEF IInv, Typed, Slots
    <3>2. slots[r] \in Fds
      BY <3>1 DEF IInv, Typed, TodoIsUsed
    <3>3. PICK k \in Slots: slots[k] = slots[r] /\ todo[k] = "none"
      BY <3>1, <3>2, <2>1, <1>4 DEF IInv, StaleIsHeld
    <3>4. todo'[k] = "none"
      BY <3>3, <1>1, <1>2 DEF IInv, Typed, Slots
    <3>5. QED
      BY <3>3, <3>4
  <2>2. QED
    BY <2>1, <1>2 DEF StaleIsHeld
<1>7. SlotsCounted'
  BY SameTable DEF IInv
<1>8. QED
  BY <1>3, <1>5, <1>6, <1>7 DEF IInv

LEMMA ShutDownStep ==
  ASSUME IInv, NEW s \in Slots, ShutDown(s) PROVE IInv'
<1>1. /\ slots' = [r \in Slots |-> -1] /\ nfds' = 1 /\ open' = [f \in Fds |-> NoClient]
      /\ todo' = Quiet
  BY DEF ShutDown
<1>2. Used' = {}
  BY <1>1 DEF Used
<1>3. SlotsCounted'
  BY <1>1, <1>2, FS_EmptySet DEF SlotsCounted
<1>4. Typed'
  BY <1>1 DEF Typed, Quiet
<1>5. TodoIsUsed' /\ Held' /\ StaleIsHeld'
  BY <1>1 DEF TodoIsUsed, Held, StaleIsHeld, Quiet, Slots
<1>6. QED
  BY <1>3, <1>4, <1>5 DEF IInv

LEMMA ClientStep ==
  ASSUME IInv, UNCHANGED <<table, open, todo>> PROVE IInv'
<1>1. SlotsCounted'
  BY SameTable DEF IInv
<1>2. QED
  BY <1>1 DEF table, IInv, Typed, TodoIsUsed, Held, StaleIsHeld

LEMMA NextStep == IInv /\ [Next]_vars => IInv'
<1> SUFFICES ASSUME IInv, [Next]_vars PROVE IInv'
  OBVIOUS
<1>1. CASE Poll
  BY <1>1, PollStep
<1>2. CASE Delay \/ AcceptFails
  <2>1. 0 \in 0..MaxFds-1
    BY MaxFdsAssumption
  <2>2. QED
    BY <1>2, <2>1, SkipStep DEF Delay, AcceptFails
<1>3. CASE Accept
  BY <1>3, AcceptStep
<1>4. ASSUME NEW s \in Slots, Serve(s) PROVE IInv'
  <2>1. s \in 0..MaxFds-1
    BY MaxFdsAssumption DEF Slots
  <2>2. QED
    BY <1>4, <2>1, SkipStep DEF Serve
<1>5. ASSUME NEW s \in Slots, CloseAnswered(s) PROVE IInv'
  BY <1>5, CloseStep DEF CloseAnswered, Cleanup, Reaches
<1>6. ASSUME NEW s \in Slots, ShutDown(s) PROVE IInv'
  BY <1>6, ShutDownStep
<1>7. ASSUME NEW s \in Slots, PeerGone(s) PROVE IInv'
  BY <1>7, FreeStep DEF PeerGone, Cleanup, Reaches
<1>8. ASSUME NEW s \in Slots, Hang(s) PROVE IInv'
  <2>1. CASE todo[s] = "hup"
    BY <2>1, <1>8, FreeStep DEF Hang, Cleanup, Reaches
  <2>2. CASE todo[s] = "nval"
    BY <2>2, <1>8, FreeStep DEF Hang, Reaches
  <2>3. QED
    BY <2>1, <2>2, <1>8 DEF Hang
<1>9. ASSUME NEW c \in Clients, Connect(c) PROVE IInv'
  BY <1>9, ClientStep DEF Connect
<1>10. ASSUME NEW c \in Clients, Leave(c) PROVE IInv'
  BY <1>10, ClientStep DEF Leave
<1>11. ASSUME NEW c \in Clients, NEW r \in {"command", "quit", "shutdown"}, Ask(c, r) PROVE IInv'
  BY <1>11, ClientStep DEF Ask
<1>12. CASE UNCHANGED vars
  BY <1>12, ClientStep DEF vars
<1>13. QED
  BY <1>1, <1>2, <1>3, <1>4, <1>5, <1>6, <1>7, <1>8, <1>9, <1>10, <1>11, <1>12 DEF Next, Pass

\* poll_wait: nfds is the number of used slots and the listening socket,
\* whatever takes and frees slots, for any clients and any size of the table.
THEOREM TableCounted == Spec => []SlotsCounted
<1>1. IInv => SlotsCounted
  BY DEF IInv
<1>2. QED
  BY InitHolds, NextStep, <1>1, PTL DEF Spec

\* poll_wait: the search for a free slot before accept() always finds one, and
\* never writes behind the table.
THEOREM AcceptHasRoom == Spec => [](Reaches(0) /\ nfds # MaxFds => Slots \ Used # {})
<1>1. IInv => (Reaches(0) /\ nfds # MaxFds => Slots \ Used # {})
  BY SlotFree
<1>2. QED
  BY InitHolds, NextStep, <1>1, PTL DEF Spec

------------------------------------------------------------------------------
(* Nobody is cut off.                                                         *)

Peers ==
  /\ backlog \in Seq(Clients) /\ open \in [Fds -> Clients \cup {NoClient}]
  /\ side \in [Clients -> {"out", "in", "left"}]

\* A client has one connection, which is accepted or waits to be.
OneConnection ==
  /\ \A g, h \in Fds: open[g] = open[h] /\ open[g] # NoClient => g = h
  /\ \A i, k \in 1..Len(backlog): backlog[i] = backlog[k] => i = k
  /\ \A i \in 1..Len(backlog), g \in Fds: backlog[i] # open[g]
  /\ \A i \in 1..Len(backlog): side[backlog[i]] # "out"
  /\ \A g \in Fds: open[g] # NoClient => side[open[g]] # "out"

\* Two slots have one descriptor only when the one was found invalid in this
\* pass, and the other is new in it.
OneSlot ==
  /\ \A s, r \in Slots: s # r /\ slots[s] = slots[r] /\ slots[s] # -1 =>
       \/ todo[s] = "nval" /\ todo[r] = "none"
       \/ todo[s] = "none" /\ todo[r] = "nval"
  /\ todo[0] # "none" => /\ backlog # <<>>
                         /\ \A s \in Slots: slots[s] # -1 /\ open[slots[s]] = NoClient => todo[s] = "nval"

\* A connection that is about to be closed for a POLLHUP is one whose client has left.
HupIsLeft == \A s \in Slots: todo[s] = "hup" => open[slots[s]] # NoClient /\ side[open[slots[s]]] = "left"

CutInv == Peers /\ OneConnection /\ OneSlot /\ HupIsLeft /\ NobodyCutOff

LEMMA CutInit == Init => CutInv
BY MaxFdsAssumption DEF Init, CutInv, Peers, OneConnection, OneSlot, HupIsLeft, NobodyCutOff, Quiet, Fds, Slots

LEMMA CutPoll ==
  ASSUME IInv, CutInv, Poll PROVE CutInv'
<1> USE DEF CutInv
<1>1. UNCHANGED <<table, open, backlog, peers, cut>> /\ todo = Quiet
  BY DEF Poll
<1>2. Peers' /\ OneConnection' /\ NobodyCutOff'
  BY <1>1 DEF Peers, OneConnection, NobodyCutOff, peers
<1>3. \A s \in Slots: todo'[s] \in Revents(s)
  BY DEF Poll
<1>4. \A s, r \in Slots: s # r /\ slots[s] = slots[r] => slots[s] = -1
  BY <1>1 DEF OneSlot, Quiet, Slots
<1>5. todo'[0] # "none" => backlog # <<>>
  BY DEF Poll
<1>6. \A s \in Slots: slots[s] # -1 /\ open[slots[s]] = NoClient => todo'[s] = "nval"
  BY <1>3 DEF Revents
<1>7. OneSlot'
  BY <1>1, <1>4, <1>5, <1>6 DEF OneSlot, table
<1>8. HupIsLeft'
  BY <1>1, <1>3 DEF HupIsLeft, Revents, table, peers
<1>9. QED
  BY <1>2, <1>7, <1>8

\* A slot that is done with, and nothing else.
LEMMA CutSkip ==
  ASSUME IInv, CutInv, NEW s \in 0..MaxFds-1, Done(s), UNCHANGED <<table, open, backlog, side, cut>>,
         s # 0 => todo[s] # "nval"
  PROVE  CutInv'
<1> USE DEF CutInv
<1>1. Peers' /\ OneConnection' /\ NobodyCutOff'
  BY DEF Peers, OneConnection, NobodyCutOff
<1>2. \A r \in 0..MaxFds-1: todo'[r] = todo[r] \/ (r = s /\ todo'[r] = "none")
  BY DEF Done, IInv, Typed
<1>3. 0 \in 0..MaxFds-1 /\ Slots \subseteq 0..MaxFds-1 /\ 0 \notin Slots
  BY MaxFdsAssumption DEF Slots
<1>4. \A r \in Slots: todo[r] = "nval" => todo'[r] = "nval"
  BY <1>2, <1>3
<1>5. \A r \in Slots: todo[r] = "none" => todo'[r] = "none"
  BY <1>2, <1>3
<1>6. OneSlot'
  BY <1>2, <1>3, <1>4, <1>5 DEF OneSlot, table
<1>7. HupIsLeft'
  BY <1>2, <1>3 DEF HupIsLeft, table
<1>8. QED
  BY <1>1, <1>6, <1>7

LEMMA CutAccept ==
  ASSUME IInv, CutInv, Accept PROVE CutInv'
<1> DEFINE j == Lowest(Slots \ Used)
           f == Lowest({g \in Fds: open[g] = NoClient})
<1> USE DEF CutInv
<1>1. j \in Slots /\ slots[j] = -1
  <2>1. nfds # MaxFds
    BY DEF Accept
  <2>2. IsFiniteSet(Slots \ Used)
    BY SlotsFinite, FS_Subset
  <2>3. Slots \ Used \in SUBSET Int
    BY MaxFdsAssumption DEF Slots
  <2>4. j \in Slots \ Used
    BY <2>1, <2>2, <2>3, SlotFree, LowestIsMember
  <2>5. QED
    BY <2>4 DEF Used
<1>2. f \in Fds /\ open[f] = NoClient
  <2> DEFINE S == {g \in Fds: open[g] = NoClient}
  <2>1. S # {} /\ S \in SUBSET Int /\ IsFiniteSet(S)
    BY FdFree, SlotsFinite, FS_Subset, MaxFdsAssumption DEF Fds
  <2>2. f = Lowest(S)
    OBVIOUS
  <2>3. f \in S
    <3> HIDE DEF S, f
    <3> QED BY <2>1, <2>2, LowestIsMember
  <2>4. QED
    BY <2>3
<1>3. /\ slots' = [slots EXCEPT ![j] = f] /\ open' = [open EXCEPT ![f] = Head(backlog)]
      /\ todo' = [todo EXCEPT ![0] = "none"] /\ backlog' = Tail(backlog)
      /\ side' = side /\ cut' = cut /\ todo[0] # "none"
  BY DEF Accept, Done, Reaches, peers
<1> HIDE DEF j, f
<1>4. backlog # <<>> /\ backlog \in Seq(Clients)
  BY <1>3 DEF OneSlot, Peers
<1> DEFINE h == backlog[1]
<1>5. /\ Head(backlog) = h /\ h \in Clients /\ Len(backlog) \in Nat /\ Len(backlog) > 0
      /\ Tail(backlog) \in Seq(Clients) /\ Len(Tail(backlog)) = Len(backlog) - 1
      /\ \A i \in 1..Len(backlog)-1: Tail(backlog)[i] = backlog[i+1]
  BY <1>4
<1>6. Peers'
  BY <1>2, <1>3, <1>5 DEF Peers
<1>7. /\ \A g \in Fds: open'[g] = IF g = f THEN h ELSE open[g]
      /\ \A i \in 1..Len(backlog'): backlog'[i] = backlog[i+1] /\ i + 1 \in 1..Len(backlog) /\ i + 1 # 1
      /\ 1 \in 1..Len(backlog)
  BY <1>2, <1>3, <1>5 DEF Peers
<1> HIDE DEF h
<1>8. \A g \in Fds: open[g] # h
  BY <1>7 DEF OneConnection, h
<1>9. OneConnection'
  <2>1. \A g, k \in Fds: open'[g] = open'[k] /\ open'[g] # NoClient => g = k
    BY <1>7, <1>8 DEF OneConnection
  <2>2. \A i, k \in 1..Len(backlog'): backlog'[i] = backlog'[k] => i = k
    <3>1. SUFFICES ASSUME NEW i \in 1..Len(backlog'), NEW k \in 1..Len(backlog'), backlog'[i] = backlog'[k]
                   PROVE  i = k
      OBVIOUS
    <3>2. i + 1 = k + 1
      BY <1>7, <3>1 DEF OneConnection
    <3>3. QED
      BY <3>2
  <2>3. \A i \in 1..Len(backlog'), g \in Fds: backlog'[i] # open'[g]
    <3>1. \A i \in 1..Len(backlog'): backlog'[i] # h
      BY <1>7 DEF OneConnection, h
    <3>2. QED
      BY <1>7, <3>1 DEF OneConnection
  <2>4. \A i \in 1..Len(backlog'): side'[backlog'[i]] # "out"
    BY <1>3, <1>7 DEF OneConnection
  <2>5. \A g \in Fds: open'[g] # NoClient => side'[open'[g]] # "out"
    BY <1>3, <1>7 DEF OneConnection, h
  <2>6. QED
    BY <2>1, <2>2, <2>3, <2>4, <2>5 DEF OneConnection
<1>10. \A r \in Slots: todo'[r] = todo[r]
  BY <1>3 DEF IInv, Typed, Slots
<1>11. todo'[0] = "none" /\ todo[j] = "none"
  BY <1>1, <1>3, MaxFdsAssumption DEF IInv, Typed, TodoIsUsed
<1>12. \A r \in Slots: slots'[r] = IF r = j THEN f ELSE slots[r]
  BY <1>3 DEF IInv, Typed
<1>13. \A r \in Slots: slots[r] = f => todo[r] = "nval"
  <2>1. f # -1
    BY <1>2, MaxFdsAssumption DEF Fds
  <2>2. QED
    BY <1>2, <1>3, <2>1 DEF OneSlot
<1>14. OneSlot'
  BY <1>10, <1>11, <1>12, <1>13 DEF OneSlot
<1>15. HupIsLeft'
  <2>1. SUFFICES ASSUME NEW r \in Slots, todo[r] = "hup"
                 PROVE  open'[slots'[r]] # NoClient /\ side'[open'[slots'[r]]] = "left"
    BY <1>10 DEF HupIsLeft
  <2>2. r # j /\ slots[r] # f /\ slots[r] \in Fds
    BY <1>2, <1>11, <2>1 DEF HupIsLeft, IInv, Typed, TodoIsUsed
  <2>3. QED
    BY <1>3, <1>7, <1>12, <2>1, <2>2 DEF HupIsLeft
<1>16. QED
  BY <1>3, <1>6, <1>9, <1>14, <1>15 DEF NobodyCutOff

\* What is closed is one client's connection, or nobody's.
LEMMA CleanupKeeps ==
  ASSUME Peers, OneConnection, NEW g \in Fds, Cleanup(g), backlog' = backlog
  PROVE  /\ Peers' /\ OneConnection'
         /\ open' = [open EXCEPT ![g] = NoClient]
         /\ \A h \in Fds: h # g /\ open[h] # NoClient => side'[open[h]] = side[open[h]]
<1>1. open' = [open EXCEPT ![g] = NoClient]
  BY DEF Cleanup
<1>2. CASE open[g] = NoClient
  <2>1. side' = side /\ open' = open
    BY <1>1, <1>2 DEF Cleanup, peers, Peers
  <2>2. QED
    BY <1>1, <2>1 DEF Peers, OneConnection
<1>3. CASE open[g] # NoClient
  <2>1. open[g] \in Clients /\ side' = [side EXCEPT ![open[g]] = "out"]
    BY <1>3 DEF Cleanup, Peers
  <2>2. Peers'
    BY <1>1, <2>1 DEF Peers
  <2>3. \A h \in Fds: open'[h] = IF h = g THEN NoClient ELSE open[h]
    BY <1>1 DEF Peers
  <2>4. \A h \in Fds: h # g /\ open[h] # NoClient => open[h] # open[g]
    BY <1>3 DEF OneConnection
  <2>5. \A h \in Fds: h # g /\ open[h] # NoClient => side'[open[h]] = side[open[h]]
    BY <2>1, <2>4 DEF Peers
  <2>6. \A i \in 1..Len(backlog): backlog[i] \in Clients /\ backlog[i] # open[g]
    BY DEF OneConnection, Peers
  <2>7. \A i \in 1..Len(backlog): side'[backlog[i]] = side[backlog[i]]
    BY <2>1, <2>6 DEF Peers
  <2>8. OneConnection'
    <3>1. \A h, k \in Fds: open'[h] = open'[k] /\ open'[h] # NoClient => h = k
      BY <2>3 DEF OneConnection
    <3>2. \A i \in 1..Len(backlog'), h \in Fds: backlog'[i] # open'[h]
      BY <2>3, <2>6, NoClientAssumption DEF OneConnection
    <3>3. \A h \in Fds: open'[h] # NoClient => side'[open'[h]] # "out"
      BY <2>3, <2>5 DEF OneConnection
    <3>4. \A i \in 1..Len(backlog'): side'[backlog'[i]] # "out"
      BY <2>7 DEF OneConnection
    <3>5. QED
      BY <3>1, <3>2, <3>3, <3>4 DEF OneConnection
  <2>9. QED
    BY <1>1, <2>2, <2>5, <2>8
<1>4. QED
  BY <1>2, <1>3

\* A slot whose connection is closed, and that is kept or freed.
LEMMA CutClose ==
  ASSUME IInv, CutInv, NEW s \in Slots, Reaches(s), todo[s] \in {"in", "hup"}, Done(s),
         Cleanup(slots[s]), cut' = cut, backlog' = backlog,
         slots' = slots \/ slots' = [slots EXCEPT ![s] = -1]
  PROVE  CutInv'
<1> USE DEF CutInv
<1>1. slots[s] \in Fds
  BY DEF IInv, Typed, TodoIsUsed
<1>2. /\ Peers' /\ OneConnection'
      /\ open' = [open EXCEPT ![slots[s]] = NoClient]
      /\ \A h \in Fds: h # slots[s] /\ open[h] # NoClient => side'[open[h]] = side[open[h]]
  BY <1>1, CleanupKeeps
<1>3. todo[0] = "none" /\ 0 \in 0..MaxFds-1 /\ 0 \notin Slots /\ Slots \subseteq 0..MaxFds-1
  BY MaxFdsAssumption DEF Reaches, Slots
<1>4. \A r \in 0..MaxFds-1: todo'[r] = IF r = s THEN "none" ELSE todo[r]
  BY DEF Done, IInv, Typed
<1>5. \A r \in Slots: r # s => slots'[r] = slots[r]
  BY DEF IInv, Typed
<1>6. slots'[s] = slots[s] \/ slots'[s] = -1
  BY DEF IInv, Typed
<1>7. \A r \in Slots: r # s => slots[r] # slots[s]
  BY <1>1, MaxFdsAssumption DEF OneSlot, Fds
<1>8. OneSlot'
  BY <1>1, <1>3, <1>4, <1>5, <1>6, <1>7 DEF OneSlot
<1>9. HupIsLeft'
  <2>1. SUFFICES ASSUME NEW r \in Slots, todo'[r] = "hup"
                 PROVE  open'[slots'[r]] # NoClient /\ side'[open'[slots'[r]]] = "left"
    BY DEF HupIsLeft
  <2>2. r # s /\ todo[r] = "hup"
    BY <1>3, <1>4, <2>1
  <2>3. slots'[r] = slots[r] /\ slots[r] # slots[s] /\ slots[r] \in Fds
    BY <1>5, <1>7, <2>2 DEF IInv, Typed, TodoIsUsed
  <2>4. open'[slots[r]] = open[slots[r]] /\ open[slots[r]] # NoClient
    BY <1>2, <2>2, <2>3 DEF HupIsLeft, Peers
  <2>5. QED
    BY <1>2, <2>2, <2>3, <2>4 DEF HupIsLeft
<1>10. QED
  BY <1>2, <1>8, <1>9 DEF NobodyCutOff

LEMMA CutNext == IInv /\ CutInv /\ [Next]_vars => CutInv'
<1> SUFFICES ASSUME IInv, CutInv, [Next]_vars PROVE CutInv'
  OBVIOUS
<1>0. \A s \in Slots: s \in 0..MaxFds-1 /\ s # 0
  BY MaxFdsAssumption DEF Slots
<1>1. CASE Poll
  BY <1>1, CutPoll
<1>2. CASE Delay \/ AcceptFails
  <2>1. 0 \in 0..MaxFds-1
    BY MaxFdsAssumption
  <2>2. QED
    BY <1>2, <2>1, CutSkip DEF Delay, AcceptFails, peers
<1>3. CASE Accept
  BY <1>3, CutAccept
<1>4. ASSUME NEW s \in Slots, Serve(s) PROVE CutInv'
  BY <1>0, <1>4, CutSkip DEF Serve
<1>5. ASSUME NEW s \in Slots, CloseAnswered(s) PROVE CutInv'
  <2>1. cut' = cut
    BY <1>5 DEF CloseAnswered, Cleanup
  <2>2. QED
    BY <1>5, <2>1, CutClose DEF CloseAnswered, table
<1>6. ASSUME NEW s \in Slots, ShutDown(s) PROVE CutInv'
  <2>1. /\ slots' = [r \in Slots |-> -1] /\ open' = [f \in Fds |-> NoClient] /\ todo' = Quiet
        /\ backlog' = <<>> /\ side' = [c \in Clients |-> "out"] /\ cut' = cut
    BY <1>6 DEF ShutDown
  <2>2. QED
    BY <2>1, MaxFdsAssumption DEF CutInv, Peers, OneConnection, OneSlot, HupIsLeft, NobodyCutOff, Quiet, Slots, Fds
<1>7. ASSUME NEW s \in Slots, PeerGone(s) PROVE CutInv'
  <2>1. cut' = cut
    BY <1>7 DEF PeerGone, Cleanup
  <2>2. QED
    BY <1>7, <2>1, CutClose DEF PeerGone, FreeSlot
<1>8. ASSUME NEW s \in Slots, Hang(s) PROVE CutInv'
  <2>1. CASE todo[s] = "hup"
    <3>1. cut' = cut
      BY <1>8, <2>1 DEF Hang, Cleanup, CutInv, HupIsLeft
    <3>2. QED
      BY <1>8, <2>1, <3>1, CutClose DEF Hang, FreeSlot
  <2>2. CASE todo[s] = "nval"
    <3>1. /\ slots' = [slots EXCEPT ![s] = -1] /\ todo' = [todo EXCEPT ![s] = "none"] /\ todo[0] = "none"
          /\ open' = open /\ side' = side /\ cut' = cut /\ backlog' = backlog
      BY <1>0, <1>8, <2>2 DEF Hang, FreeSlot, Done, peers, Reaches
    <3>2. \A r \in Slots: slots'[r] = (IF r = s THEN -1 ELSE slots[r])
                          /\ todo'[r] = (IF r = s THEN "none" ELSE todo[r])
      BY <1>0, <3>1 DEF IInv, Typed
    <3>3. todo'[0] = "none"
      BY <1>0, <3>1
    <3>4. OneSlot'
      BY <3>2, <3>3 DEF OneSlot, CutInv
    <3>5. HupIsLeft'
      BY <3>1, <3>2 DEF HupIsLeft, CutInv
    <3>6. QED
      BY <3>1, <3>4, <3>5 DEF CutInv, Peers, OneConnection, NobodyCutOff
  <2>3. QED
    BY <2>1, <2>2, <1>8 DEF Hang
<1>9. ASSUME NEW c \in Clients, Connect(c) PROVE CutInv'
  <2>1. /\ side' = [side EXCEPT ![c] = "in"] /\ backlog' = Append(backlog, c) /\ side[c] = "out"
        /\ slots' = slots /\ open' = open /\ todo' = todo /\ cut' = cut
    BY <1>9 DEF Connect, table
  <2>2. /\ backlog \in Seq(Clients) /\ Len(backlog) \in Nat /\ Len(backlog') = Len(backlog) + 1
        /\ \A i \in 1..Len(backlog'): backlog'[i] = IF i = Len(backlog) + 1 THEN c ELSE backlog[i]
        /\ backlog' \in Seq(Clients) /\ backlog' # <<>>
    BY <2>1 DEF CutInv, Peers
  <2>3. \A i \in 1..Len(backlog'): i = Len(backlog) + 1 \/ i \in 1..Len(backlog)
    BY <2>2
  <2>4. (\A i \in 1..Len(backlog): backlog[i] # c) /\ (\A g \in Fds: open[g] # c)
    BY <2>1, NoClientAssumption DEF CutInv, OneConnection
  <2>5. Peers'
    BY <2>1, <2>2 DEF CutInv, Peers
  <2>6. \A d \in Clients: side'[d] = IF d = c THEN "in" ELSE side[d]
    BY <2>1 DEF CutInv, Peers
  <2>7. OneConnection'
    <3>1. \A i, k \in 1..Len(backlog'): backlog'[i] = backlog'[k] => i = k
      BY <2>2, <2>3, <2>4 DEF CutInv, OneConnection
    <3>2. \A i \in 1..Len(backlog'), g \in Fds: backlog'[i] # open'[g]
      BY <2>1, <2>2, <2>3, <2>4 DEF CutInv, OneConnection
    <3>3. \A i \in 1..Len(backlog'): side'[backlog'[i]] # "out"
      BY <2>2, <2>3, <2>6 DEF CutInv, OneConnection
    <3>4. \A g \in Fds: open'[g] # NoClient => side'[open'[g]] # "out"
      BY <2>1, <2>4, <2>6 DEF CutInv, OneConnection, Peers
    <3>5. QED
      BY <2>1, <3>1, <3>2, <3>3, <3>4 DEF CutInv, OneConnection
  <2>8. OneSlot'
    BY <2>1, <2>2 DEF CutInv, OneSlot
  <2>9. HupIsLeft'
    <3>1. \A s \in Slots: todo[s] = "hup" => slots[s] \in Fds
      BY DEF IInv, Typed, TodoIsUsed
    <3>2. QED
      BY <2>1, <2>4, <3>1 DEF CutInv, HupIsLeft, Peers
  <2>10. QED
    BY <2>1, <2>5, <2>7, <2>8, <2>9 DEF CutInv, NobodyCutOff
<1>10. ASSUME NEW c \in Clients, Leave(c) PROVE CutInv'
  <2>1. /\ side' = [side EXCEPT ![c] = "left"] /\ backlog' = backlog
        /\ slots' = slots /\ open' = open /\ todo' = todo /\ cut' = cut
    BY <1>10 DEF Leave, table
  <2>2. \A d \in Clients: side'[d] = IF d = c THEN "left" ELSE side[d]
    BY <2>1 DEF CutInv, Peers
  <2>3. Peers'
    BY <2>1 DEF CutInv, Peers
  <2>4. OneConnection'
    BY <2>1, <2>2 DEF CutInv, OneConnection, Peers
  <2>5. HupIsLeft'
    <3>1. \A s \in Slots: todo[s] = "hup" => slots[s] \in Fds
      BY DEF IInv, Typed, TodoIsUsed
    <3>2. QED
      BY <2>1, <2>2, <3>1 DEF CutInv, HupIsLeft, Peers
  <2>6. QED
    BY <2>1, <2>3, <2>4, <2>5 DEF CutInv, OneSlot, NobodyCutOff
<1>11. ASSUME NEW c \in Clients, NEW r \in {"command", "quit", "shutdown"}, Ask(c, r) PROVE CutInv'
  BY <1>11 DEF Ask, table, CutInv, Peers, OneConnection, OneSlot, HupIsLeft, NobodyCutOff
<1>12. CASE UNCHANGED vars
  BY <1>12 DEF vars, table, peers, CutInv, Peers, OneConnection, OneSlot, HupIsLeft, NobodyCutOff
<1>13. QED
  BY <1>1, <1>2, <1>3, <1>4, <1>5, <1>6, <1>7, <1>8, <1>9, <1>10, <1>11, <1>12 DEF Next, Pass

\* NobodyCutOff (McuServer.tla): poll_wait closes no connection whose client waits
\* for an answer, for any clients and any size of the table.
THEOREM WaitersStay == Spec => []NobodyCutOff
<1>1. CutInv => NobodyCutOff
  BY DEF CutInv
<1>2. QED
  BY InitHolds, NextStep, CutInit, CutNext, <1>1, PTL DEF Spec

------------------------------------------------------------------------------
(* The serial line.                                                           *)

Values == Times \cup {0, -1}
Packets == (0..N \cup {Serial!Temperature}) \X Values

SerialTyped ==
  /\ regs \in [Serial!Alarm -> Values] /\ had \in [Serial!Alarm -> SUBSET Values]
  /\ got \in [Serial!Alarm -> Values] /\ late \in BOOLEAN
  /\ step \in 1-N..Serial!Temperature /\ time \in Values
  /\ awaits \in {"idle", "send", "answer", "ack"}
  /\ flight \in Seq(Packets) /\ line \in Seq(Packets)

\* What a register has has been written to it.
Had == \A r \in Serial!Alarm: regs[r] \in had[r]

\* An answer is one that its register could give once, however late it is.
Once(p) == p[1] \in Serial!Alarm => p[2] \in had[p[1]]
OnceTrue == (\A n \in DOMAIN flight: Once(flight[n])) /\ (\A n \in DOMAIN line: Once(line[n]))

\* While no answer was late, what is under way answers the command at work: its
\* answer, if it has one and waits for it, and its ack.
Mine == <<Serial!Reg, IF Serial!Reg \in Serial!Alarm THEN regs[Serial!Reg] ELSE 0>>
UnderWay == Len(line) + Len(flight)
Under(n) == IF n <= Len(line) THEN line[n] ELSE flight[n - Len(line)]
OnlyMine == ~late =>
  /\ UnderWay <= (CASE awaits = "answer" -> 2 [] awaits = "ack" -> 1 [] OTHER -> 0)
  /\ awaits = "answer" => /\ UnderWay > 0 => Under(1) = Mine
                          /\ UnderWay > 1 => Under(2) = Serial!Ack
  /\ awaits = "ack" /\ UnderWay > 0 => Under(1) = Serial!Ack

\* The registers that readalarm has read so far: those before the step, and that
\* of the step when only its ack is waited for.
Read(r) == step \in N+1..Serial!Enable /\ (r < step - N \/ (r = step - N /\ awaits = "ack"))
Right(r) == IF late THEN got[r] \in had[r] ELSE got[r] = regs[r]
ReadRight == \A r \in Serial!Alarm: awaits # "idle" /\ Read(r) => Right(r)

\* Nothing is told before a command ends.
ToldLast ==
  /\ awaits # "idle" => told = Serial!Nothing
  /\ told \notin {Serial!Nothing, Serial!Error} =>
       told = Serial!AlarmRead /\ \A r \in Serial!Alarm: Right(r)
ByStep == awaits = "answer" => ~Serial!Sets

SerialInv == SerialTyped /\ Had /\ OnceTrue /\ OnlyMine /\ ReadRight /\ ToldLast /\ ByStep

LEMMA SerialNumbers ==
  /\ N \in Nat /\ N > 0 /\ Serial!Alarm = 1..N
  /\ Serial!Enable = 2 * N + 1 /\ Serial!Temperature = 2 * N + 2
  /\ 0 \in Values /\ -1 \in Values
BY SerialAssumption DEF Serial!Alarm, Serial!Enable, Serial!Temperature, Values

\* The packets of a command are well formed, and what they say of a register is
\* what it has.
LEMMA Answered1 ==
  ASSUME SerialTyped, Had
  PROVE  /\ Serial!Ack \in Packets /\ Once(Serial!Ack)
         /\ ~Serial!Sets => Mine \in Packets /\ Once(Mine) /\ Serial!Answer = <<Mine, Serial!Ack>>
         /\ Serial!Sets => Serial!Answer = <<Serial!Ack>>
<1> USE SerialNumbers DEF SerialTyped, Had, Packets, Once, Serial!Ack, Serial!Sets
<1>1. Serial!Ack \in Packets /\ Once(Serial!Ack)
  OBVIOUS
<1>2. ~Serial!Sets => Serial!Reg \in Serial!Alarm \cup {Serial!Temperature}
  <2>1. CASE step \in 1 - N..0
    <3>1. Serial!Reg = step + N
      BY <2>1 DEF Serial!Reg
    <3>2. QED
      BY <2>1, <3>1
  <2>2. CASE step \in N+1..2*N
    <3>1. Serial!Reg = step - N
      BY <2>2 DEF Serial!Reg
    <3>2. QED
      BY <2>2, <3>1
  <2>3. CASE step = Serial!Temperature
    <3>1. Serial!Reg = step
      BY <2>3 DEF Serial!Reg
    <3>2. QED
      BY <2>3, <3>1
  <2>4. QED
    BY <2>1, <2>2, <2>3
<1>3. ~Serial!Sets => Mine \in Packets /\ Once(Mine)
  BY <1>2 DEF Mine
<1>4. QED
  BY <1>1, <1>3 DEF Serial!Answer, Mine

LEMMA SerialInitially == Serial!Init => SerialInv
<1> SUFFICES ASSUME Serial!Init PROVE SerialInv
  OBVIOUS
<1> USE SerialNumbers DEF Serial!Init
<1>1. SerialTyped
  <2>1. <<>> \in Seq(Packets)
    OBVIOUS
  <2>2. regs \in [Serial!Alarm -> Values] /\ got \in [Serial!Alarm -> Values]
        /\ had \in [Serial!Alarm -> SUBSET Values]
    OBVIOUS
  <2>3. step \in 1-N..Serial!Temperature /\ time \in Values
    OBVIOUS
  <2>4. QED
    BY <2>1, <2>2, <2>3 DEF SerialTyped
<1>2. Had /\ OnceTrue /\ ByStep
  BY DEF Had, OnceTrue, ByStep
<1>3. OnlyMine
  BY DEF OnlyMine, UnderWay
<1>4. ReadRight /\ ToldLast
  BY DEF ReadRight, ToldLast
<1>5. QED
  BY <1>1, <1>2, <1>3, <1>4 DEF SerialInv

LEMMA SerialBegin ==
  ASSUME SerialInv, NEW first \in {1 - N, 1, N + 1, Serial!Temperature}, NEW t \in Values,
         Serial!Begin(first, t)
  PROVE  SerialInv'
<1> USE SerialNumbers DEF SerialInv, Serial!Begin, Serial!mcu, Serial!wire
<1>1. SerialTyped'
  BY DEF SerialTyped
<1>2. Had' /\ OnceTrue' /\ ByStep'
  BY DEF Had, OnceTrue, Once, ByStep
<1>3. OnlyMine'
  BY DEF OnlyMine, UnderWay
<1>4. ReadRight'
  BY DEF ReadRight, Read
<1>5. ToldLast'
  BY DEF ToldLast
<1>6. QED
  BY <1>1, <1>2, <1>3, <1>4, <1>5

\* The MCU obeys: a register and its history change only while the command
\* writes it, and nothing has been read then.
LEMMA SerialObeys ==
  ASSUME SerialInv, awaits = "send", Serial!Obeys \/ UNCHANGED Serial!mcu,
         UNCHANGED <<step, time, got>>
  PROVE  /\ regs' \in [Serial!Alarm -> Values] /\ had' \in [Serial!Alarm -> SUBSET Values] /\ Had'
         /\ \A r \in Serial!Alarm: had[r] \subseteq had'[r]
         /\ step \notin Serial!Alarm => regs' = regs /\ had' = had
<1> USE SerialNumbers DEF SerialInv, SerialTyped, Had
<1>1. CASE step \in Serial!Alarm /\ Serial!Obeys
  BY <1>1 DEF Serial!Obeys
<1>2. CASE step \notin Serial!Alarm \/ UNCHANGED Serial!mcu
  BY <1>2 DEF Serial!Obeys, Serial!mcu
<1>3. QED
  BY <1>1, <1>2

LEMMA SerialSend ==
  ASSUME SerialInv, Serial!Send \/ \E o \in BOOLEAN, n \in 0..1:
                      Serial!SendLost(o, IF n = 0 THEN <<>> ELSE <<Head(Serial!Answer)>>)
  PROVE  SerialInv'
<1> USE DEF SerialInv
<1>1. /\ awaits = "send" /\ line' = <<>> /\ UNCHANGED <<step, time, got, told, late>>
      /\ Serial!Obeys \/ UNCHANGED Serial!mcu
      /\ awaits' = IF Serial!Sets THEN "ack" ELSE "answer"
  BY DEF Serial!Send, Serial!SendLost, Serial!Clear, Serial!task
<1>2. PICK a \in {<<>>, Serial!Answer, <<Head(Serial!Answer)>>}: flight' = flight \o a
  <2>1. CASE Serial!Send
    BY <2>1 DEF Serial!Send
  <2>2. CASE \E o \in BOOLEAN, n \in 0..1:
               Serial!SendLost(o, IF n = 0 THEN <<>> ELSE <<Head(Serial!Answer)>>)
    <3>1. PICK o \in BOOLEAN, n \in 0..1:
                 Serial!SendLost(o, IF n = 0 THEN <<>> ELSE <<Head(Serial!Answer)>>)
      BY <2>2
    <3>2. CASE n = 0
      BY <3>1, <3>2 DEF Serial!SendLost
    <3>3. CASE n = 1
      <4>1. flight' = flight \o <<Head(Serial!Answer)>>
        BY <3>1, <3>3 DEF Serial!SendLost
      <4>2. QED
        BY <4>1
    <3>4. QED
      BY <3>2, <3>3
  <2>3. QED
    BY <2>1, <2>2
<1>3. /\ regs' \in [Serial!Alarm -> Values] /\ had' \in [Serial!Alarm -> SUBSET Values] /\ Had'
      /\ \A r \in Serial!Alarm: had[r] \subseteq had'[r]
      /\ step \notin Serial!Alarm => regs' = regs /\ had' = had
  BY <1>1, SerialObeys
<1>4. Serial!Sets' = Serial!Sets /\ (~Serial!Sets => Mine' = Mine /\ step \notin Serial!Alarm)
  BY <1>1, <1>3 DEF Serial!Sets, Mine, Serial!Reg
<1>5. a \in {<<>>, <<Serial!Ack>>, <<Mine>>, <<Mine, Serial!Ack>>}
      /\ (Serial!Sets => a \in {<<>>, <<Serial!Ack>>})
      /\ (~Serial!Sets => a \in {<<>>, <<Mine>>, <<Mine, Serial!Ack>>})
  BY <1>2, Answered1
<1>6. a \in Seq(Packets) /\ \A n \in DOMAIN a: Once(a[n])
  <2>1. /\ Serial!Ack \in Packets /\ Once(Serial!Ack)
        /\ a \in {<<Mine>>, <<Mine, Serial!Ack>>} => Mine \in Packets /\ Once(Mine)
    BY <1>5, Answered1
  <2>2. CASE a = <<>>
    BY <2>2
  <2>3. CASE a = <<Serial!Ack>>
    BY <2>1, <2>3
  <2>4. CASE a = <<Mine>>
    BY <2>1, <2>4
  <2>5. CASE a = <<Mine, Serial!Ack>>
    BY <2>1, <2>5
  <2>6. QED
    BY <1>5, <2>2, <2>3, <2>4, <2>5
<1>7. SerialTyped'
  BY <1>1, <1>2, <1>3, <1>6 DEF SerialTyped
<1>8. OnceTrue'
  <2>1. \A p \in Packets: Once(p) => Once(p)'
    BY <1>3 DEF Once
  <2>2. \A n \in DOMAIN flight': flight'[n] \in Packets /\ Once(flight'[n])
    BY <1>2, <1>6 DEF OnceTrue, SerialTyped
  <2>3. QED
    BY <1>1, <2>1, <2>2 DEF OnceTrue
<1>9. OnlyMine'
  <2> SUFFICES ASSUME ~late PROVE OnlyMine'
    BY <1>1 DEF OnlyMine
  <2>1. flight = <<>>
    BY <1>1 DEF OnlyMine, UnderWay, SerialTyped
  <2>2. flight' = a /\ line' = <<>>
    BY <1>1, <1>2, <1>6, <2>1
  <2>3. CASE Serial!Sets
    <3>1. awaits' = "ack" /\ a \in {<<>>, <<Serial!Ack>>}
      BY <1>1, <1>5, <2>3
    <3>2. UnderWay' \in 0..1 /\ (UnderWay' > 0 => Under(1)' = Serial!Ack)
      BY <2>2, <3>1 DEF UnderWay, Under
    <3>3. QED
      BY <3>1, <3>2 DEF OnlyMine
  <2>4. CASE ~Serial!Sets
    <3>1. awaits' = "answer" /\ a \in {<<>>, <<Mine>>, <<Mine, Serial!Ack>>} /\ Mine' = Mine
      BY <1>1, <1>4, <1>5, <2>4
    <3>2. /\ UnderWay' \in 0..2 /\ (UnderWay' > 0 => Under(1)' = Mine)
          /\ UnderWay' > 1 => Under(2)' = Serial!Ack
      <4>1. UnderWay' = Len(a) /\ Under(1)' = a[1] /\ Under(2)' = a[2]
        BY <1>6, <2>2 DEF UnderWay, Under
      <4>2. QED
        BY <3>1, <4>1
    <3>3. QED
      BY <3>1, <3>2 DEF OnlyMine
  <2>5. QED
    BY <2>3, <2>4
<1>10. ReadRight'
  <2>1. ASSUME NEW r \in Serial!Alarm, Read(r)' PROVE Read(r) /\ step \notin Serial!Alarm
    BY <1>1, <2>1, SerialNumbers DEF Read, Serial!Sets, SerialTyped
  <2>2. QED
    BY <1>1, <1>3, <2>1 DEF ReadRight, Right
<1>11. ToldLast' /\ ByStep'
  BY <1>1, <1>4 DEF ToldLast, ByStep
<1>12. QED
  BY <1>3, <1>7, <1>8, <1>9, <1>10, <1>11

LEMMA SerialArrive ==
  ASSUME SerialInv, Serial!Arrive PROVE SerialInv'
<1> USE DEF SerialInv
<1>1. /\ flight # <<>> /\ line' = Append(line, Head(flight)) /\ flight' = Tail(flight)
      /\ UNCHANGED <<regs, had, step, time, awaits, got, told, late>>
  BY DEF Serial!Arrive, Serial!mcu, Serial!task
<1>2. SerialTyped'
  BY <1>1 DEF SerialTyped
<1>3. Had' /\ ReadRight' /\ ToldLast' /\ ByStep'
  BY <1>1 DEF Had, ReadRight, Read, Right, ToldLast, ByStep, Serial!AlarmRead, Serial!Sets
<1>4. OnceTrue'
  <2>1. \A n \in DOMAIN line': line'[n] = Head(flight) \/ (n \in DOMAIN line /\ line'[n] = line[n])
    BY <1>1 DEF SerialTyped
  <2>2. \A n \in DOMAIN flight': n + 1 \in DOMAIN flight /\ flight'[n] = flight[n + 1]
    BY <1>1 DEF SerialTyped
  <2>3. Head(flight) = flight[1] /\ 1 \in DOMAIN flight
    BY <1>1 DEF SerialTyped
  <2>4. \A p: Once(p)' = Once(p)
    BY <1>1 DEF Once
  <2>5. QED
    BY <2>1, <2>2, <2>3, <2>4 DEF OnceTrue
<1>5. OnlyMine'
  <2>1. Mine' = Mine
    BY <1>1 DEF Mine, Serial!Reg
  <2>2. UnderWay' = UnderWay
    BY <1>1 DEF UnderWay, SerialTyped
  <2>3. \A n \in 1..UnderWay: Under(n)' = Under(n)
    BY <1>1 DEF UnderWay, Under, SerialTyped
  <2>4. UnderWay \in Nat
    BY DEF UnderWay, SerialTyped
  <2>5. (UnderWay > 0 => Under(1)' = Under(1)) /\ (UnderWay > 1 => Under(2)' = Under(2))
    BY <2>3, <2>4
  <2>6. QED
    BY <1>1, <2>1, <2>2, <2>5 DEF OnlyMine
<1>6. QED
  BY <1>2, <1>3, <1>4, <1>5

LEMMA SerialFirst ==
  ASSUME SerialTyped, line # <<>> PROVE Head(line) = Under(1) /\ UnderWay > 0
BY DEF SerialTyped, Under, UnderWay

\* Taking the first packet leaves what was true of the others.
LEMMA SerialTaken ==
  ASSUME SerialTyped, OnceTrue, line # <<>>, line' = Tail(line), UNCHANGED <<flight, had>>
  PROVE  /\ line' \in Seq(Packets) /\ OnceTrue'
         /\ Head(line) \in Packets /\ Once(Head(line)) /\ Head(line) = Under(1)
         /\ UnderWay' = UnderWay - 1 /\ UnderWay \in Nat /\ UnderWay > 0
         /\ UnderWay > 1 => Under(1)' = Under(2)
<1>1. Head(line) = line[1] /\ 1 \in DOMAIN line /\ line[1] \in Packets /\ line' \in Seq(Packets)
  BY DEF SerialTyped
<1>2. \A n \in DOMAIN line': n + 1 \in DOMAIN line /\ line'[n] = line[n + 1]
  BY DEF SerialTyped
<1>3. \A p: Once(p)' = Once(p)
  BY DEF Once
<1>4. Head(line) = Under(1) /\ UnderWay' = UnderWay - 1 /\ UnderWay \in Nat /\ UnderWay > 0
  BY DEF SerialTyped, UnderWay, Under
<1>5. UnderWay > 1 => Under(1)' = Under(2)
  BY DEF SerialTyped, UnderWay, Under
<1>6. QED
  BY <1>1, <1>2, <1>3, <1>4, <1>5 DEF OnceTrue

LEMMA SerialReceive ==
  ASSUME SerialInv, Serial!ReceiveAnswer PROVE SerialInv'
<1> USE DEF SerialInv
<1> DEFINE h == Head(line)
<1>1. /\ awaits = "answer" /\ line # <<>> /\ h # Serial!Ack /\ h[1] = Serial!Reg
      /\ got' = IF Serial!Reg \in Serial!Alarm THEN [got EXCEPT ![Serial!Reg] = h[2]] ELSE got
      /\ line' = Tail(line) /\ awaits' = "ack"
      /\ UNCHANGED <<regs, had, flight, step, time, told, late>>
  BY DEF Serial!ReceiveAnswer, Serial!Matches, Serial!mcu, Serial!task
<1>2. /\ line' \in Seq(Packets) /\ OnceTrue' /\ h \in Packets /\ Once(h) /\ h = Under(1)
      /\ UnderWay' = UnderWay - 1 /\ UnderWay \in Nat /\ UnderWay > 0
      /\ UnderWay > 1 => Under(1)' = Under(2)
  BY <1>1, SerialTaken
<1> HIDE DEF h
<1>3. SerialTyped'
  BY <1>1, <1>2 DEF SerialTyped, Packets
<1>4. ~late => h = Mine /\ OnlyMine'
  BY <1>1, <1>2 DEF OnlyMine
<1>5. OnlyMine'
  BY <1>1, <1>4 DEF OnlyMine
<1>6. ReadRight'
  <2> SUFFICES ASSUME NEW r \in Serial!Alarm, Read(r)' PROVE Right(r)'
    BY DEF ReadRight
  <2>1. CASE r = Serial!Reg
    <3>1. got'[r] = h[2] /\ h[1] = r
      BY <1>1, <2>1 DEF SerialTyped
    <3>2. ~late => h[2] = regs[r]
      BY <1>4, <2>1 DEF Mine
    <3>3. QED
      BY <1>1, <1>2, <3>1, <3>2 DEF Right, Once
  <2>2. CASE r # Serial!Reg
    <3>1. Read(r)
      BY <1>1, <2>2, SerialNumbers DEF Read, Serial!Reg, SerialTyped, ByStep, Serial!Sets
    <3>2. got'[r] = got[r]
      BY <1>1, <2>2 DEF SerialTyped
    <3>3. QED
      BY <1>1, <3>1, <3>2 DEF ReadRight, Right
  <2>3. QED
    BY <2>1, <2>2
<1>7. Had' /\ ToldLast' /\ ByStep'
  BY <1>1 DEF Had, ToldLast, ByStep
<1>8. QED
  BY <1>2, <1>3, <1>5, <1>6, <1>7

\* The command ends with what has been read, if it has read all.
LEMMA SerialEnds ==
  ASSUME SerialTyped, ReadRight, awaits # "idle",
         UNCHANGED <<regs, had, got>>, Had,
         late' \in BOOLEAN, late => late', awaits' = "idle",
         \/ told' \in {Serial!Nothing, Serial!Error}
         \/ step = Serial!Enable /\ told' = Serial!AlarmRead
  PROVE  ToldLast'
<1>1. ASSUME step = Serial!Enable, NEW r \in Serial!Alarm PROVE Right(r)'
  <2>1. Right(r)
    BY <1>1, SerialNumbers DEF ReadRight, Read
  <2>2. QED
    BY <2>1 DEF Right, Had, SerialTyped
<1>2. Serial!AlarmRead' = Serial!AlarmRead
  BY DEF Serial!AlarmRead
<1>3. QED
  BY <1>1, <1>2 DEF ToldLast, Serial!Nothing, Serial!Error

LEMMA SerialAck ==
  ASSUME SerialInv, Serial!ReceiveAck PROVE SerialInv'
<1> USE DEF SerialInv
<1>1. /\ awaits = "ack" /\ line # <<>> /\ Head(line) = Serial!Ack /\ line' = Tail(line)
      /\ UNCHANGED <<regs, had, flight, time, got, late>>
      /\ \/ step \in {Serial!Enable, Serial!Temperature} /\ awaits' = "idle" /\ step' = step
            /\ \/ told' = Serial!Nothing
               \/ step = Serial!Enable /\ told' = Serial!AlarmRead
         \/ step \notin {Serial!Enable, Serial!Temperature} /\ awaits' = "send" /\ step' = step + 1
            /\ told' = told
  BY DEF Serial!ReceiveAck, Serial!Ends, Serial!Goes, Serial!mcu
<1>2. line' \in Seq(Packets) /\ OnceTrue' /\ UnderWay' = UnderWay - 1 /\ UnderWay \in Nat
  BY <1>1, SerialTaken
<1>3. SerialTyped'
  BY <1>1, <1>2, SerialNumbers DEF SerialTyped
<1>4. OnlyMine'
  BY <1>1, <1>2 DEF OnlyMine
<1>5. ReadRight'
  <2>1. \A r \in Serial!Alarm: awaits' # "idle" /\ Read(r)' => Read(r)
    <3> SUFFICES ASSUME NEW r \in Serial!Alarm, awaits' # "idle", Read(r)' PROVE Read(r)
      OBVIOUS
    <3>1. awaits' = "send" /\ step' = step + 1 /\ step # Serial!Enable /\ awaits = "ack"
      BY <1>1
    <3>2. step \in Int /\ r \in 1..N /\ N \in Nat
      BY SerialNumbers DEF SerialTyped
    <3>3. step + 1 \in N+1..Serial!Enable /\ r < step + 1 - N
      <4>1. step' \in N+1..Serial!Enable /\ r < step' - N
        BY <3>1 DEF Read
      <4>2. QED
        BY <3>1, <3>2, <4>1, SMTT(30)
    <3>4. step \in N+1..Serial!Enable /\ (r < step - N \/ r = step - N)
      BY <3>2, <3>3, SerialNumbers
    <3>5. QED
      BY <3>1, <3>4 DEF Read
  <2>2. QED
    BY <1>1, <2>1 DEF ReadRight, Right
<1>6. ToldLast'
  <2>1. CASE awaits' = "idle"
    BY <1>1, <2>1, SerialEnds DEF SerialTyped
  <2>2. CASE awaits' = "send"
    BY <1>1, <2>2 DEF ToldLast
  <2>3. QED
    BY <1>1, <2>1, <2>2
<1>7. Had' /\ ByStep'
  BY <1>1 DEF Had, ByStep
<1>8. QED
  BY <1>2, <1>3, <1>4, <1>5, <1>6, <1>7

\* A try that fails: what it has left under way is later than it.
LEMMA SerialFails ==
  ASSUME SerialInv, Serial!ReceiveWrong \/ Serial!Timeout PROVE SerialInv'
<1> USE DEF SerialInv
<1>1. /\ awaits \in {"answer", "ack"} /\ UNCHANGED <<regs, had, flight, time, got>> /\ step' = step
      /\ \/ awaits' = "send" /\ told' = told
         \/ awaits' = "idle" /\ told' = IF step = Serial!Enable THEN Serial!AlarmRead ELSE Serial!Error
  BY DEF Serial!ReceiveWrong, Serial!Timeout, Serial!Fails, Serial!Ends, Serial!mcu
<1>2. /\ late' \in BOOLEAN /\ (late => late')
      /\ ~late' => line' = <<>> /\ flight' = <<>>
  <2>1. CASE Serial!Timeout
    BY <1>1, <2>1 DEF Serial!Timeout, SerialTyped
  <2>2. CASE Serial!ReceiveWrong
    <3>1. CASE awaits = "answer"
      <4>1. Head(line) # Serial!Ack => Head(line)[1] # Serial!Reg
        BY <2>2, <3>1 DEF Serial!ReceiveWrong, Serial!Matches
      <4>2. late
        <5>1. ~late => Head(line) = Mine
          BY <2>2, <3>1, SerialFirst DEF Serial!ReceiveWrong, OnlyMine
        <5>2. Mine # Serial!Ack /\ Mine[1] = Serial!Reg
          BY <3>1, SerialNumbers DEF Mine, Serial!Ack, Serial!Reg, SerialTyped
        <5>3. QED
          BY <4>1, <5>1, <5>2
      <4>3. QED
        BY <2>2, <4>2 DEF Serial!ReceiveWrong, SerialTyped
    <3>2. CASE awaits = "ack"
      <4>1. Head(line) # Serial!Ack /\ line # <<>>
        BY <2>2, <3>2 DEF Serial!ReceiveWrong
      <4>2. late
        BY <3>2, <4>1, SerialFirst DEF OnlyMine
      <4>3. QED
        BY <2>2, <4>2 DEF Serial!ReceiveWrong, SerialTyped
    <3>3. QED
      BY <1>1, <3>1, <3>2
  <2>3. QED
    BY <2>1, <2>2
<1>3. line' \in Seq(Packets) /\ OnceTrue'
  <2>1. CASE Serial!Timeout
    BY <1>1, <2>1 DEF Serial!Timeout, SerialTyped, OnceTrue, Once
  <2>2. CASE Serial!ReceiveWrong
    BY <1>1, <2>2, SerialTaken DEF Serial!ReceiveWrong
  <2>3. QED
    BY <2>1, <2>2
<1>4. SerialTyped'
  BY <1>1, <1>2, <1>3 DEF SerialTyped
<1>5. OnlyMine'
  BY <1>1, <1>2 DEF OnlyMine, UnderWay
<1>6. ReadRight'
  <2>1. \A r \in Serial!Alarm: awaits' # "idle" /\ Read(r)' => Read(r)
    BY <1>1 DEF Read
  <2>2. \A r \in Serial!Alarm: Right(r) => Right(r)'
    BY <1>1, <1>2 DEF Right, Had, SerialTyped
  <2>3. QED
    BY <1>1, <2>1, <2>2 DEF ReadRight
<1>7. ToldLast'
  <2>1. CASE awaits' = "idle"
    <3>1. /\ awaits # "idle" /\ UNCHANGED <<regs, had, got>> /\ late' \in BOOLEAN /\ (late => late')
      BY <1>1, <1>2 DEF SerialTyped
    <3>2. \/ told' \in {Serial!Nothing, Serial!Error}
          \/ step = Serial!Enable /\ told' = Serial!AlarmRead
      BY <1>1, <2>1
    <3>3. QED
      BY <2>1, <3>1, <3>2, SerialEnds
  <2>2. CASE awaits' = "send"
    BY <1>1, <2>2 DEF ToldLast
  <2>3. QED
    BY <1>1, <2>1, <2>2
<1>8. Had' /\ ByStep'
  BY <1>1 DEF Had, ByStep
<1>9. QED
  BY <1>3, <1>4, <1>5, <1>6, <1>7, <1>8

LEMMA SerialStutters == ASSUME SerialInv, UNCHANGED Serial!vars PROVE SerialInv'
<1>1. UNCHANGED <<regs, had, step, time, flight, line, awaits, got, told, late>>
  BY DEF Serial!vars, Serial!mcu, Serial!wire, Serial!task
<1>2. SerialTyped' /\ Had' /\ OnceTrue' /\ ReadRight' /\ ToldLast' /\ ByStep'
  BY <1>1 DEF SerialInv, SerialTyped, Had, OnceTrue, Once, ReadRight, Read, Right, ToldLast, ByStep,
              Serial!AlarmRead, Serial!Sets
<1>3. OnlyMine'
  BY <1>1 DEF SerialInv, OnlyMine, UnderWay, Under, Mine, Serial!Reg
<1>4. QED
  BY <1>2, <1>3 DEF SerialInv

\* AlarmAsTold (McuSerial.tla): what SendCommand and readAlarm_cmd tell a client of
\* the alarm is what the MCU has, however many packets are lost; and if answers
\* were late, it is what the same registers once had.  For any number of registers,
\* tries and faults.
THEOREM AlarmIsTrue == Serial!Spec => []AlarmAsTold
<1>1. SerialInv /\ [Serial!Next]_(Serial!vars) => SerialInv'
  <2>1. Times \subseteq Values /\ 0 \in Values
    BY DEF Values
  <2>2. QED
    BY <2>1, SerialBegin, SerialSend, SerialArrive, SerialReceive, SerialAck, SerialFails, SerialStutters
       DEF Serial!Next
<1>2. SerialInv => AlarmAsTold
  <2> SUFFICES ASSUME SerialInv, told \notin {Serial!Nothing, Serial!Error}
               PROVE  IF late THEN \A r \in Serial!Alarm: told[r] \in had[r] ELSE told = regs
    BY DEF AlarmAsTold, Serial!AlarmAsTold
  <2>1. told = [r \in Serial!Alarm |-> got[r]] /\ \A r \in Serial!Alarm: Right(r)
    BY DEF SerialInv, ToldLast, Serial!AlarmRead
  <2>2. regs = [r \in Serial!Alarm |-> regs[r]]
    BY DEF SerialInv, SerialTyped
  <2>3. QED
    BY <2>1, <2>2 DEF Right
<1>3. QED
  BY <1>1, <1>2, SerialInitially, PTL DEF Serial!Spec

------------------------------------------------------------------------------
\* Each part is as free in the composition as by itself: what is proved of its
\* specification holds of the one TLC runs.
THEOREM EachByItself == MCSpec => Spec /\ Serial!Spec /\ Power!Spec /\ Disks!Spec
<1>1. MCInit => Init /\ Serial!Init /\ Power!Init /\ Disks!Init
  BY DEF MCInit
<1>2. [MCNext]_allVars => /\ [Next]_vars /\ [Serial!Next]_(Serial!vars)
                         /\ [Power!Next]_(Power!vars) /\ [Disks!Next]_(Disks!vars)
  <2>1. UNCHANGED serialVars => UNCHANGED Serial!vars
    BY DEF serialVars, Serial!vars, Serial!mcu, Serial!wire, Serial!task
  <2>2. UNCHANGED powerVars => UNCHANGED Power!vars
    BY DEF powerVars, Power!vars, Power!files, Power!daemon, Power!bounds
  <2>3. UNCHANGED diskVars => UNCHANGED Disks!vars
    BY DEF diskVars, Disks!vars, Disks!world, Disks!memory
  <2>4. QED
    BY <2>1, <2>2, <2>3 DEF MCNext, allVars, Serves, Sends, Lights, Watches
<1>3. QED
  BY <1>1, <1>2, PTL DEF MCSpec, Spec, Serial!Spec, Power!Spec, Disks!Spec
=============================================================================
