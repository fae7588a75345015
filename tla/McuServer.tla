------------------------------ MODULE McuServer ------------------------------
(***************************************************************************)
(* The socket server of dns320l-daemon: poll_setup and poll_wait.  Clients *)
(* connect, ask, quit and leave at any time; one pass serves what one      *)
(* poll() saw, slot by slot, and slot 0 is the listening socket.  A slot   *)
(* holds the number of a descriptor, which accept() takes again as soon as *)
(* it is closed.                                                           *)
(***************************************************************************)
EXTENDS Integers, FiniteSets, Sequences

CONSTANTS
  Clients,
  NoClient,     \* a descriptor that is closed
  MaxFds        \* MAXFDS

ASSUME MaxFdsAssumption == MaxFds \in Nat /\ MaxFds > 1
ASSUME NoClientAssumption == NoClient \notin Clients

VARIABLES
  slots,     \* fds[1..].fd: a descriptor or -1
  nfds,
  open,      \* whose connection a descriptor is
  todo,      \* revents of the slots this pass has not come to yet
  backlog,   \* who has connected and is not accepted yet, in order
  side,      \* what a client has done: "out", "in", "left"
  request,   \* what it has asked and the daemon has not read
  waits,     \* it has asked and not been answered
  cut        \* clients that were disconnected with a request unanswered

table == <<slots, nfds>>
peers == <<side, request, waits>>
vars == <<table, open, todo, backlog, peers, cut>>

Slots == 1..MaxFds-1
Fds == 1..MaxFds          \* one more than slots, for a stale one
Used == {s \in Slots: slots[s] # -1}
Lowest(S) == CHOOSE x \in S: \A y \in S: x <= y
Quiet == [s \in 0..MaxFds-1 |-> "none"]

\* What poll() says of a slot.  A peer that left is POLLIN, POLLHUP or both.
Revents(s) ==
  LET c == open[slots[s]] IN
  CASE slots[s] = -1 -> {"none"}
    [] slots[s] # -1 /\ c = NoClient -> {"nval"}
    [] slots[s] # -1 /\ c # NoClient /\ request[c] # "none" -> {"in"}
    [] slots[s] # -1 /\ c # NoClient /\ request[c] = "none" /\ side[c] = "left" -> {"in", "hup"}
    [] OTHER -> {"none"}

\* poll(): a new pass, when the one before is done and there is an event.
Poll ==
  /\ todo = Quiet
  /\ todo' \in {t \in [0..MaxFds-1 -> {"none", "in", "hup", "nval"}]:
       /\ t[0] = IF backlog = <<>> THEN "none" ELSE "in"
       /\ \A s \in Slots: t[s] \in Revents(s)}
  /\ todo' # Quiet
  /\ UNCHANGED <<table, open, backlog, peers, cut>>

\* The pass has come to slot s.
Reaches(s) == todo[s] # "none" /\ \A r \in 0..s-1: todo[r] = "none"

\* Mutant of Done: the pass ends with its first event.
DoneAll(s) == todo' = Quiet

Done(s) == todo' = [todo EXCEPT ![s] = "none"]

\* Slot 0: the table is full, accept() fails, or the connection gets the
\* first free slot and the lowest free descriptor.
Delay ==
  /\ Reaches(0) /\ nfds = MaxFds /\ Done(0)
  /\ UNCHANGED <<table, open, backlog, peers, cut>>

\* Mutant of AcceptFails: what was not accepted is counted.
AcceptFailsCounted ==
  /\ Reaches(0) /\ nfds # MaxFds /\ Done(0) /\ nfds' = nfds + 1
  /\ UNCHANGED <<slots, open, backlog, peers, cut>>

AcceptFails ==
  /\ Reaches(0) /\ nfds # MaxFds /\ Done(0)
  /\ UNCHANGED <<table, open, backlog, peers, cut>>

Accept ==
  /\ Reaches(0) /\ nfds # MaxFds /\ Done(0)
  /\ LET j == Lowest(Slots \ Used)
         f == Lowest({g \in Fds: open[g] = NoClient})
     IN  slots' = [slots EXCEPT ![j] = f] /\ open' = [open EXCEPT ![f] = Head(backlog)]
  /\ nfds' = nfds + 1 /\ backlog' = Tail(backlog)
  /\ UNCHANGED <<peers, cut>>

------------------------------------------------------------------------------
\* cleanup: the descriptor is closed, and its client sees the end.
Cleanup(f) ==
  LET c == open[f] IN
  /\ open' = [open EXCEPT ![f] = NoClient]
  /\ IF c = NoClient THEN UNCHANGED <<peers, cut>> ELSE
       /\ cut' = IF side[c] = "in" /\ waits[c] /\ request[c] # "quit" THEN cut \cup {c} ELSE cut
       /\ side' = [side EXCEPT ![c] = "out"]
       /\ request' = [request EXCEPT ![c] = "none"]
       /\ waits' = [waits EXCEPT ![c] = FALSE]

FreeSlot(s) == slots' = [slots EXCEPT ![s] = -1] /\ nfds' = nfds - 1

\* recv, HandleCommand and send: the client that waits has its answer.
Serve(s) ==
  /\ s \in Slots /\ Reaches(s) /\ todo[s] = "in" /\ Done(s)
  /\ open[slots[s]] # NoClient
  /\ LET c == open[slots[s]] IN
     /\ request[c] = "command" /\ side[c] = "in"
     /\ request' = [request EXCEPT ![c] = "none"]
     /\ waits' = [waits EXCEPT ![c] = FALSE]
  /\ UNCHANGED <<table, open, backlog, side, cut>>

\* quit, or an answer nobody is there to receive: closed, and the slot is
\* freed when the next poll() finds the descriptor invalid.
CloseAnswered(s) ==
  /\ s \in Slots /\ Reaches(s) /\ todo[s] = "in" /\ Done(s)
  /\ open[slots[s]] # NoClient
  /\ LET c == open[slots[s]] IN
       request[c] = "quit" \/ (request[c] = "command" /\ side[c] = "left")
  /\ Cleanup(slots[s])
  /\ UNCHANGED <<table, backlog>>

\* ShutdownDaemon: answered; exit() closes everything, and init starts another.
ShutDown(s) ==
  /\ s \in Slots /\ Reaches(s) /\ todo[s] = "in"
  /\ open[slots[s]] # NoClient
  /\ request[open[slots[s]]] = "shutdown"
  /\ slots' = [r \in Slots |-> -1] /\ nfds' = 1 /\ open' = [f \in Fds |-> NoClient]
  /\ todo' = Quiet /\ backlog' = <<>>
  /\ side' = [c \in Clients |-> "out"] /\ request' = [c \in Clients |-> "none"]
  /\ waits' = [c \in Clients |-> FALSE]
  /\ UNCHANGED cut

\* recv says the peer has gone, or is refused a closed descriptor.
PeerGone(s) ==
  /\ s \in Slots /\ Reaches(s) /\ todo[s] = "in" /\ Done(s)
  /\ LET c == open[slots[s]] IN c # NoClient => request[c] = "none" /\ side[c] = "left"
  /\ Cleanup(slots[s]) /\ FreeSlot(s)
  /\ UNCHANGED <<backlog>>

\* Mutant of Hang: what is invalid is closed as well.
HangAndClose(s) ==
  /\ s \in Slots /\ Reaches(s) /\ todo[s] \in {"hup", "nval"} /\ Done(s) /\ FreeSlot(s)
  /\ Cleanup(slots[s])
  /\ UNCHANGED <<backlog>>

\* POLLHUP and POLLERR: closed and freed.  POLLNVAL: freed only, for the number
\* may be another connection's by now.
Hang(s) ==
  /\ s \in Slots /\ Reaches(s) /\ todo[s] \in {"hup", "nval"} /\ Done(s) /\ FreeSlot(s)
  /\ IF todo[s] = "hup" THEN Cleanup(slots[s]) ELSE UNCHANGED <<open, peers, cut>>
  /\ UNCHANGED <<backlog>>

------------------------------------------------------------------------------
\* client_cmd, netcat, telnet.
Connect(c) ==
  /\ side[c] = "out"
  /\ side' = [side EXCEPT ![c] = "in"] /\ backlog' = Append(backlog, c)
  /\ UNCHANGED <<table, open, todo, request, waits, cut>>

Ask(c, r) ==
  /\ side[c] = "in" /\ ~waits[c]
  /\ request' = [request EXCEPT ![c] = r] /\ waits' = [waits EXCEPT ![c] = TRUE]
  /\ UNCHANGED <<table, open, todo, backlog, side, cut>>

Leave(c) ==
  /\ side[c] = "in"
  /\ side' = [side EXCEPT ![c] = "left"] /\ waits' = [waits EXCEPT ![c] = FALSE]
  /\ UNCHANGED <<table, open, todo, backlog, request, cut>>

Init ==
  /\ slots = [s \in Slots |-> -1] /\ nfds = 1 /\ open = [f \in Fds |-> NoClient]
  /\ todo = Quiet /\ backlog = <<>>
  /\ side = [c \in Clients |-> "out"] /\ request = [c \in Clients |-> "none"]
  /\ waits = [c \in Clients |-> FALSE] /\ cut = {}

Pass == \/ Poll \/ Delay \/ AcceptFails \/ Accept
        \/ \E s \in Slots: Serve(s) \/ CloseAnswered(s) \/ ShutDown(s) \/ PeerGone(s) \/ Hang(s)

Next == Pass \/ \E c \in Clients:
          Connect(c) \/ Leave(c) \/ \E r \in {"command", "quit", "shutdown"}: Ask(c, r)

Spec == Init /\ [][Next]_vars

------------------------------------------------------------------------------
\* Every used slot is counted once, whatever closes it: else accept() finds
\* no free slot and writes behind the table, or clients are turned away for ever.
SlotsCounted == nfds = 1 + Cardinality(Used)

\* No two slots work on one connection, and none on another's descriptor: a
\* client that waits is never cut off by what others do, unless they end the
\* daemon.
NobodyCutOff == cut = {}

\* A client that has asked is answered, however many others ask, quit and leave,
\* unless it waits for a slot in a full table; only ShutdownDaemon ends his wait.
Answered == \A c \in Clients:
  waits[c] ~> (~waits[c] \/ (nfds = MaxFds /\ \A f \in Fds: open[f] # c))
=============================================================================
