------------------------------ MODULE Headers ------------------------------
(***************************************************************************)
(* auto.conf and the headers of the options (confdata.c), which a           *)
(* configuration program leaves for make: those of the options that changed *)
(* since the last auto.conf are touched.  That may be of an earlier         *)
(* program, or of other Config.in files; Conf.tla has what those do.        *)
(***************************************************************************)
EXTENDS Types

VARIABLES
  K,            \* what conf_parse makes of the Config.in files
  c,            \* the calculation of its symbols from the user's values
  sticky,       \* members of choices that once were to be written
  prog,         \* "none", or what the program at work does: "edit", "ask",
                \*   "write", and at the end "saved" or "left"
  auto,         \* auto.conf
  touched       \* headers touched by the last program

headerVars == <<K, c, sticky, prog, auto, touched>>

Written == [s \in K.syms |-> c.write[s] \/ s \in sticky]

\* conf_write_autoconf: what is to be written, but nothing for "n".
AutoLines ==
  [s \in {x \in K.syms \ K.choices : Written[x] /\ (x \in IntSyms \/ c.cur[x] # 0)} |-> c.cur[s]]

\* Mutant: what is no longer written is passed over.
TouchedIfWritten ==
  {s \in K.syms \ K.choices :
     /\ Written[s]
     /\ IF s \in DOMAIN auto THEN c.cur[s] # auto[s] ELSE s \in IntSyms \/ c.cur[s] # 0}
\* conf_split_config: the symbols whose header is touched.  A number without a
\* digit cannot be read from auto.conf.
Touched ==
  LET old == {s \in DOMAIN auto \ {NoSym} : s \notin K.syms \/ auto[s] # Empty}
      Differs(s) ==
        CASE Written[s] /\ s \in old -> c.cur[s] # auto[s]
          [] Written[s] /\ s \notin old -> s \in IntSyms \/ c.cur[s] # 0
          [] OTHER -> s \in old
  IN  {s \in K.syms \ K.choices : Differs(s)} \cup (old \ K.syms)

\* How every program ends, saved or left.
WriteHeaders ==
  /\ prog \in {"saved", "left"}
  /\ auto' = AutoLines
  /\ touched' = Touched

\* Anything may be configured between two such ends, with any description.
HeadersInit == DOMAIN auto = {NoSym} /\ touched = {}     \* there is none
HeadersNext == WriteHeaders \/ UNCHANGED <<auto, touched>>
HeadersSpec == HeadersInit /\ [][HeadersNext]_headerVars

------------------------------------------------------------------------------
\* The line of s in auto.conf becomes another, is new or goes.
LineChanges(s) ==
  \/ ~(s \in DOMAIN auto <=> s \in DOMAIN auto')
  \/ s \in DOMAIN auto /\ auto[s] # auto'[s]
Unreadable(s) == s \in K.syms /\ s \in DOMAIN auto /\ auto[s] = Empty

\* conf_split_config touches the headers of the options whose line in auto.conf
\* changes, and no other: gcc is rebuilt for them.  It works from the symbols'
\* flags and the old file, before the new one is written.
TouchedIfChanged ==
  [][WriteHeaders =>
       \A s \in (DOMAIN auto \cup K.syms \cup touched') \ ({NoSym} \cup K.choices) :
         ~Unreadable(s) => (s \in touched' <=> LineChanges(s))]_headerVars
=============================================================================
