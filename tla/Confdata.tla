------------------------------ MODULE Confdata ------------------------------
(***************************************************************************)
(* Reading and writing .config (confdata.c).  A file, and auto.conf, is a   *)
(* function from the names in it to their values; NoFile has no names and   *)
(* is told from a file that is empty.                                       *)
(***************************************************************************)
EXTENDS Symbol

NoFile == [x \in {NoSym} |-> 0]

\* conf_read_simple: what a file says of the symbols of k.  Every choice
\* counts as set, to the last of its members that is "y".
YesIn(k, file, ch) ==
  {n \in DOMAIN k.members[ch] : k.members[ch][n] \in DOMAIN file /\ file[k.members[ch][n]] = 2}
ChoiceIn(k, file, ch) ==
  IF YesIn(k, file, ch) = {} THEN [has |-> TRUE, val |-> 0, pick |-> NoSym]
  ELSE [has |-> TRUE, val |-> 2, pick |-> k.members[ch][Max(YesIn(k, file, ch))]]
ReadSimple(k, file) ==
  [s \in k.syms |->
     IF s \in k.choices THEN ChoiceIn(k, file, s)
     ELSE IF s \in DOMAIN file /\ file[s] # Empty THEN [Unset(s) EXCEPT !.has = TRUE, !.val = file[s]]
     ELSE Unset(s)]

\* What is warned of: names no symbol has, numbers without a digit, and a
\* choice with two members "y".
Unknown(k, file) == DOMAIN file \ k.syms
Invalid(k, file) ==
  LET named == k.syms \cap DOMAIN file
  IN  \/ \E s \in named : file[s] = Empty
      \/ \E s, t \in named : s # t /\ k.of[s] = k.of[t] /\ k.of[s] # NoSym /\ file[s] = 2 /\ file[t] = 2

\* Mutant: a value that is new is not looked for.
UnsavedNew(k, user, c) ==
  {s \in k.syms \ k.choices :
     IF user[s].has /\ c.write[s] THEN c.cur[s] # user[s].val ELSE user[s].has}
\* The first loop of conf_read: a value that is not what the file says, one
\* that is new, or one that has no use.
Unsaved(k, user, c) ==
  {s \in k.syms \ k.choices :
     IF user[s].has /\ c.write[s] THEN c.cur[s] # user[s].val ELSE user[s].has \/ c.write[s]}

\* conf_read: the user's values, and is there anything to save?  A choice with
\* a new member is new; what cannot be seen is forgotten, unless the file
\* disagrees; so is a number out of its range.
Checked(k, file, simple, c) ==
  LET unsaved == Unsaved(k, simple, c)
      Complete(ch) == \A s \in k.syms : k.of[s] = ch /\ c.vis[s] # 0 => simple[s].has
      Kept(s) ==
        /\ simple[s].has
        /\ s \in k.choices => Complete(s)
        /\ k.of[s] = NoSym => (c.vis[s] # 0 \/ unsaved # {})
        /\ s \in IntSyms => IntInRange(k, c, s, simple[s].val)
  IN  [user |-> [s \in k.syms |-> [simple[s] EXCEPT !.has = Kept(s)]],
       changed |-> unsaved # {} \/ Unknown(k, file) # {} \/ Invalid(k, file)]

\* Mutant: "n" is not written ("# CONFIG_X is not set").
LinesOn(k, c, write) == [s \in {x \in k.syms \ k.choices : write[x] /\ c.cur[x] # 0} |-> c.cur[s]]
\* conf_write: every symbol that is to be written, with its value
Lines(k, c, write) == [s \in {x \in k.syms \ k.choices : write[x]} |-> c.cur[s]]
\* Has the file f these lines, and no more than members of choices that cannot be
\* seen any more?
HasAll(k, f, lines) ==
  /\ \A s \in DOMAIN lines : s \in DOMAIN f /\ f[s] = lines[s]
  /\ \A s \in DOMAIN f \ DOMAIN lines : s \in k.syms /\ k.of[s] # NoSym

\* conf_set_all_new_symbols, all to one value: v is "n" or "y".
AllNew(k, user, v) ==
  [s \in k.syms |-> IF user[s].has \/ s \in IntSyms THEN user[s]
                    ELSE [user[s] EXCEPT !.has = TRUE, !.val = v]]

\* The same at random: "y" for some symbols, and for every choice that can be
\* seen the member p[c], seen or not.
AllRandom(k, user, yes, p) ==
  LET u == [s \in k.syms |-> IF user[s].has \/ s \in IntSyms THEN user[s]
                             ELSE [user[s] EXCEPT !.has = s \notin k.choices, !.val = IF s \in yes THEN 2 ELSE 0]]
      c == CalcAll(k, u)
      Chosen(ch) == ch \in k.choices /\ ~u[ch].has /\ c.cur[ch] = 2
  IN  [s \in k.syms |->
         IF Chosen(s) THEN [u[s] EXCEPT !.has = TRUE, !.pick = p[s]]
         ELSE IF k.of[s] # NoSym /\ Chosen(k.of[s]) THEN [u[s] EXCEPT !.val = IF p[k.of[s]] = s THEN 2 ELSE 0]
         ELSE u[s]]
=============================================================================
