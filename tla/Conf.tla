-------------------------------- MODULE Conf --------------------------------
(***************************************************************************)
(* The configuration programs: mconf (make menuconfig), and conf, which     *)
(* asks (make config, make oldconfig) or sets every symbol itself           *)
(* (allyesconfig, allnoconfig, randconfig).  They share .config, from which *)
(* Buildroot is built, auto.conf and the headers that conf_split_config     *)
(* touches.  Between two programs the Config.in files may be upgraded.      *)
(***************************************************************************)
EXTENDS Confdata, Headers

CONSTANTS
  Trees,        \* the descriptions
  conf_parse(_),      \* what is made of one (Menu.tla)
  sym_check_deps(_),  \* is it accepted?
  Successors,   \* [index -> indices]: what a description may be upgraded to
  Files,        \* files that the user may have got from elsewhere
  Numbers,      \* what may be typed for a number
  Rolls,        \* which symbols may come out as "y" at random
  MaxEdits,     \* changes in one run of mconf
  MaxRuns       \* programs started

VARIABLES
  kc,           \* index of the description in force
  file,         \* .config
  user,         \* the user's values
  changed,      \* conf_get_changed
  edits,
  mode,         \* input_mode: "all", "silent" or "set"
  todo,         \* what conf and check_conf have yet to return to, first first
  top,          \* rootEntry
  again,        \* conf_cnt > 0
  runs

vars == <<kc, K, file, auto, touched, prog, user, c, sticky, changed, edits, mode, todo, top, again, runs>>
work == <<prog, user, c, sticky, changed, edits, mode, todo, top, again, runs>>

(***************************************************************************)
(* What is taken of the descriptions, the files and the answers.            *)
(***************************************************************************)
\* The tree of the menus: what stands in another stands in one of the other's
\* list, and all stand in the root; every symbol has an entry.
Nested(k) ==
  /\ Len(k.menus) \in Nat /\ DOMAIN k.menus = 1..Len(k.menus)
  /\ \A i, n \in DOMAIN k.menus : k.menus[i].id = k.menus[n].id => i = n
  /\ DOMAIN k.above = {k.menus[n].id : n \in DOMAIN k.menus}
  /\ \A id \in DOMAIN k.above \ {0} : 0 \in k.above[id]
  /\ \E n \in DOMAIN k.menus : k.menus[n].id = 0 /\ k.menus[n].kind = "menu"
  /\ \A n \in DOMAIN k.menus :
       LET m == k.menus[n] IN
       /\ Len(m.list) \in Nat /\ DOMAIN m.list = 1..Len(m.list)
       /\ \A i \in DOMAIN m.list : \E x \in DOMAIN k.menus : m.list[i] = k.menus[x]
       /\ \A id \in DOMAIN k.above :
            m.id \in k.above[id] => \E i \in DOMAIN m.list : m.list[i].id \in k.above[id] \cup {id}
       /\ IsSymbol(m) => m.sym \in k.syms
  /\ \A s \in k.syms : k.entry[s].sym = s /\ \E n \in DOMAIN k.menus : k.menus[n] = k.entry[s]

DescriptionAssumption ==
  \A n \in DOMAIN Trees :
    /\ Successors[n] \subseteq DOMAIN Trees
    /\ LET k == conf_parse(Trees[n]) IN sym_check_deps(k) => Nested(k) /\ WellTyped(k) /\ Choosing(k) /\ Acyclic(k)
ASSUME DescriptionAssumption

\* An option is no choice in another description, as choices have no name, and a
\* line of a file is of its option's type.
AllChoices == UNION {conf_parse(Trees[n]).choices : n \in DOMAIN Trees}
Line(x, v) == IF x \in IntSyms THEN v \in Nat \cup {Empty} ELSE v \in {0, 2}
FileOK(f) == \A x \in DOMAIN f : x \notin AllChoices /\ Line(x, f[x])
FileAssumption ==
  /\ \A n \in DOMAIN Trees : LET k == conf_parse(Trees[n]) IN k.syms \cap AllChoices \subseteq k.choices
  /\ NoSym \notin IntSyms \cup AllChoices
  /\ \A f \in Files : FileOK(f)
  /\ Numbers \subseteq Nat
ASSUME FileAssumption

MenuOf(id) == K.menus[CHOOSE n \in DOMAIN K.menus : K.menus[n].id = id]
Kids(how, m) == [n \in DOMAIN m.list |-> <<how, m.list[n].id>>]
Root == 0
Members(cs) == {s \in K.syms : K.of[s] \in cs}

\* No program runs.
Idle ==
  /\ prog' = "none" /\ user' = <<>> /\ c' = <<>> /\ sticky' = {} /\ changed' = FALSE /\ edits' = 0
  /\ mode' = "none" /\ todo' = <<>> /\ top' = Root /\ again' = FALSE /\ UNCHANGED runs

Init ==
  /\ kc \in DOMAIN Trees
  /\ K = conf_parse(Trees[kc]) /\ sym_check_deps(K)
  /\ file \in {NoFile} \cup Files
  /\ auto = NoFile /\ touched = {}
  /\ prog = "none" /\ user = <<>> /\ c = <<>> /\ sticky = {} /\ changed = FALSE /\ edits = 0
  /\ mode = "none" /\ todo = <<>> /\ top = Root /\ again = FALSE /\ runs = 0

\* The user's values become u, and all is calculated from them: sym_calc_value
\* returns when every symbol is valid.
Calculate(u) ==
  /\ user' = u
  /\ c' = sym_calc_value(K, user', IF c = <<>> THEN Nothing(K) ELSE c)
  /\ IsCalculation(K, user', c')
  /\ sticky' = sticky \cup Members({x \in K.choices : c'.write[x]})

Fresh == [s \in K.syms |-> Unset(s)]
Starts(p, m) ==
  /\ prog = "none" /\ prog' = p /\ mode' = m
  /\ runs < MaxRuns /\ runs' = runs + 1
  /\ edits' = 0 /\ top' = Root /\ again' = FALSE
  /\ UNCHANGED <<kc, K, file, auto, touched>>

\* conf_read: what is read is calculated, looked through, and calculated again.
ReadFrom(f, always) ==
  LET simple == ReadSimple(K, f)
  IN  \E d \in {CalcAll(K, simple)} :
        /\ IsCalculation(K, simple, d)
        /\ \E read \in {Checked(K, f, simple, d)} :
             /\ Calculate(read.user)
             /\ changed' = (always \/ read.changed)

\* conf_parse, conf_read
ReadConfig ==
  IF file = NoFile THEN Calculate(Fresh) /\ changed' = TRUE ELSE ReadFrom(file, FALSE)
------------------------------------------------------------------------------
\* mconf.  What can be come to: an entry is shown when it and all that it stands
\* in is; a choice shows its members while it is open, and then what stands in
\* the one that is chosen.
CanSee(m) == menu_is_visible(K, c, m)
Within(id) == K.above[id] \cup {id}
Parent(id) == CHOOSE x \in DOMAIN K.above : \E n \in DOMAIN MenuOf(x).list : MenuOf(x).list[n].id = id
IsKept(id) ==
  LET up == MenuOf(Parent(id)).sym
  IN  up \in K.choices => MenuOf(id).sym # NoSym /\ MenuOf(id).sym = c.pick[up]
Reached ==
  {id \in DOMAIN K.above :
     /\ \A x \in Within(id) : CanSee(MenuOf(x))
     /\ \A x \in K.above[id] \ {Root} : IsKept(x)}

StartMconf ==
  /\ Starts("edit", "edit")
  /\ ReadConfig
  /\ todo' = <<>>

\* What may be typed: Enter keeps what is there (conf_string); in the list of a
\* choice a member can only be chosen (conf_choice).
Typed(s) == Numbers \cup {c.cur[s]}
OfChoice == {2}
Answers(s) ==
  CASE s \in IntSyms -> Typed(s)
    [] K.of[s] # NoSym -> OfChoice
    [] OTHER -> {0, 2}

Put1(s, v) ==
  /\ Settable(K, c, s, v)
  /\ LET u == SetUser(K, user, c, s, v)
     IN  IF Recalculates(user, c, s, v) THEN Calculate(u) /\ changed' = TRUE
         ELSE user' = u /\ UNCHANGED <<c, sticky, changed>>

\* The keys y, n, m and space on a symbol or a choice that is shown, a line
\* typed for a number.
Edit ==
  /\ prog = "edit" /\ edits < MaxEdits
  /\ LET shown == Reached
     IN  \E s \in {x \in K.syms : K.entry[x].id \in shown} : \E v \in Answers(s) : Put1(s, v)
  /\ edits' = edits + 1
  /\ UNCHANGED <<kc, K, file, auto, touched, prog, mode, todo, top, again, runs>>

\* conf_read of another name: if there is no such file, nothing counts as changed
\* any more.
Loads(f) ==
  IF f = NoFile THEN changed' = FALSE /\ UNCHANGED <<user, c, sticky>>
  ELSE ReadFrom(f, FALSE)

\* conf_load: the name is that of .config, or of no file.
LoadAgain(there) ==
  /\ prog = "edit" /\ edits < MaxEdits /\ edits' = edits + 1
  /\ there => file # NoFile
  /\ IF there THEN ReadFrom(file, TRUE) ELSE Loads(NoFile)
  /\ UNCHANGED <<kc, K, file, auto, touched, prog, mode, todo, top, again, runs>>

\* main: it asks only when there is something to save.
Leave(save) ==
  /\ prog = "edit"
  /\ save => changed
  /\ prog' = IF save THEN "write" ELSE "left"
  /\ UNCHANGED <<kc, K, file, auto, touched, user, c, sticky, changed, edits, mode, todo, top, again, runs>>

------------------------------------------------------------------------------
\* gconf and qconf (TreeView.tla, ListView.tla)
\* sym_set_tristate_value, sym_set_string_value: refused, nothing changes.
Sets(s, v) == IF Settable(K, c, s, v) THEN Put1(s, v) ELSE UNCHANGED <<user, c, sticky, changed>>
\* sym_toggle_tristate_value: the other value, or else the same
Toggled(s) == IF TriInRange(K, c, s, 2 - c.cur[s]) THEN 2 - c.cur[s] ELSE c.cur[s]

------------------------------------------------------------------------------
\* conf -o, conf
StartConf(m) ==
  /\ Starts("ask", m)
  /\ ReadConfig
  /\ todo' = <<<<IF m = "all" THEN "conf" ELSE "check", Root>>>>

\* Any member of any choice.
Picks == {p \in [K.choices -> K.syms] : \A x \in K.choices : K.of[p[x]] = x}

\* conf -y, conf -n, conf -r: .config is not read.
StartSet(u) ==
  /\ Starts("write", "set")
  /\ Calculate(u) /\ changed' = TRUE
  /\ todo' = <<>>

Then(rest) == todo' = rest \o Tail(todo)
Same == UNCHANGED <<user, c, sticky, changed>>

\* conf_askvalue: is there an answer to be given?
Asks(s) == Changable(c, s) /\ (mode = "all" \/ ~user[s].has)

\* conf_sym, conf_string
AskSymbol(s) == IF Asks(s) THEN \E v \in Answers(s) : Put1(s, v) ELSE Same

\* conf_choice: while the choice is "y" one of the members shown is set, a new
\* one where the user is asked; then what depends on it is gone through.
AskChoice(m) ==
  LET shown == {m.list[n] : n \in {i \in DOMAIN m.list : IsSymbol(m.list[i]) /\ CanSee(m.list[i])}}
      asks == mode = "all" \/ ~user[m.sym].has
  IN  IF c.cur[m.sym] = 0 THEN Same /\ Then(<<>>)
      ELSE \E x \in shown :
             /\ asks \/ Cardinality(shown) = 1 \/ x.sym = c.pick[m.sym]
             /\ Put1(x.sym, 2)
             /\ Then(Kids("conf", x))

\* conf(menu)
Visit ==
  LET m == MenuOf(Head(todo)[2])
      checks == m.kind = "menu" /\ mode = "silent" /\ top # m.id
  IN  /\ Head(todo)[1] = "conf"
      /\ UNCHANGED <<top, again>>
      /\ \/ ~CanSee(m) /\ Same /\ Then(<<>>)
         \/ CanSee(m) /\ checks /\ Same /\ Then(<<<<"check", m.id>>>>)
         \/ CanSee(m) /\ ~checks /\ ~IsSymbol(m) /\ Same /\ Then(Kids("conf", m))
         \/ CanSee(m) /\ ~checks /\ m.sym \in K.choices /\ AskChoice(m)
         \/ CanSee(m) /\ ~checks /\ IsSymbol(m) /\ m.sym \notin K.choices /\ AskSymbol(m.sym) /\ Then(Kids("conf", m))

\* menu_get_parent_menu
ParentMenu(id) ==
  LET ms == {n \in DOMAIN K.menus : K.menus[n].kind = "menu" /\ K.menus[n].id \in Within(id)}
  IN  K.menus[Max(ms)].id

\* Mutant: a choice that is "y" is new again and again.
IsNewChoice(s) == (~user[s].has /\ Changable(c, s)) \/ (s \in K.choices /\ c.cur[s] = 2)
IsNew(s) == ~user[s].has /\ (Changable(c, s) \/ (s \in K.choices /\ c.cur[s] = 2))
\* check_conf(menu): what has no value yet, and could, has its menu asked anew.
Check ==
  LET m == MenuOf(Head(todo)[2])
      new == IsSymbol(m) /\ IsNew(m.sym)
      menu == ParentMenu(m.id)
  IN  /\ Head(todo)[1] = "check"
      /\ Same
      /\ IF ~CanSee(m) THEN Then(<<>>) /\ UNCHANGED <<top, again>>
         ELSE /\ top' = IF new THEN menu ELSE top
              /\ again' = (again \/ new)
              /\ Then((IF new THEN <<<<"conf", menu>>>> ELSE <<>>) \o Kids("check", m))

\* Mutant: one round of check_conf is enough.
NextLoopOnce ==
  /\ todo = <<>> /\ Same /\ again' = FALSE /\ mode' = "silent" /\ UNCHANGED top
  /\ IF mode = "all" THEN todo' = <<<<"check", Root>>>> /\ UNCHANGED prog
     ELSE todo' = <<>> /\ prog' = "write"

\* main: update until a loop caused no more changes
NextLoop ==
  /\ todo = <<>> /\ Same /\ again' = FALSE /\ mode' = "silent" /\ UNCHANGED top
  /\ IF mode = "all" \/ again THEN todo' = <<<<"check", Root>>>> /\ UNCHANGED prog
     ELSE todo' = <<>> /\ prog' = "write"

Ask ==
  /\ prog = "ask"
  /\ \/ /\ todo # <<>> /\ UNCHANGED <<prog, mode>>
        /\ Check \/ Visit
     \/ NextLoop
  /\ UNCHANGED <<kc, K, file, auto, touched, edits, runs>>

------------------------------------------------------------------------------
\* conf_write: to a temporary file, then renamed
Save ==
  /\ prog = "write"
  /\ file' = Lines(K, c, Written)
  /\ prog' = "saved" /\ sticky' = {} /\ changed' = FALSE
  /\ UNCHANGED <<kc, K, auto, touched, user, c, edits, mode, todo, top, again, runs>>

\* conf_save: the same, and mconf goes on.
SaveNow ==
  /\ prog = "edit" /\ edits < MaxEdits /\ edits' = edits + 1
  /\ file' = Lines(K, c, Written) /\ sticky' = {} /\ changed' = FALSE
  /\ UNCHANGED <<kc, K, auto, touched, prog, user, c, mode, todo, top, again, runs>>

\* conf_write_autoconf, with which every program ends, whether or not the user
\* has saved
WriteAuto ==
  /\ WriteHeaders
  /\ Idle
  /\ UNCHANGED <<kc, K, file>>

\* A program is killed; between the two renames there is no .config.
Kill ==
  /\ prog # "none" /\ Idle
  /\ file' \in IF prog = "write" THEN {file, NoFile} ELSE {file}
  /\ UNCHANGED <<kc, K, auto, touched>>

\* The Config.in files are replaced by others.
Upgrade ==
  /\ prog = "none"
  /\ kc' \in Successors[kc]
  /\ K' = conf_parse(Trees[kc']) /\ sym_check_deps(K')
  /\ UNCHANGED <<file, auto, touched, work>>

Next ==
  \/ Upgrade \/ Kill
  \/ StartMconf \/ \E m \in {"all", "silent"} : StartConf(m)
  \/ \E v \in {0, 2} : StartSet(AllNew(K, Fresh, v))
  \/ \E yes \in Rolls, p \in Picks : StartSet(AllRandom(K, Fresh, yes, p))
  \/ Edit \/ SaveNow \/ \E there \in BOOLEAN : LoadAgain(there)
  \/ \E save \in BOOLEAN : Leave(save)
  \/ Ask \/ Save \/ WriteAuto

\* Whoever is asked answers.  Ask is enabled while prog is "ask", so this is
\* WF_vars(Ask); TLC would take hours over the ENABLED in that.
Spec == Init /\ [][Next]_vars /\ ([]<>(prog # "ask") \/ []<><<Ask>>_vars)

------------------------------------------------------------------------------
(***************************************************************************)
(* Properties.                                                             *)
(***************************************************************************)
\* What conf_write has written is the configuration: for the next program it
\* calculates, from what the file says and from what conf_read keeps of that, the
\* values that were saved (IsCalculation holds of one calculation only), with
\* nothing new to ask about, except for a number that was left without one.
SavedIsReread ==
  prog = "saved" =>
    LET simple == ReadSimple(K, file)
        again1 == Checked(K, file, simple, c).user
    IN  /\ IsCalculation(K, simple, c) /\ IsCalculation(K, again1, c)
        /\ \A s \in K.syms : c.vis[s] # 0 /\ c.cur[s] # Empty => again1[s].has

\* When a program thinks that there is nothing to save, .config has all that it
\* would save, and no more than members of choices that cannot be seen any more.
\* It may only lose that by loading another file, or one that is not there
\* (conf_read has said that nothing is changed before it looks).
NothingUnsaved == prog \in {"edit", "tree", "list"} /\ ~changed => HasAll(K, file, Lines(K, c, Written))
NothingLost ==
  [][NothingUnsaved /\ ~NothingUnsaved' =>
       edits' = edits + 1 /\ UNCHANGED <<K, file, prog>> /\ \E f \in Files \cup {NoFile} : Loads(f)]_vars

\* conf and oldconfig come to an end when every question is answered: no round
\* of check_conf leaves the same symbol new for ever.
ConfEnds == prog = "ask" ~> prog # "ask"

\* When they are done, every symbol that can be set has been.
AllAnswered ==
  prog = "write" /\ mode = "silent" =>
    \A s \in K.syms : K.entry[s].id \in Reached => ~IsNew(s)
=============================================================================
