------------------------------ MODULE MCBuild ------------------------------
\* The configuration programs and the windows of lxdialog for TLC.  A window
\* knows nothing of symbols, so a behaviour is one of conf and mconf, of the
\* windows to choose in or of those for text, and the others' stay idle; so do
\* gconf and qconf but in a behaviour of their own, with one run of the program,
\* and so does the reading of Config.in.
EXTENDS TreeView, ListView, Windows, TLC

VARIABLE what    \* which of them a behaviour is of

Configures(A) == what = "conf" /\ A /\ UNCHANGED <<what, boxVars, paperVars, treeVars, listVars, readVars>>
ChoosesIn(A) == what = "choose" /\ A /\ UNCHANGED <<what, vars, paperVars, treeVars, listVars, readVars>>
ReadsOrTypes(A) == what = "text" /\ A /\ UNCHANGED <<what, vars, boxVars, treeVars, listVars, readVars>>
Once == prog = "none" => runs = 0
Grows(A) == what = "tree" /\ Once /\ A /\ UNCHANGED <<what, boxVars, paperVars, listVars, readVars>>
Lines3(A) == what = "list" /\ Once /\ A /\ UNCHANGED <<what, boxVars, paperVars, treeVars, readVars>>
Parses(A) == what = "read" /\ A /\ UNCHANGED <<what, vars, boxVars, paperVars, treeVars, listVars>>

MCInit ==
  /\ what \in {"conf", "choose", "text", "tree", "list", "read"}
  /\ Init /\ Boxes!Init /\ Papers!Init /\ TreeInit /\ ListInit /\ Reader!ReadInit
  /\ kc = 5 <=> what \in {"tree", "list"}
  /\ what # "conf" => kc \in {1, 5} /\ file # NoFile /\ "N" \in DOMAIN file

MCNext ==
  \/ Configures(Next) \/ ChoosesIn(Boxes!Next) \/ ReadsOrTypes(Papers!Next)
  \/ Grows(TreeNext) \/ Lines3(ListNext) \/ Parses(Reader!ReadNext)

\* Whoever is asked by conf goes on answering.
MCSpec ==
  /\ MCInit /\ [][MCNext]_<<what, vars, boxVars, paperVars, treeVars, listVars, readVars>>
  /\ []<>(prog # "ask") \/ []<><<Ask>>_vars

\* K is what is made of the description in force: without it a state is as well told
\* from another.
Told == <<what, kc, file, auto, touched, work, boxVars, paperVars, treeVars, listVars, readVars>>

\* What is on the screen is true.  dialog_menu, dialog_checklist: the line that is
\* highlighted is the one that Enter chooses (MenuBox.tla); dialog_textbox,
\* dialog_inputbox: the window shows the text and the value (TextBox.tla); gconf,
\* qconf: the panes and lists show after any changes what they would show if they
\* were filled anew (TreeView.tla, ListView.tla).
ScreensAreTrue ==
  /\ Boxes!HighlightIsChosen /\ Papers!ShowsWhatIsThere
  /\ what = "tree" => PaneIsRight
  /\ what = "list" => ListsAreRight

------------------------------------------------------------------------------
(* Small Config.in files.                                                     *)

Config(s, up, dep) == [Plain("config", up) EXCEPT !.sym = s, !.dep = dep]
Choice(s, up, dep) == [Plain("choice", up) EXCEPT !.sym = s, !.dep = dep]
Hidden(e) == [e EXCEPT !.prompt = FALSE]
Default(e, val, cond) == [e EXCEPT !.defs = Append(@, [val |-> val, vis |-> cond])]
Selects(e, s, cond) == [e EXCEPT !.sels = Append(@, [val |-> s, vis |-> cond])]
Ranged(e, lo, hi, cond) == [e EXCEPT !.range = Append(@, [lo |-> lo, hi |-> hi, vis |-> cond])]

A == Sym("A")
B == Sym("B")

\* A package with an option that selects a library, a choice and a number.
Version1 == <<
  Default(Config("A", 0, Null), Yes, Null),
  Selects(Config("B", 0, A), "D", Null),
  Config("D", 0, Null),
  Config("E", 0, Sym("X2")),
  Choice("C", 0, A),
  Config("X1", 5, Null),
  Config("X2", 5, B),
  Default(Ranged(Config("N", 0, Sym("X2")), 1, 6, Null), 4, Null)>>

\* The next one: a member more, a new option in a menu, and D in an "if".
Version2 == <<
  Default(Config("A", 0, Null), Yes, Null),
  [Plain("if", 0) EXCEPT !.dep = A],
  Selects(Config("B", 2, Null), "D", Null),
  Hidden(Default(Config("D", 2, Null), Yes, B)),
  Default(Choice("C", 0, Null), Sym("X2"), B),
  Config("X1", 5, Null),
  Config("X2", 5, B),
  Config("X3", 5, Null),
  [Plain("menu", 0) EXCEPT !.dep = Sym("X3")],
  Config("E", 9, Not(B))>>

\* Conditions of every form, for the simplifications of expr.c: what is said
\* twice, what contradicts itself, what "not" moves into, comparisons.
T == Sym("T")
Conditions == <<
  Not(Two("and", A, Not(B))), Not(Two("or", Not(A), Two("and", A, B))),
  Two("and", Two("or", A, B), Two("or", A, Not(B))), Two("or", Two("and", A, B), Two("and", Not(A), B)),
  Two("or", Two("and", A, B), A), Two("and", Two("or", A, B), Not(A)),
  Two("or", Two("and", A, B), Not(Two("and", A, B))), Two("and", Two("or", A, B), Not(Two("or", B, A))),
  Two("or", Two("or", A, B), Two("or", B, A)), Two("and", Two("and", A, Not(B)), Two("and", B, A)),
  Two("or", Eq("A", "n"), Ne("B", "y")), Two("and", Eq("A", "y"), Not(Eq("A", "B"))),
  Two("and", T, Ne("T", "n")), Two("and", T, Eq("T", "y")), Two("and", Ne("T", "n"), Ne("T", "m")),
  Two("or", Eq("T", "y"), Eq("T", "n")), Two("and", Eq("T", "y"), Ne("T", "n")), Not(Ne("T", "n")),
  Two("or", T, Not(T)), Two("or", Mod, A), Two("and", Mod, A), Not(Mod),
  Two("and", Yes, Two("or", No, B))>>
Version3 == <<
  Config("A", 0, Null), Config("B", 0, A), Config("T", 0, Two("or", B, Not(A))),
  [Plain("menu", 0) EXCEPT !.dep = Two("or", A, T), !.vis = Not(B)],
  [Plain("if", 0) EXCEPT !.dep = Not(Two("and", A, B))]>>
  \o [n \in DOMAIN Conditions |-> [Plain("comment", CASE n % 5 = 0 -> 4 [] n % 5 = 1 -> 5 [] OTHER -> 0) EXCEPT !.dep = Conditions[n]]]

\* A value that depends on itself: conf_parse refuses it.
Circular == <<
  Config("A", 0, Sym("X1")), Choice("C", 0, B), Config("X1", 2, Null), Config("X2", 2, Null),
  Selects(Config("E", 0, A), "B", Null), Config("B", 0, Null)>>

\* Menus in menus, whose entries and the options' values come and go.
Comment(up, dep) == [Plain("comment", up) EXCEPT !.dep = dep]
Panes == <<
  Default(Config("A", 0, Null), Yes, Null),
  Comment(0, A),
  Plain("menu", 0),
  [Plain("menu", 3) EXCEPT !.dep = Not(A)], Comment(4, Null),
  Config("D", 3, Null),
  Choice("C", 3, Null), Config("X1", 7, Null), Config("X2", 7, A),
  Default(Ranged(Config("N", 3, Sym("X2")), 1, 6, Null), 4, Null),
  Comment(3, Sym("D")), Comment(3, Not(Sym("D")))>>

MCTrees == <<Version1, Version2, Version3, Circular, Panes>>
MCSuccessors == [n \in DOMAIN MCTrees |-> IF n = 1 THEN {2} ELSE {}]
MCFiles == {"A" :> 2 @@ "B" :> 2 @@ "X2" :> 2 @@ "N" :> 9, "A" :> 2 @@ "B" :> 2}
MCRolls == {{"A", "X1"}, {"A", "B", "E"}}
MCNumbers == {3, 8}
MCResults == {<<>>, <<"A", "X2">>, <<"N", "D", "X1">>}

------------------------------------------------------------------------------
(* Menus, texts and values: shorter than the window, as long, and longer.     *)
MCItems == {[n \in 1..k |-> n] : k \in {1, 2, 4, 6}} \cup {<<2, 4, 6>>}
MCLetter == [n \in 1..6 |-> IF n \in {2, 5} THEN "a" ELSE "b"]
MCTexts == {[lines |-> k, ended |-> b] : k \in {1, 3, 5, 8, 13}, b \in BOOLEAN}
MCInits == {<<>>, <<"a">>, <<"a", "b", "a">>, <<"b", "a", "b", "b">>}
=============================================================================
