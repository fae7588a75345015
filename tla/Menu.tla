-------------------------------- MODULE Menu --------------------------------
(***************************************************************************)
(* What menu_finalize (menu.c) makes of the entries of the Config.in files: *)
(* every condition is combined with those of the enclosing entries and      *)
(* simplified, entries that depend on the one before them become its        *)
(* submenu, and an "if" gives its entries to the menu it stands in.         *)
(*                                                                         *)
(* A description is a sequence of entries in the order of the files; up is  *)
(* the index of the enclosing entry, 0 at the top.                          *)
(***************************************************************************)
EXTENDS Expr, FiniteSets

\* An entry with nothing but a kind ("config", "choice", "menu", "comment",
\* "if") and a place.  Only an "if" has no prompt of its own, and a symbol
\* that the user is not asked for.
Plain(kind, up) ==
  [kind |-> kind, up |-> up, sym |-> NoSym, prompt |-> kind # "if",
   vis |-> Null, dep |-> Null, defs |-> <<>>, sels |-> <<>>, range |-> <<>>]

\* menu_check_dep: "m" is "m && MODULES"
RECURSIVE CheckDep(_)
CheckDep(e) ==
  CASE e[1] \in Joins -> Two(e[1], CheckDep(e[2]), CheckDep(e[3]))
    [] e[1] = "not" -> Not(CheckDep(e[2]))
    [] e = Mod -> And(Mod, Sym("MODULES"))
    [] OTHER -> e

\* menu_add_entry, menu_add_menu, menu_end_menu: the tree of the entries
RECURSIVE Tree(_, _)
ListOf(raw, up) ==
  LET kids == {i \in DOMAIN raw : raw[i].up = up}
      Nth(n) == CHOOSE i \in kids : Cardinality({j \in kids : j < i}) = n - 1
  IN  [n \in 1..Cardinality(kids) |-> Tree(raw, Nth(n))]
Tree(raw, i) ==
  LET e == raw[i]
      Checked(ps) == [n \in DOMAIN ps |-> [ps[n] EXCEPT !.vis = CheckDep(@)]]
  IN  [kind |-> e.kind, sym |-> e.sym, prompt |-> e.prompt,
       vis |-> CheckDep(e.vis), dep |-> CheckDep(e.dep),
       defs |-> Checked(e.defs), sels |-> Checked(e.sels), range |-> Checked(e.range),
       id |-> i, list |-> ListOf(raw, i)]

------------------------------------------------------------------------------
\* The first loop of menu_finalize: what an entry and its properties depend on.
ParentDep(p) ==
  CASE p.kind = "choice" -> Sym(p.sym)
    [] p.kind # "choice" /\ p.prompt -> p.vis
    [] OTHER -> p.dep

ForType(m, e) == IF IsSymbol(m) /\ m.sym \notin TriSyms THEN TransBool(e) ELSE e
WithBase(m, base) ==
  LET Cond(e) == ForType(m, EliminateDups(And(base, Transform(e))))
      Conds(ps) == [n \in DOMAIN ps |-> [ps[n] EXCEPT !.vis = Cond(@)]]
  IN  [m EXCEPT !.dep = base, !.vis = IF m.prompt THEN Cond(@) ELSE Null,
                !.defs = Conds(@), !.sels = Conds(@), !.range = Conds(@)]
Based(m, parentdep) == WithBase(m, EliminateDups(And(parentdep, Transform(m.dep))))

\* Does the entry m, which follows the symbol h, belong under it?  Where it
\* is not the value of h that m cannot do without, m must imply what h itself
\* depends on.
Implied(e) == EliminateDups(Transform(TransCompare(e, "ne", "n")))
Needs(m) == IF m.prompt THEN m.vis ELSE m.dep
\* Mutant: whatever mentions h goes under it.
FollowsMention(h, m) == ContainsSymbol(Needs(m), h.sym)
Follows(h, m) ==
  /\ ContainsSymbol(Needs(m), h.sym)
  /\ \/ DependsSymbol(Needs(m), h.sym)
     \/ IsYes(EliminateEq(Implied(Needs(m)), Implied(h.vis))[2])

\* The last loop: an entry without a prompt gives its list to its parent.
RECURSIVE Lifted(_)
Lifted(ms) ==
  IF ms = <<>> THEN <<>> ELSE
  LET h == Head(ms)
  IN  (IF ~h.prompt THEN <<[h EXCEPT !.list = <<>>]>> \o Lifted(h.list) ELSE <<h>>) \o Lifted(Tail(ms))

\* menu_finalize of the first entry of a list, and what is left of the list:
\* [menu, rest].  An entry that encloses none takes those that follow it.
RECURSIVE Finalize(_), FinalizeAll(_), Take(_, _)
Finalize(ms) ==
  LET m == Head(ms)
      own == [n \in DOMAIN m.list |-> Based(m.list[n], ParentDep(m))]
      Taking(taken) == [menu |-> [m EXCEPT !.list = Lifted(taken.menus)], rest |-> taken.rest]
  IN  CASE m.list # <<>> -> [menu |-> [m EXCEPT !.list = Lifted(FinalizeAll(own))], rest |-> Tail(ms)]
        [] m.list = <<>> /\ IsSymbol(m) -> Taking(Take(m, Tail(ms)))
        [] OTHER -> [menu |-> m, rest |-> Tail(ms)]
FinalizeAll(ms) ==
  IF ms = <<>> THEN <<>> ELSE LET f == Finalize(ms) IN <<f.menu>> \o FinalizeAll(f.rest)
Take(h, ms) ==
  IF ms = <<>> \/ ~Follows(h, Head(ms)) THEN [menus |-> <<>>, rest |-> ms] ELSE
  LET f == Finalize(ms) t == Take(h, f.rest)
  IN  [menus |-> <<f.menu>> \o t.menus, rest |-> t.rest]

\* All menus of a tree, in the order they are shown.
RECURSIVE AllMenus(_), AllOf(_)
AllOf(ms) == IF ms = <<>> THEN <<>> ELSE AllMenus(Head(ms)) \o AllOf(Tail(ms))
AllMenus(m) == <<m>> \o AllOf(m.list)

\* fixup_rootmenu (gconf and qconf): the menus, as far as nothing but menus is
\* around them, and all that is outside of menus
RECURSIVE MenuRoots(_, _)
MenuRoots(m, inMenu) ==
  {m.id} \cup UNION {MenuRoots(x, inMenu \/ x.kind = "menu") :
                       x \in {y \in {m.list[n] : n \in DOMAIN m.list} : y.kind = "menu" \/ ~inMenu}}

\* menu->parent, and so on to the root
RECURSIVE StandsIn(_, _)
StandsIn(m, id) == \E n \in DOMAIN m.list : m.list[n].id = id \/ StandsIn(m.list[n], id)

\* sym_check_deps: what the value of a symbol, with the entry e and selected by
\* rev, is calculated from; the default of a choice is a member of it.
RECURSIVE Named(_)
Named(e) ==
  CASE e[1] = "null" -> {}
    [] e[1] = "sym" -> {e[2]}
    [] e[1] = "not" -> Named(e[2])
    [] e[1] \in Joins -> Named(e[2]) \cup Named(e[3])
    [] OTHER -> {e[2], e[3]}
Reads(e, rev) ==
  LET Props(ps) == UNION {Named(ps[n].vis) : n \in DOMAIN ps}
  IN  UNION {Named(x) : x \in rev} \cup Named(e.vis) \cup Props(e.defs) \cup Props(e.range)
      \cup (IF e.kind = "choice" \/ e.sym \in IntSyms THEN {} ELSE UNION {Named(e.defs[n].val) : n \in DOMAIN e.defs})

\* conf_parse: the menus, what each of them stands in, the members of every
\* choice in their order, and for
\* every symbol the entry that defines it and what selects it (rev_dep); a
\* choice is never "n" where it can be seen.
Described(menus) ==
  LET symbols == {n \in DOMAIN menus : IsSymbol(menus[n])}
      syms == {menus[n].sym : n \in symbols}
      Entry(s) == menus[CHOOSE n \in symbols : menus[n].sym = s]
      entry == [s \in syms |-> Entry(s)]
      choices == {s \in syms : entry[s].kind = "choice"}
      members == [c \in choices |->
                    LET ms == SelectSeq(entry[c].list, IsSymbol) IN [n \in DOMAIN ms |-> ms[n].sym]]
      InOf(s, c) == \E n \in DOMAIN members[c] : members[c][n] = s
      selected == [s \in syms |->
        {And(Sym(t), entry[t].sels[n].vis) : <<t, n>> \in
            {p \in syms \X (1..3) : p[2] \in DOMAIN entry[p[1]].sels /\ entry[p[1]].sels[p[2]].val = s}}]
      rev == [s \in syms |-> selected[s] \cup
                (IF s \in choices /\ entry[s].prompt THEN {And(entry[s].vis, Mod)} ELSE {})]
  IN  [menus |-> menus, roots |-> MenuRoots(menus[1], FALSE), syms |-> syms, entry |-> entry, choices |-> choices, members |-> members,
       of |-> [s \in syms |-> IF \E c \in choices : InOf(s, c)
                              THEN CHOOSE c \in choices : InOf(s, c) ELSE NoSym],
       rev |-> rev, reads |-> [s \in syms |-> Reads(entry[s], rev[s])],
       above |-> [id \in {menus[n].id : n \in DOMAIN menus} |->
                    {menus[n].id : n \in {i \in DOMAIN menus : StandsIn(menus[i], id)}}]]
Parse(raw) ==
  LET root == [Tree(<<Plain("menu", 0)>>, 1) EXCEPT !.id = 0, !.list = ListOf(raw, 0)]
  IN  Described(AllMenus(Finalize(<<root>>).menu))

------------------------------------------------------------------------------
\* sym_check_deps: conf_parse refuses a description in which the value of a
\* symbol depends on itself; the members of a choice count as the choice.
CheckDeps(k) ==
  LET Further(S) == {Stands(k, t) : t \in k.syms \cap UNION {From(k, s) : s \in S}}
      RECURSIVE Closure(_)
      Closure(S) == IF Further(S) \subseteq S THEN S ELSE Closure(S \cup Further(S))
  IN  \A s \in k.syms : Stands(k, s) = s => s \notin Closure(Further({s}))
=============================================================================
