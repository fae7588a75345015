------------------------------- MODULE Symbol -------------------------------
(***************************************************************************)
(* The values of the symbols (symbol.c), for a parsed description k and     *)
(* what the user has set.  Modules are off, so a tristate is a boolean and  *)
(* "m" counts as "y"; an integer stands for strings and hex numbers too.    *)
(*   user[s]: has (SYMBOL_DEF_USER), val and, for a choice, pick, its       *)
(*            def[S_DEF_USER]; val and pick outlive has                     *)
(*   a calculation (what sym_calc_value leaves): vis, rev, cur, pick, write *)
(* Whatever goes through trees is a parameter named for the function, and   *)
(* is given its value where the trees are (Expr.tla, Kconfig.tla).          *)
(***************************************************************************)
EXTENDS Types, Sequences

CONSTANTS
  expr_calc_value(_, _),        \* of a condition, with a value for every symbol
  sym_calc_value(_, _, _),      \* the calculation for the user's values, after an earlier one
  menu_is_visible(_, _, _)      \* of an entry, with a calculation

Num(x) == IF x = Empty THEN 0 ELSE x
Bool(t) == IF t = 1 THEN 2 ELSE t
Unset(s) == [has |-> FALSE, val |-> IF s \in IntSyms THEN Empty ELSE 0, pick |-> NoSym]

\* What an expression sees of a calculation.
Constants == [y |-> 2, m |-> 1, n |-> 0, MODULES |-> 0]
Env(k, cur) ==
  [s \in k.syms \cup DOMAIN Constants |->
     IF s \in DOMAIN Constants THEN Constants[s] ELSE IF s \in IntSyms THEN 0 ELSE cur[s]]

\* sym_get_default_prop, sym_get_range_prop: the first that applies, or 0
FirstProp(ps, env) ==
  LET on == {n \in DOMAIN ps : expr_calc_value(ps[n].vis, env) # 0}
  IN  IF on = {} THEN 0 ELSE Min(on)

\* sym_validate_range: below the range the lower bound, above it the upper.
Clamp(e, env, x) ==
  LET n == FirstProp(e.range, env)
  IN  IF n # 0 /\ Num(x) < e.range[n].lo THEN e.range[n].lo
      ELSE IF n # 0 /\ Num(x) > e.range[n].hi THEN e.range[n].hi
      ELSE x

\* sym_calc_visibility
Visible(e, env) == IF e.prompt THEN Bool(expr_calc_value(e.vis, env)) ELSE 0
Selected(k, env, s) ==
  IF k.of[s] = NoSym /\ \E x \in k.rev[s] : expr_calc_value(x, env) # 0 THEN 2 ELSE 0

\* sym_calc_choice: the user's, the first default or the first member that is
\* visible, while the choice is "y".
Picked(k, user, env, ch) ==
  LET yes == [env EXCEPT ![ch] = 2]
      Shown(s) == Visible(k.entry[s], yes) # 0
      e == k.entry[ch]
      defs == {n \in DOMAIN e.defs : expr_calc_value(e.defs[n].vis, yes) # 0 /\ Shown(e.defs[n].val[2])}
      shown == {n \in DOMAIN k.members[ch] : Shown(k.members[ch][n])}
  IN  IF user[ch].pick # NoSym /\ Shown(user[ch].pick) THEN user[ch].pick
      ELSE IF defs # {} THEN e.defs[Min(defs)].val[2]
      ELSE IF shown # {} THEN k.members[ch][Min(shown)]
      ELSE NoSym

\* sym_calc_value of one symbol with the entry e, in four parts: what is found of
\* its prompt, selects and defaults (x), the value of a tristate and of a number
\* by what the user has set (u), and the rest.
Found(k, env, s) ==
  [vis |-> Visible(k.entry[s], env), rev |-> Selected(k, env, s),
   n |-> IF s \in k.choices THEN 0 ELSE FirstProp(k.entry[s].defs, env)]
Mine(u, x) == x.vis # 0 /\ u.has
Tri(e, u, env, x) ==
  Bool(Most(x.rev, IF Mine(u, x) THEN Least(u.val, x.vis)
                   ELSE IF x.n # 0 THEN Least(expr_calc_value(e.defs[x.n].val, env), expr_calc_value(e.defs[x.n].vis, env))
                   ELSE 0))
Number(e, u, env, x) ==
  Clamp(e, env, IF Mine(u, x) THEN u.val ELSE IF x.n # 0 THEN e.defs[x.n].val ELSE Empty)

\* The others' values are those of r, which env shows; tri is its own.
ValueOf(k, user, r, env, s, x, tri, pick) ==
  LET member == k.of[s] # NoSym
  IN  [vis |-> x.vis, rev |-> x.rev, pick |-> pick,
       cur |-> IF s \in IntSyms THEN Number(k.entry[s], user[s], env, x)
               ELSE IF member /\ x.vis = 2 THEN (IF r[k.of[s]].pick = s THEN 2 ELSE 0)
               ELSE IF s \in k.choices /\ pick = NoSym THEN 0
               ELSE tri,
       write |-> \/ x.vis # 0 /\ ~member
                 \/ x.rev # 0
                 \/ x.n # 0 /\ ~Mine(user[s], x) /\ ~(member /\ x.vis = 2)
                 \/ member /\ r[k.of[s]].write]
PickOf(k, user, env, s, tri) == IF s \in k.choices /\ tri = 2 THEN Picked(k, user, env, s) ELSE NoSym
WithTri(k, user, r, env, s, x, tri) == ValueOf(k, user, r, env, s, x, tri, PickOf(k, user, env, s, tri))
WithFound(k, user, r, env, s, x) == WithTri(k, user, r, env, s, x, Tri(k.entry[s], user[s], env, x))
CalcValue(k, user, r, env, s) == WithFound(k, user, r, env, s, Found(k, env, s))

\* All symbols, each with the values that the others come to have: every one is
\* calculated after those it reads, and is valid then (SYMBOL_VALID).
BySymbol(k, d) ==
  [s \in k.syms |-> [vis |-> d.vis[s], rev |-> d.rev[s], pick |-> d.pick[s], cur |-> d.cur[s], write |-> d.write[s]]]
ByField(k, r) ==
  [vis |-> [s \in k.syms |-> r[s].vis], rev |-> [s \in k.syms |-> r[s].rev],
   cur |-> [s \in k.syms |-> r[s].cur], pick |-> [s \in k.syms |-> r[s].pick],
   write |-> [s \in k.syms |-> r[s].write]]
Round(k, user, r, env) == [s \in k.syms |-> CalcValue(k, user, r, env, s)]
IsCalculation(k, user, d) ==
  /\ d = ByField(k, BySymbol(k, d))
  /\ \A s \in k.syms \ IntSyms : d.cur[s] \in {0, 2}
  /\ Round(k, user, BySymbol(k, d), Env(k, d.cur)) = BySymbol(k, d)

Nothing(k) ==
  LET All(x) == [s \in k.syms |-> x]
  IN  [vis |-> All(0), rev |-> All(0), cur |-> All(0), pick |-> All(NoSym), write |-> All(FALSE)]
CalcAll(k, user) == sym_calc_value(k, user, Nothing(k))

------------------------------------------------------------------------------
\* sym_tristate_within_range, sym_string_within_range, sym_is_changable
TriInRange(k, d, s, v) ==
  /\ d.vis[s] # 0 /\ d.vis[s] > d.rev[s]
  /\ v \in {0, 2}
  /\ IF k.of[s] # NoSym THEN v = 2 ELSE v >= d.rev[s]
IntInRange(k, d, s, v) == v # Empty /\ Clamp(k.entry[s], Env(k, d.cur), v) = v
Changable(d, s) == d.vis[s] > d.rev[s]

\* sym_set_tristate_value, sym_set_string_value: may it be set, what is then
\* the user's, and does that call for a new calculation?  A choice's member
\* also sets the choice, and ends the newness of all members to be seen.
Settable(k, d, s, v) ==
  IF s \in IntSyms THEN IntInRange(k, d, s, v) ELSE d.cur[s] = v \/ TriInRange(k, d, s, v)
SetUser(k, user, d, s, v) ==
  LET chosen == s \notin IntSyms /\ v = 2 /\ k.of[s] # NoSym
  IN  [x \in k.syms |->
         IF x = s THEN [user[x] EXCEPT !.has = TRUE, !.val = v]
         ELSE IF chosen /\ x = k.of[s] THEN [user[x] EXCEPT !.has = TRUE, !.pick = s]
         ELSE IF chosen /\ k.of[x] = k.of[s] THEN [user[x] EXCEPT !.has = @ \/ d.vis[x] # 0]
         ELSE user[x]]
Recalculates(user, d, s, v) ==
  IF s \in IntSyms THEN user[s].val # v ELSE d.cur[s] # v

------------------------------------------------------------------------------
(***************************************************************************)
(* What a description has that conf_parse accepts without a warning.  The   *)
(* values that a condition sees are "n" or "y", whatever it is about.       *)
(***************************************************************************)
Values(k) == [k.syms -> {0, 2}]
ConditionsOf(k, s) ==
  LET e == k.entry[s]
  IN  {e.vis} \cup k.rev[s] \cup {e.defs[n].vis : n \in DOMAIN e.defs} \cup {e.range[n].vis : n \in DOMAIN e.range}
      \cup IF s \in IntSyms \cup k.choices THEN {} ELSE {e.defs[n].val : n \in DOMAIN e.defs}

\* Its symbols are of one type each; a number's defaults are numbers, and a range
\* of numbers is not empty.
WellTyped(k) ==
  /\ k.choices \subseteq k.syms \ IntSyms
  /\ NoSym \notin k.syms /\ k.syms \cap DOMAIN Constants = {}
  /\ \A s \in k.syms :
       LET e == k.entry[s] IN
       /\ DOMAIN e.defs \subseteq Nat \ {0} /\ DOMAIN e.range \subseteq Nat \ {0}
       /\ s \in IntSyms =>
            /\ \A n \in DOMAIN e.defs : e.defs[n].val \in Nat \cup {Empty}
            /\ \A i \in DOMAIN e.range :
                 e.range[i].lo \in Nat /\ e.range[i].hi \in Nat /\ e.range[i].lo <= e.range[i].hi
       /\ \A x \in ConditionsOf(k, s), f \in Values(k) : expr_calc_value(x, Env(k, f)) \in 0..2

\* A member of a choice is in its list once, has no defaults, and cannot be seen
\* while the choice is "n", which it is not where it can be seen; the defaults of
\* a choice are members.
Choosing(k) ==
  /\ k.of \in [k.syms -> k.choices \cup {NoSym}]
  /\ \A ch \in k.choices :
       /\ k.of[ch] = NoSym
       /\ Len(k.members[ch]) \in Nat /\ DOMAIN k.members[ch] = 1..Len(k.members[ch])
       /\ \A n \in DOMAIN k.members[ch] : k.members[ch][n] \in k.syms /\ k.of[k.members[ch][n]] = ch
       /\ \A s \in k.syms : k.of[s] = ch => \E n \in DOMAIN k.members[ch] : k.members[ch][n] = s
       /\ \A i, n \in DOMAIN k.members[ch] : k.members[ch][i] = k.members[ch][n] => i = n
       /\ \A n \in DOMAIN k.entry[ch].defs :
            k.entry[ch].defs[n].val[2] \in k.syms /\ k.of[k.entry[ch].defs[n].val[2]] = ch
       /\ \A f \in Values(k) : Visible(k.entry[ch], Env(k, f)) # 0 => Selected(k, Env(k, f), ch) # 0
  /\ \A s \in k.syms :
       k.of[s] # NoSym =>
         /\ s \notin IntSyms /\ DOMAIN k.entry[s].defs = {}
         /\ \A f \in Values(k) : Visible(k.entry[s], Env(k, f)) # 0 => f[k.of[s]] # 0

\* sym_check_deps: a condition is of nothing but the symbols it reads, and no
\* value depends on itself.
Masked(k, s, f) == [x \in k.syms |-> IF x \in k.reads[s] THEN f[x] ELSE 0]
Acyclic(k) ==
  /\ \A s \in k.syms : \A x \in ConditionsOf(k, s), f \in Values(k) :
       expr_calc_value(x, Env(k, f)) = expr_calc_value(x, Env(k, Masked(k, s, f)))
  /\ \A T \in SUBSET k.syms : T # {} => \E t \in T : From(k, Stands(k, t)) \cap T = {}
=============================================================================
