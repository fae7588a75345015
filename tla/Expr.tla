-------------------------------- MODULE Expr --------------------------------
(***************************************************************************)
(* The expressions of package/config (expr.c): their values, and the       *)
(* rewriting that menu_finalize applies to every dependency before any is  *)
(* evaluated.  The program rewrites in place, and often two places of one  *)
(* tree at once: Dups1 and Dups2 have the tree and two paths into it.      *)
(***************************************************************************)
EXTENDS Types, Sequences

Null == <<"null">>
Sym(s) == <<"sym", s>>
Not(e) == <<"not", e>>
Eq(s, t) == <<"eq", s, t>>
Ne(s, t) == <<"ne", s, t>>
Two(op, a, b) == <<op, a, b>>
Yes == Sym("y")
No == Sym("n")
Mod == Sym("m")

Joins == {"and", "or"}
Unit(op) == IF op = "and" THEN Yes ELSE No      \* changes nothing
Zero(op) == IF op = "and" THEN No ELSE Yes      \* decides alone
Dual(op) == IF op = "and" THEN "or" ELSE "and"

\* expr_alloc_and: NULL is no condition at all.
And(a, b) == CASE a = Null -> b [] a # Null /\ b = Null -> a [] OTHER -> Two("and", a, b)

\* expr_is_yes
IsYes(e) == e = Null \/ e = Yes

\* expr_calc_value, with a value for every symbol
RECURSIVE Val(_, _)
Val(e, v) ==
  CASE e[1] = "null" -> 2
    [] e[1] = "sym" -> v[e[2]]
    [] e[1] = "not" -> 2 - Val(e[2], v)
    [] e[1] = "eq" -> IF v[e[2]] = v[e[3]] THEN 2 ELSE 0
    [] e[1] = "ne" -> IF v[e[2]] = v[e[3]] THEN 0 ELSE 2
    [] e[1] = "and" -> Least(Val(e[2], v), Val(e[3], v))
    [] e[1] = "or" -> Most(Val(e[2], v), Val(e[3], v))

------------------------------------------------------------------------------
\* expr_eliminate_yn
RECURSIVE Yn(_)
Yn(e) ==
  IF e[1] \notin Joins THEN e ELSE
  LET l == Yn(e[2]) r == Yn(e[3]) IN
  CASE l = Unit(e[1]) -> r
    [] l = Zero(e[1]) -> Zero(e[1])
    [] l \notin {Yes, No} /\ r = Unit(e[1]) -> l
    [] l \notin {Yes, No} /\ r = Zero(e[1]) -> Zero(e[1])
    [] OTHER -> Two(e[1], l, r)

\* __expr_eliminate_eq, expr_eliminate_eq, expr_eq: what two joins have in
\* common is taken from both; they are equal when nothing else is left.
RECURSIVE Strike(_, _, _), ExprEq(_, _)
Strike(op, a, b) ==
  CASE a[1] = op ->
         LET l == Strike(op, a[2], b) r == Strike(op, a[3], l[2])
         IN  <<Two(op, l[1], r[1]), r[2]>>
    [] a[1] # op /\ b[1] = op ->
         LET l == Strike(op, a, b[2]) r == Strike(op, l[1], b[3])
         IN  <<r[1], Two(op, l[2], r[2])>>
    [] OTHER -> IF (a = b /\ a \in {Yes, No}) \/ ~ExprEq(a, b) THEN <<a, b>> ELSE <<Unit(op), Unit(op)>>

YnBoth(p) == <<Yn(p[1]), Yn(p[2])>>
StrikeOther(p) ==
  IF p[1][1] # p[2][1] /\ p[2][1] \in Joins THEN Strike(p[2][1], p[1], p[2]) ELSE p
EliminateEq(a, b) ==
  IF Null \in {a, b} THEN <<a, b>>
  ELSE YnBoth(StrikeOther(IF a[1] \in Joins THEN Strike(a[1], a, b) ELSE <<a, b>>))

NothingLeft(p) == p[1] = p[2] /\ p[1][1] = "sym"
ExprEq(a, b) ==
  /\ a[1] = b[1]
  /\ CASE a[1] \in Joins -> NothingLeft(EliminateEq(a, b))
       [] a[1] = "not" -> ExprEq(a[2], b[2])
       [] OTHER -> a = b

\* expr_trans_bool
RECURSIVE TransBool(_)
TransBool(e) ==
  CASE e[1] \in Joins -> Two(e[1], TransBool(e[2]), TransBool(e[3]))
    [] e[1] = "not" -> Not(TransBool(e[2]))
    [] e[1] = "ne" /\ e[2] \in TriSyms /\ e[3] = "n" -> Sym(e[2])
    [] OTHER -> e

\* expr_transform: comparisons of booleans, and "not", which moves inwards.
RECURSIVE Transform(_)
OfBool(e) ==
  LET same == e[1] = "eq" IN
  CASE e[2] \notin BoolSyms \/ e[3] \notin {"n", "m", "y"} -> e
    [] e[2] \in BoolSyms /\ e[3] = "m" -> IF same THEN No ELSE Yes
    [] e[2] \in BoolSyms /\ e[3] = "n" -> IF same THEN Not(Sym(e[2])) ELSE Sym(e[2])
    [] OTHER -> IF same THEN Sym(e[2]) ELSE Not(Sym(e[2]))

\* Mutant: "not" moves inwards and leaves the join as it is.
OfNotSameJoin(e) ==
  LET f == e[2] IN
  CASE f[1] = "not" -> Transform(f[2])
    [] f[1] = "eq" -> Ne(f[2], f[3])
    [] f[1] = "ne" -> Eq(f[2], f[3])
    [] f[1] \in Joins -> Transform(Two(f[1], Not(f[2]), Not(f[3])))
    [] f[1] = "sym" -> CASE f = Yes -> No [] f = No -> Yes [] f = Mod -> Mod [] OTHER -> e

OfNot(e) ==
  LET f == e[2] IN
  CASE f[1] = "not" -> Transform(f[2])
    [] f[1] = "eq" -> Ne(f[2], f[3])
    [] f[1] = "ne" -> Eq(f[2], f[3])
    [] f[1] \in Joins -> Transform(Two(Dual(f[1]), Not(f[2]), Not(f[3])))
    [] f[1] = "sym" -> CASE f = Yes -> No [] f = No -> Yes [] f = Mod -> Mod [] OTHER -> e

Transform(e) ==
  CASE e[1] \in Joins -> Two(e[1], Transform(e[2]), Transform(e[3]))
    [] e[1] = "not" -> OfNot(Not(Transform(e[2])))
    [] e[1] \in {"eq", "ne"} -> OfBool(e)
    [] OTHER -> e

------------------------------------------------------------------------------
(***************************************************************************)
(* Two terms of one join that say something together.                      *)
(***************************************************************************)
Consts == {"n", "m", "y"}
Subject(e) == IF e[1] = "not" THEN e[2][2] ELSE e[2]

\* Both are about one symbol, of a type that has three values or two; a
\* second "not" is only understood of a symbol.
SameSubject(a, b) ==
  /\ {a[1], b[1]} \subseteq {"eq", "ne", "sym", "not"}
  /\ a[1] = "not" => a[2][1] \in {"eq", "ne", "sym"}
  /\ b[1] = "not" => b[2][1] = "sym"
  /\ Subject(a) = Subject(b)
  /\ Subject(a) \in BoolSyms \cup TriSyms

\* expr_join_or; Null when there is nothing to gain
JoinOr(a, b) ==
  IF ExprEq(a, b) THEN a ELSE
  IF ~SameSubject(a, b) THEN Null ELSE
  LET s == Subject(a) IN
  CASE s \notin BoolSyms /\ a[1] = "eq" /\ b[1] = "eq" /\ {a[3], b[3]} \subseteq Consts ->
         Ne(s, CHOOSE c \in Consts : c \notin {a[3], b[3]})
    [] s \in BoolSyms /\ {a, b} = {Sym(s), Not(Sym(s))} -> Yes
    [] OTHER -> Null

\* expr_join_and
JoinAnd(a, b) ==
  IF ExprEq(a, b) THEN a ELSE
  IF ~SameSubject(a, b) THEN Null ELSE
  LET s == Subject(a) IN
  CASE {a, b} = {Sym(s), Eq(s, "y")} -> Eq(s, "y")
    [] {a, b} = {Sym(s), Ne(s, "n")} -> Sym(s)
    [] {a, b} = {Sym(s), Ne(s, "m")} -> Eq(s, "y")
    [] s \notin BoolSyms /\ \E c, d \in Consts : {a, b} = {Eq(s, c), Ne(s, d)} ->
         LET c == IF a[1] = "eq" THEN a[3] ELSE b[3]
         IN  IF a[3] = b[3] THEN No ELSE Eq(s, c)
    [] s \notin BoolSyms /\ a[1] = "ne" /\ b[1] = "ne" /\ {a[3], b[3]} \subseteq Consts ->
         Eq(s, CHOOSE c \in Consts : c \notin {a[3], b[3]})
    [] OTHER -> Null

Join(op, a, b) == IF op = "or" THEN JoinOr(a, b) ELSE JoinAnd(a, b)

\* expr_extract_eq: what a and b have in common is taken from both; was there any?
RECURSIVE Extract(_, _, _)
Extract(op, a, b) ==
  CASE a[1] = op ->
         LET l == Extract(op, a[2], b) r == Extract(op, a[3], l[3])
         IN  <<l[1] \/ r[1], Two(op, l[2], r[2]), r[3]>>
    [] a[1] # op /\ b[1] = op ->
         LET l == Extract(op, a, b[2]) r == Extract(op, l[2], b[3])
         IN  <<l[1] \/ r[1], r[2], Two(op, l[3], r[3])>>
    [] OTHER -> IF ExprEq(a, b) THEN <<TRUE, Unit(op), Unit(op)>> ELSE <<FALSE, a, b>>

\* expr_extract_eq_and, expr_extract_eq_or: what is left of the first.
Rest(a, x) == IF x[1] THEN Yn(x[2]) ELSE a
ExtractEq(op, a, b) == Rest(a, Extract(op, a, b))

------------------------------------------------------------------------------
\* The place of a term is its path from the root.
RECURSIVE At(_, _), Put(_, _, _)
At(t, p) == IF p = <<>> THEN t ELSE At(t[Head(p)], Tail(p))
Put(t, p, e) == IF p = <<>> THEN e ELSE [t EXCEPT ![Head(p)] = Put(@, Tail(p), e)]
Left(p) == Append(p, 2)
Right(p) == Append(p, 3)

\* expr_eliminate_dups1: every pair of terms of a join is offered to Join.
\* s.hit is trans_count # 0.
RECURSIVE Dups1(_, _, _, _)
Replace(s, p, q, op, j) ==
  IF j = Null THEN s ELSE [tree |-> Put(Put(s.tree, p, Unit(op)), q, j), hit |-> TRUE]
Offer(op, s, p, q) == Replace(s, p, q, op, Join(op, At(s.tree, p), At(s.tree, q)))
Dups1(op, s, p, q) ==
  LET a == At(s.tree, p) b == At(s.tree, q) IN
  CASE a[1] = op -> Dups1(op, Dups1(op, s, Left(p), q), Right(p), q)
    [] a[1] # op /\ b[1] = op -> Dups1(op, Dups1(op, s, p, Left(q)), p, Right(q))
    [] a[1] # op /\ b[1] # op /\ p = q -> s
    [] OTHER -> Offer(op, IF a[1] \in Joins THEN Dups1(a[1], s, p, p) ELSE s, p, q)

\* expr_eliminate_dups2: a term whose opposite is among the others decides
\* alone.  The second join is gone through term by term, and then as a whole.
RECURSIVE Dups2(_, _, _, _)
Opposed(k, s, p, q) ==
  IF ExtractEq(Dual(k), Transform(Not(At(s.tree, p))), At(s.tree, q)) = Unit(Dual(k))
  THEN [tree |-> Put(s.tree, p, Unit(k)), hit |-> TRUE]
  ELSE s
Whole(s, p, q) ==
  LET k == At(s.tree, p)[1]
  IN  IF p = q \/ k \notin Joins THEN s ELSE Opposed(k, Dups2(k, s, p, p), p, q)
Dups2(op, s, p, q) ==
  CASE At(s.tree, p)[1] = op -> Dups2(op, Dups2(op, s, Left(p), q), Right(p), q)
    [] At(s.tree, p)[1] # op /\ At(s.tree, q)[1] = op ->
         Whole(Dups2(op, Dups2(op, s, p, Left(q)), p, Right(q)), p, q)
    [] OTHER -> Whole(s, p, q)

\* expr_eliminate_dups
RECURSIVE EliminateDups(_)
Repeat(s, e) == IF s.hit THEN EliminateDups(Yn(s.tree)) ELSE e
EliminateDups(e) ==
  IF e[1] \notin Joins THEN e
  ELSE Repeat(Dups2(e[1], Dups1(e[1], [tree |-> e, hit |-> FALSE], <<>>, <<>>), <<>>, <<>>), e)

------------------------------------------------------------------------------
\* expr_contains_symbol, expr_depends_symbol: named in it; cannot hold without it.
RECURSIVE ContainsSymbol(_, _), DependsSymbol(_, _)
ContainsSymbol(e, s) ==
  CASE e[1] = "null" -> FALSE
    [] e[1] \in Joins -> ContainsSymbol(e[2], s) \/ ContainsSymbol(e[3], s)
    [] e[1] = "not" -> ContainsSymbol(e[2], s)
    [] e[1] = "sym" -> e[2] = s
    [] OTHER -> s \in {e[2], e[3]}

DependsSymbol(e, s) ==
  CASE e[1] = "and" -> DependsSymbol(e[2], s) \/ DependsSymbol(e[3], s)
    [] e[1] = "sym" -> e[2] = s
    [] e[1] = "eq" -> e[2] = s /\ e[3] \in {"y", "m"}
    [] e[1] = "ne" -> e[2] = s /\ e[3] = "n"
    [] OTHER -> FALSE

\* expr_trans_compare: (e = c) or (e != c), for the constants y and n.
RECURSIVE TransCompare(_, _, _)
TransCompare(e, type, c) ==
  LET Sign(f) == IF type = "ne" THEN Not(f) ELSE f
  IN  CASE e[1] = "null" -> Sign(Sym(c))
        [] e[1] \in Joins ->
             Sign(Two(IF c = "y" THEN e[1] ELSE Dual(e[1]),
                      TransCompare(e[2], "eq", c), TransCompare(e[3], "eq", c)))
        [] e[1] = "not" -> TransCompare(e[2], IF type = "eq" THEN "ne" ELSE "eq", c)
        [] e[1] = "sym" -> <<type, e[2], c>>
        [] OTHER -> IF (type = "eq") = (c = "y") THEN e ELSE Not(e)
=============================================================================
