----------------------------- MODULE ConfProofs -----------------------------
(***************************************************************************)
(* What conf, mconf and the three programs that set all by themselves keep  *)
(* to, for any Config.in files, answers, files and numbers, with            *)
(* expr_calc_value, menu_is_visible, conf_parse and sym_check_deps as the   *)
(* assumptions of Kconfig, Symbol and Conf have them.                       *)
(*                                                                          *)
(* First that there is one calculation for the user's values, and which     *)
(* other values it is also the calculation of (Agrees): those that          *)
(* conf_write has left, read again, are among them.  Then what check_conf   *)
(* asks, what is saved and what may be lost, each from an invariant of its  *)
(* own.  Last what make is told: auto.conf and the headers.                 *)
(***************************************************************************)
EXTENDS Conf, SequenceTheorems, FiniteSetTheorems, WellFoundedInduction, TLAPS

------------------------------------------------------------------------------
(* Numbers                                                                   *)

\* A set of numbers has a lowest one.
LEMMA Lowest ==
  ASSUME NEW S, S # {}, S \subseteq Nat
  PROVE  \E m \in S : \A k \in S : m <= k
<1>1. PICK m \in S : \A k \in S : <<k, m>> \notin OpToRel(<, Nat)
  BY NatLessThanWellFounded, WFMin
<1>2. \A k, n \in Nat : <<k, n>> \in OpToRel(<, Nat) <=> k < n
  BY DEF OpToRel
<1>3. ASSUME NEW k \in S PROVE m <= k
  <2>1. k \in Nat /\ m \in Nat
    OBVIOUS
  <2>2. ~(k < m)
    BY <1>1, <1>2, <2>1
  <2>3. QED
    BY <2>1, <2>2
<1>4. QED
  BY <1>3

\* Min and Max of a set are of the set.
LEMMA MinIn ==
  ASSUME NEW S, S \subseteq Nat, S # {}
  PROVE  Min(S) \in S
BY Lowest DEF Min

LEMMA MaxIn ==
  ASSUME NEW N \in Nat, NEW S, S \subseteq 1..N, S # {}
  PROVE  Max(S) \in S
<1> DEFINE R == {N - n : n \in S}
<1>0. \A n \in S : N - n \in Nat
  OBVIOUS
<1>1. R \subseteq Nat /\ R # {}
  BY <1>0
<1>2. PICK m \in R : \A x \in R : m <= x
  BY <1>1, Lowest
<1>3. PICK n \in S : m = N - n
  BY <1>2
<1>4. \A i \in S : n >= i
  <2> TAKE i \in S
  <2>1. N - n <= N - i
    BY <1>2, <1>3
  <2> QED BY <2>1, <1>3
<1> QED BY <1>3, <1>4 DEF Max

------------------------------------------------------------------------------
(* The calculation is one                                                    *)

\* A description that is accepted.
Fits(k) == WellTyped(k) /\ Choosing(k) /\ Acyclic(k)

\* What conditions see of a calculation.
SeenAs(k, d) == [s \in k.syms |-> IF s \in IntSyms THEN 0 ELSE d.cur[s]]

\* Conditions see no numbers.
LEMMA EnvIs ==
  ASSUME NEW k, NEW u, NEW d, IsCalculation(k, u, d)
  PROVE  SeenAs(k, d) \in Values(k) /\ Env(k, SeenAs(k, d)) = Env(k, d.cur)
<1>1. \A s \in k.syms \ IntSyms : d.cur[s] \in {0, 2}
  BY DEF IsCalculation
<1>2. SeenAs(k, d) \in Values(k)
  BY <1>1 DEF SeenAs, Values
<1> QED BY <1>2 DEF SeenAs, Env

\* prop found for a symbol is one of its own.
LEMMA FirstPropIn ==
  ASSUME NEW ps, NEW env, DOMAIN ps \subseteq Nat \ {0}, FirstProp(ps, env) # 0
  PROVE  FirstProp(ps, env) \in DOMAIN ps /\ expr_calc_value(ps[FirstProp(ps, env)].vis, env) # 0
<1> DEFINE on == {n \in DOMAIN ps : expr_calc_value(ps[n].vis, env) # 0}
<1>1. on # {} /\ FirstProp(ps, env) = Min(on)
  BY DEF FirstProp
<1>2. Min(on) \in on
  BY <1>1, MinIn
<1> QED BY <1>1, <1>2

\* Two environments that no condition of s tells apart.
Alike(k, s, env, other) == \A x \in ConditionsOf(k, s) : expr_calc_value(x, env) = expr_calc_value(x, other)

LEMMA AlikeFound ==
  ASSUME NEW k, NEW s \in k.syms, NEW env, NEW other, Alike(k, s, env, other)
  PROVE  /\ Visible(k.entry[s], env) = Visible(k.entry[s], other)
         /\ Selected(k, env, s) = Selected(k, other, s)
         /\ FirstProp(k.entry[s].defs, env) = FirstProp(k.entry[s].defs, other)
         /\ FirstProp(k.entry[s].range, env) = FirstProp(k.entry[s].range, other)
         /\ Found(k, env, s) = Found(k, other, s)
<1> DEFINE e == k.entry[s]
<1>1. expr_calc_value(e.vis, env) = expr_calc_value(e.vis, other)
  BY DEF Alike, ConditionsOf
<1>2. \A x \in k.rev[s] : expr_calc_value(x, env) = expr_calc_value(x, other)
  BY DEF Alike, ConditionsOf
<1>3. \A n \in DOMAIN e.defs : expr_calc_value(e.defs[n].vis, env) = expr_calc_value(e.defs[n].vis, other)
  BY DEF Alike, ConditionsOf
<1>4. \A n \in DOMAIN e.range : expr_calc_value(e.range[n].vis, env) = expr_calc_value(e.range[n].vis, other)
  BY DEF Alike, ConditionsOf
<1>5. Visible(e, env) = Visible(e, other)
  BY <1>1 DEF Visible
<1>6. Selected(k, env, s) = Selected(k, other, s)
  BY <1>2 DEF Selected
<1>7. FirstProp(e.defs, env) = FirstProp(e.defs, other)
  <2>1. {n \in DOMAIN e.defs : expr_calc_value(e.defs[n].vis, env) # 0}
        = {n \in DOMAIN e.defs : expr_calc_value(e.defs[n].vis, other) # 0}
    BY <1>3
  <2> QED BY <2>1 DEF FirstProp
<1>8. FirstProp(e.range, env) = FirstProp(e.range, other)
  <2>1. {n \in DOMAIN e.range : expr_calc_value(e.range[n].vis, env) # 0}
        = {n \in DOMAIN e.range : expr_calc_value(e.range[n].vis, other) # 0}
    BY <1>4
  <2> QED BY <2>1 DEF FirstProp
<1>9. Found(k, env, s) = Found(k, other, s)
  BY <1>5, <1>6, <1>7 DEF Found
<1> QED BY <1>5, <1>6, <1>7, <1>8, <1>9

\* What is calculated, field by field.
LEMMA Calculated ==
  ASSUME NEW k, NEW u, NEW r, NEW env, NEW s, NEW x, x = Found(k, env, s),
         NEW t, t = Tri(k.entry[s], u[s], env, x), NEW p, p = PickOf(k, u, env, s, t)
  PROVE  CalcValue(k, u, r, env, s) = ValueOf(k, u, r, env, s, x, t, p)
BY DEF CalcValue, WithFound, WithTri

\* A symbol is calculated alike where its conditions are, and its choice is.
LEMMA SameValue ==
  ASSUME NEW k, NEW u, NEW r, NEW q, NEW env, NEW other, NEW s \in k.syms, Fits(k), Alike(k, s, env, other),
         k.of[s] # NoSym => r[k.of[s]] = q[k.of[s]],
         s \in k.choices => Picked(k, u, env, s) = Picked(k, u, other, s)
  PROVE  CalcValue(k, u, r, env, s) = CalcValue(k, u, q, other, s)
<1> DEFINE e == k.entry[s]
           x == Found(k, env, s)
           t1 == Tri(e, u[s], env, x)
           t2 == Tri(e, u[s], other, x)
           p1 == PickOf(k, u, env, s, t1)
           p2 == PickOf(k, u, other, s, t2)
<1>1. x = Found(k, other, s) /\ FirstProp(e.range, env) = FirstProp(e.range, other)
  BY AlikeFound
<1>2. CalcValue(k, u, r, env, s) = ValueOf(k, u, r, env, s, x, t1, p1)
  BY Calculated
<1>3. CalcValue(k, u, q, other, s) = ValueOf(k, u, q, other, s, x, t2, p2)
  BY <1>1, Calculated
<1>4. CASE s \in IntSyms
  <2>1. s \notin k.choices
    BY <1>4 DEF Fits, WellTyped
  <2>2. p1 = NoSym /\ p2 = NoSym
    BY <2>1 DEF PickOf
  <2>3. \A v : Clamp(e, env, v) = Clamp(e, other, v)
    BY <1>1 DEF Clamp
  <2>4. Number(e, u[s], env, x) = Number(e, u[s], other, x)
    BY <2>3 DEF Number
  <2>5. ValueOf(k, u, r, env, s, x, t1, p1) = ValueOf(k, u, q, other, s, x, t2, p2)
    BY <1>4, <2>2, <2>4 DEF ValueOf
  <2> QED BY <1>2, <1>3, <2>5
<1>5. CASE s \notin IntSyms
  <2>1. t1 = t2
    <3>1. CASE s \in k.choices
      <4>1. x.n = 0
        BY <3>1 DEF Found
      <4> QED BY <4>1 DEF Tri
    <3>2. CASE s \notin k.choices
      <4>1. CASE x.n # 0
        <5>1. x.n = FirstProp(e.defs, env)
          BY <3>2 DEF Found
        <5>2. DOMAIN e.defs \subseteq Nat \ {0}
          BY DEF Fits, WellTyped
        <5>3. x.n \in DOMAIN e.defs
          BY <4>1, <5>1, <5>2, FirstPropIn
        <5>4. /\ expr_calc_value(e.defs[x.n].val, env) = expr_calc_value(e.defs[x.n].val, other)
              /\ expr_calc_value(e.defs[x.n].vis, env) = expr_calc_value(e.defs[x.n].vis, other)
          BY <1>5, <3>2, <5>3 DEF Alike, ConditionsOf
        <5> QED BY <5>4 DEF Tri
      <4>2. CASE x.n = 0
        BY <4>2 DEF Tri
      <4> QED BY <4>1, <4>2
    <3> QED BY <3>1, <3>2
  <2>2. p1 = p2
    BY <2>1 DEF PickOf
  <2> HIDE DEF x, t1, t2, p1, p2
  <2>3. ValueOf(k, u, r, env, s, x, t1, p1) = ValueOf(k, u, q, other, s, x, t2, p2)
    BY <1>5, <2>1, <2>2 DEF ValueOf
  <2> QED BY <1>2, <1>3, <2>3
<1> QED BY <1>4, <1>5

\* What the user may have set: values of the symbols' types, and for a choice one
\* of its members.
UserOK(k, u) ==
  \A s \in k.syms :
    /\ u[s] \in [has : BOOLEAN, val : Nat \cup {Empty}, pick : k.syms \cup {NoSym}]
    /\ s \notin IntSyms => u[s].val \in {0, 2}
    /\ s \in IntSyms /\ u[s].has => u[s].val # Empty
    /\ u[s].pick # NoSym => k.of[u[s].pick] = s

\* Conditions depend on no more than what the symbol reads.
LEMMA ReadAlike ==
  ASSUME NEW k, Fits(k), NEW f \in Values(k), NEW g \in Values(k), NEW s \in k.syms,
         \A x \in k.syms \cap k.reads[s] : f[x] = g[x]
  PROVE  Alike(k, s, Env(k, f), Env(k, g))
<1>1. Masked(k, s, f) = Masked(k, s, g)
  BY DEF Masked
<1>2. \A x \in ConditionsOf(k, s) :
        /\ expr_calc_value(x, Env(k, f)) = expr_calc_value(x, Env(k, Masked(k, s, f)))
        /\ expr_calc_value(x, Env(k, g)) = expr_calc_value(x, Env(k, Masked(k, s, g)))
  BY DEF Fits, Acyclic
<1> QED BY <1>1, <1>2 DEF Alike

\* With a choice set to "y".
LEMMA WithYes ==
  ASSUME NEW k, Fits(k), NEW f \in Values(k), NEW ch \in k.choices
  PROVE  /\ [f EXCEPT ![ch] = 2] \in Values(k)
         /\ Env(k, [f EXCEPT ![ch] = 2]) = [Env(k, f) EXCEPT ![ch] = 2]
<1>1. ch \in k.syms /\ ch \notin IntSyms /\ ch \notin DOMAIN Constants
  BY DEF Fits, WellTyped
<1>2. [f EXCEPT ![ch] = 2] \in Values(k)
  BY DEF Values
<1> QED BY <1>1, <1>2 DEF Env, Values

\* What a choice chooses from: the visibility of its members, and its defaults.
Showing(k, env, ch) == {s \in k.syms : k.of[s] = ch /\ Visible(k.entry[s], [env EXCEPT ![ch] = 2]) # 0}
Defaulting(k, env, ch) ==
  {n \in DOMAIN k.entry[ch].defs : expr_calc_value(k.entry[ch].defs[n].vis, [env EXCEPT ![ch] = 2]) # 0}
Choose(k, p, ch, showing, defaulting) ==
  LET e == k.entry[ch]
      defs == {n \in defaulting : e.defs[n].val[2] \in showing}
      seen == {n \in DOMAIN k.members[ch] : k.members[ch][n] \in showing}
  IN  IF p \in showing THEN p
      ELSE IF defs # {} THEN e.defs[Min(defs)].val[2]
      ELSE IF seen # {} THEN k.members[ch][Min(seen)]
      ELSE NoSym

\* sym_calc_choice, from those alone.
LEMMA PickedIs ==
  ASSUME NEW k, Fits(k), NEW u, UserOK(k, u), NEW env, NEW ch \in k.choices
  PROVE  Picked(k, u, env, ch) = Choose(k, u[ch].pick, ch, Showing(k, env, ch), Defaulting(k, env, ch))
<1> DEFINE yes == [env EXCEPT ![ch] = 2]
           Shown(s) == Visible(k.entry[s], yes) # 0
           e == k.entry[ch]
           defs == {n \in DOMAIN e.defs : expr_calc_value(e.defs[n].vis, yes) # 0 /\ Shown(e.defs[n].val[2])}
           seen == {n \in DOMAIN k.members[ch] : Shown(k.members[ch][n])}
           showing == Showing(k, env, ch)
<1>0. ch \in k.syms
  BY DEF Fits, WellTyped
<1>1. u[ch].pick # NoSym /\ Shown(u[ch].pick) <=> u[ch].pick \in showing
  <2>1. u[ch].pick # NoSym => u[ch].pick \in k.syms /\ k.of[u[ch].pick] = ch
    BY <1>0 DEF UserOK
  <2>2. u[ch].pick \in showing => u[ch].pick # NoSym
    BY DEF Showing, Fits, WellTyped
  <2> QED BY <2>1, <2>2 DEF Showing
<1>2. defs = {n \in Defaulting(k, env, ch) : e.defs[n].val[2] \in showing}
  <2>1. \A n \in DOMAIN e.defs : e.defs[n].val[2] \in k.syms /\ k.of[e.defs[n].val[2]] = ch
    BY DEF Fits, Choosing
  <2> QED BY <2>1 DEF Defaulting, Showing
<1>3. seen = {n \in DOMAIN k.members[ch] : k.members[ch][n] \in showing}
  <2>1. \A n \in DOMAIN k.members[ch] : k.members[ch][n] \in k.syms /\ k.of[k.members[ch][n]] = ch
    BY DEF Fits, Choosing
  <2> QED BY <2>1 DEF Showing
<1>4. Picked(k, u, env, ch) =
        IF u[ch].pick # NoSym /\ Shown(u[ch].pick) THEN u[ch].pick
        ELSE IF defs # {} THEN e.defs[Min(defs)].val[2]
        ELSE IF seen # {} THEN k.members[ch][Min(seen)]
        ELSE NoSym
  BY DEF Picked
<1> HIDE DEF defs, seen, showing, Shown
<1>5. Picked(k, u, env, ch) =
        IF u[ch].pick \in showing THEN u[ch].pick
        ELSE IF defs # {} THEN e.defs[Min(defs)].val[2]
        ELSE IF seen # {} THEN k.members[ch][Min(seen)]
        ELSE NoSym
  BY <1>1, <1>4
<1> QED BY <1>2, <1>3, <1>5 DEF Choose, showing

\* What a choice and its members read is what the choice comes from.
LEMMA InUnion ==
  ASSUME NEW S, NEW x \in S
  PROVE  x \subseteq UNION S
OBVIOUS

LEMMA ReadsFrom ==
  ASSUME NEW k, NEW b, NEW s \in k.syms, s = b \/ k.of[s] = b
  PROVE  k.reads[s] \subseteq From(k, b) \cup {b}
<1>1. CASE s = b
  BY <1>1 DEF From
<1>2. CASE k.of[s] = b
  <2> DEFINE all == {k.reads[x] : x \in {y \in k.syms : k.of[y] = b}}
  <2>1. k.reads[s] \in all
    BY <1>2
  <2> DEFINE read == UNION all
  <2>3. From(k, b) = k.reads[b] \cup (read \ {b})
    BY DEF From
  <2> HIDE DEF all
  <2>2. k.reads[s] \subseteq UNION all
    BY <2>1, InUnion
  <2>4. k.reads[s] \subseteq read
    BY <2>2
  <2> HIDE DEF read
  <2> QED BY <2>3, <2>4
<1> QED BY <1>1, <1>2

\* A choice chooses alike where all it and its members read is alike.
LEMMA PickedAlike ==
  ASSUME NEW k, Fits(k), NEW u, UserOK(k, u), NEW f \in Values(k), NEW g \in Values(k), NEW ch \in k.choices,
         \A x \in k.syms \cap From(k, ch) : f[x] = g[x]
  PROVE  Picked(k, u, Env(k, f), ch) = Picked(k, u, Env(k, g), ch)
<1> DEFINE f2 == [f EXCEPT ![ch] = 2]
           g2 == [g EXCEPT ![ch] = 2]
<1>0. ch \in k.syms
  BY DEF Fits, WellTyped
<1>1. f2 \in Values(k) /\ g2 \in Values(k) /\ Env(k, f2) = [Env(k, f) EXCEPT ![ch] = 2] /\ Env(k, g2) = [Env(k, g) EXCEPT ![ch] = 2]
  BY WithYes
<1>2. \A x \in k.syms \cap (From(k, ch) \cup {ch}) : f2[x] = g2[x]
  BY <1>0 DEF Values
<1> HIDE DEF f2, g2
<1>3. ASSUME NEW s \in k.syms, s = ch \/ k.of[s] = ch
      PROVE  Alike(k, s, Env(k, f2), Env(k, g2))
  <2>1. k.reads[s] \subseteq From(k, ch) \cup {ch}
    BY <1>3, ReadsFrom
  <2>2. \A x \in k.syms \cap k.reads[s] : f2[x] = g2[x]
    BY <1>2, <2>1
  <2> QED BY <1>1, <2>2, ReadAlike
<1>4. Showing(k, Env(k, f), ch) = Showing(k, Env(k, g), ch)
  <2>1. \A s \in k.syms : k.of[s] = ch => Visible(k.entry[s], Env(k, f2)) = Visible(k.entry[s], Env(k, g2))
    BY <1>3, AlikeFound
  <2> QED BY <1>1, <2>1 DEF Showing
<1>5. Defaulting(k, Env(k, f), ch) = Defaulting(k, Env(k, g), ch)
  <2>1. Alike(k, ch, Env(k, f2), Env(k, g2))
    BY <1>0, <1>3
  <2>2. \A n \in DOMAIN k.entry[ch].defs :
          expr_calc_value(k.entry[ch].defs[n].vis, Env(k, f2)) = expr_calc_value(k.entry[ch].defs[n].vis, Env(k, g2))
    BY <2>1 DEF Alike, ConditionsOf
  <2> QED BY <1>1, <2>2 DEF Defaulting
<1> QED BY <1>4, <1>5, PickedIs

\* What sym_calc_value leaves does not depend on the order in which the symbols
\* are calculated: there is one calculation for the user's values.
THEOREM OneCalculation ==
  ASSUME NEW k, Fits(k), NEW u, UserOK(k, u), NEW d, NEW d2, IsCalculation(k, u, d), IsCalculation(k, u, d2)
  PROVE  d = d2
<1> DEFINE r == BySymbol(k, d)
           q == BySymbol(k, d2)
           f == SeenAs(k, d)
           g == SeenAs(k, d2)
           Differ == {s \in k.syms : r[s] # q[s]}
<1>1. f \in Values(k) /\ g \in Values(k) /\ Env(k, f) = Env(k, d.cur) /\ Env(k, g) = Env(k, d2.cur)
  BY EnvIs
<1>2. \A s \in k.syms : CalcValue(k, u, r, Env(k, f), s) = r[s] /\ CalcValue(k, u, q, Env(k, g), s) = q[s]
  <2>1. Round(k, u, r, Env(k, f)) = r /\ Round(k, u, q, Env(k, g)) = q
    BY <1>1 DEF IsCalculation
  <2> HIDE DEF r, q, f, g
  <2> QED BY <2>1 DEF Round
<1>3. \A s \in k.syms \ Differ : f[s] = g[s]
  <2>1. \A s \in k.syms : r[s].cur = d.cur[s] /\ q[s].cur = d2.cur[s]
    BY DEF BySymbol
  <2>2. \A s \in k.syms \ Differ : d.cur[s] = d2.cur[s]
    BY <2>1
  <2> QED BY <2>2 DEF SeenAs
<1> HIDE DEF r, q, f, g
<1>4. ASSUME NEW t \in Differ
      PROVE  From(k, Stands(k, t)) \cap Differ # {}
  <2> SUFFICES ASSUME From(k, Stands(k, t)) \cap Differ = {}
               PROVE  FALSE
    OBVIOUS
  <2>1. ASSUME NEW s \in k.syms, k.reads[s] \cap Differ = {}
        PROVE  Alike(k, s, Env(k, f), Env(k, g))
    <3>1. \A x \in k.syms \cap k.reads[s] : f[x] = g[x]
      BY <1>3, <2>1
    <3> QED BY <1>1, <3>1, ReadAlike
  <2>2. ASSUME NEW b \in k.syms, k.of[b] = NoSym, From(k, b) \cap Differ = {}
        PROVE  b \notin Differ
    <3>1. k.reads[b] \cap Differ = {}
      BY <2>2 DEF From
    <3>2. b \in k.choices => Picked(k, u, Env(k, f), b) = Picked(k, u, Env(k, g), b)
      <4>1. \A x \in k.syms \cap From(k, b) : f[x] = g[x]
        BY <1>3, <2>2
      <4> QED BY <1>1, <4>1, PickedAlike
    <3>3. CalcValue(k, u, r, Env(k, f), b) = CalcValue(k, u, q, Env(k, g), b)
      BY <2>1, <2>2, <3>1, <3>2, SameValue
    <3> QED BY <1>2, <3>3
  <2>3. k.of \in [k.syms -> k.choices \cup {NoSym}] /\ k.choices \subseteq k.syms /\ \A ch \in k.choices : k.of[ch] = NoSym
    BY DEF Fits, Choosing, WellTyped
  <2>4. CASE k.of[t] = NoSym
    BY <2>2, <2>4 DEF Stands
  <2>5. CASE k.of[t] # NoSym
    <3>1. PICK b \in k.choices : b = k.of[t] /\ b \in k.syms /\ k.of[b] = NoSym
      BY <2>3, <2>5
    <3>2. From(k, b) \cap Differ = {}
      BY <2>5, <3>1 DEF Stands
    <3>3. b \notin Differ /\ r[b] = q[b]
      BY <2>2, <3>1, <3>2
    <3>a. k.reads[t] \subseteq From(k, b) \cup {b}
      BY <3>1, ReadsFrom
    <3>4. k.reads[t] \cap Differ = {}
      BY <3>a, <3>2, <3>3
    <3>5. t \notin k.choices
      BY <2>3, <2>5
    <3>6. CalcValue(k, u, r, Env(k, f), t) = CalcValue(k, u, q, Env(k, g), t)
      BY <2>1, <3>1, <3>3, <3>4, <3>5, SameValue
    <3> QED BY <1>2, <3>6
  <2> QED BY <2>4, <2>5
<1>5. Differ = {}
  BY <1>4 DEF Fits, Acyclic
<1>6. r = q
  BY <1>5 DEF r, q, BySymbol
<1>7. d = ByField(k, r) /\ d2 = ByField(k, q)
  BY DEF IsCalculation, r, q
<1> QED BY <1>6, <1>7

------------------------------------------------------------------------------
(* What may differ in the values without a difference in the calculation     *)

\* What is found of a symbol.
LEMMA FoundRange ==
  ASSUME NEW k, Fits(k), NEW f \in Values(k), NEW s \in k.syms, NEW x, x = Found(k, Env(k, f), s)
  PROVE  /\ x.vis \in {0, 2} /\ x.rev \in {0, 2}
         /\ x.n # 0 => s \notin k.choices /\ x.n \in DOMAIN k.entry[s].defs
         /\ k.of[s] # NoSym => x.n = 0 /\ x.rev = 0
         /\ s \in k.choices /\ x.vis # 0 => x.rev = 2
<1> DEFINE env == Env(k, f)
           e == k.entry[s]
<1>1. expr_calc_value(e.vis, env) \in 0..2
  BY DEF Fits, WellTyped, ConditionsOf
<1>2. Visible(e, env) \in {0, 2}
  BY <1>1 DEF Visible, Bool
<1>3. Selected(k, env, s) \in {0, 2}
  BY DEF Selected
<1>4. DOMAIN e.defs \subseteq Nat \ {0}
  BY DEF Fits, WellTyped
<1>5. x.vis = Visible(e, env) /\ x.rev = Selected(k, env, s) /\ x.n = IF s \in k.choices THEN 0 ELSE FirstProp(e.defs, env)
  BY DEF Found
<1>6. x.n # 0 => s \notin k.choices /\ x.n \in DOMAIN e.defs
  BY <1>4, <1>5, FirstPropIn
<1>7. ASSUME k.of[s] # NoSym
      PROVE  x.n = 0 /\ x.rev = 0
  <2>1. DOMAIN e.defs = {}
    BY <1>7 DEF Fits, Choosing
  <2>2. x.rev = 0
    BY <1>5, <1>7 DEF Selected
  <2> QED BY <2>1, <2>2, <1>6
<1>8. ASSUME s \in k.choices, x.vis # 0
      PROVE  x.rev = 2
  <2>1. Selected(k, env, s) # 0
    BY <1>5, <1>8 DEF Fits, Choosing
  <2> QED BY <2>1, <1>3, <1>5
<1> QED BY <1>2, <1>3, <1>5, <1>6, <1>7, <1>8

\* sym_validate_range: what is within the range stays, and only no number at all
\* is left without one.
LEMMA ClampTwice ==
  ASSUME NEW k, Fits(k), NEW s \in k.syms \cap IntSyms, NEW env, NEW v \in Nat \cup {Empty},
         NEW w, w = Clamp(k.entry[s], env, v)
  PROVE  w \in Nat \cup {Empty} /\ Clamp(k.entry[s], env, w) = w /\ (w = Empty => v = Empty)
<1> DEFINE e == k.entry[s]
           n == FirstProp(e.range, env)
<1>1. n # 0 => e.range[n].lo \in Nat /\ e.range[n].hi \in Nat /\ e.range[n].lo <= e.range[n].hi
  <2>1. DOMAIN e.range \subseteq Nat \ {0}
    BY DEF Fits, WellTyped
  <2>2. n # 0 => n \in DOMAIN e.range
    BY <2>1, FirstPropIn
  <2> QED BY <2>2 DEF Fits, WellTyped
<1> DEFINE lo == e.range[n].lo
           hi == e.range[n].hi
<1>2. \A y : Clamp(e, env, y) = IF n # 0 /\ Num(y) < lo THEN lo ELSE IF n # 0 /\ Num(y) > hi THEN hi ELSE y
  BY DEF Clamp
<1>3. n # 0 => lo \in Nat /\ hi \in Nat /\ lo <= hi
  BY <1>1
<1> HIDE DEF n, lo, hi
<1>4. w = IF n # 0 /\ Num(v) < lo THEN lo ELSE IF n # 0 /\ Num(v) > hi THEN hi ELSE v
  BY <1>2
<1>5. Clamp(e, env, w) = IF n # 0 /\ Num(w) < lo THEN lo ELSE IF n # 0 /\ Num(w) > hi THEN hi ELSE w
  BY <1>2
<1> QED BY <1>3, <1>4, <1>5 DEF Num, Empty

\* Values of the user's with which the calculation is d as well: they differ from
\* those it was made from only where that cannot be told.
Agrees(k, d, u) ==
  \A s \in k.syms :
    /\ s \in IntSyms /\ d.vis[s] # 0 => \/ u[s].has /\ u[s].val = d.cur[s]
                                        \/ ~u[s].has /\ d.cur[s] = Empty
    /\ s \notin IntSyms \cup k.choices /\ k.of[s] = NoSym /\ d.vis[s] # 0 => u[s].has /\ u[s].val = d.cur[s]
    /\ s \in k.choices /\ d.pick[s] # NoSym => u[s].pick = d.pick[s]

\* A choice keeps what it has chosen, when that is what the user chose.
LEMMA ChooseKept ==
  ASSUME NEW k, Fits(k), NEW ch \in k.choices, NEW p, NEW q,
         NEW showing, showing \subseteq {s \in k.syms : k.of[s] = ch}, NEW defaulting \in SUBSET DOMAIN k.entry[ch].defs,
         NEW out, out = Choose(k, p, ch, showing, defaulting), out # NoSym => q = out
  PROVE  Choose(k, q, ch, showing, defaulting) = out /\ (out # NoSym => out \in showing)
<1> DEFINE e == k.entry[ch]
           defs == {n \in defaulting : e.defs[n].val[2] \in showing}
           seen == {n \in DOMAIN k.members[ch] : k.members[ch][n] \in showing}
<1>0. NoSym \notin showing /\ ch \in k.syms
  BY DEF Fits, WellTyped
<1>1. defs # {} => e.defs[Min(defs)].val[2] \in showing
  <2>1. defs \subseteq Nat
    BY <1>0 DEF Fits, WellTyped
  <2>2. defs # {} => Min(defs) \in defs
    BY <2>1, MinIn
  <2> QED BY <2>2
<1>2. seen # {} => k.members[ch][Min(seen)] \in showing
  <2>1. seen \subseteq Nat
    BY DEF Fits, Choosing
  <2>2. seen # {} => Min(seen) \in seen
    BY <2>1, MinIn
  <2> QED BY <2>2
<1>3. seen = {} => showing = {}
  BY DEF Fits, Choosing
<1>4. out = IF p \in showing THEN p
            ELSE IF defs # {} THEN e.defs[Min(defs)].val[2]
            ELSE IF seen # {} THEN k.members[ch][Min(seen)]
            ELSE NoSym
  BY DEF Choose
<1>5. Choose(k, q, ch, showing, defaulting) =
            IF q \in showing THEN q
            ELSE IF defs # {} THEN e.defs[Min(defs)].val[2]
            ELSE IF seen # {} THEN k.members[ch][Min(seen)]
            ELSE NoSym
  BY DEF Choose
<1> HIDE DEF defs, seen
<1> QED BY <1>0, <1>1, <1>2, <1>3, <1>4, <1>5

\* The fields of a calculation, by what was found of the symbol.
LEMMA FieldsOf ==
  ASSUME NEW k, NEW u, NEW d, IsCalculation(k, u, d), NEW s \in k.syms,
         NEW env, env = Env(k, d.cur), NEW x, x = Found(k, env, s), NEW t, t = Tri(k.entry[s], u[s], env, x),
         NEW r, r = BySymbol(k, d), NEW p, p = PickOf(k, u, env, s, t)
  PROVE  /\ CalcValue(k, u, r, env, s) = r[s] /\ r[s] = ValueOf(k, u, r, env, s, x, t, p)
         /\ d.vis[s] = x.vis /\ d.rev[s] = x.rev /\ d.pick[s] = p
         /\ d.cur[s] = r[s].cur /\ d.write[s] = r[s].write
<1>1. Round(k, u, r, env) = r
  BY DEF IsCalculation
<1>2. CalcValue(k, u, r, env, s) = r[s]
  BY <1>1 DEF Round
<1>3. r[s] = ValueOf(k, u, r, env, s, x, t, p)
  BY <1>2, Calculated
<1>4. r[s] = [vis |-> d.vis[s], rev |-> d.rev[s], pick |-> d.pick[s], cur |-> d.cur[s], write |-> d.write[s]]
  BY DEF BySymbol
<1>5. r[s].vis = x.vis /\ r[s].rev = x.rev /\ r[s].pick = p
  BY <1>3 DEF ValueOf
<1> QED BY <1>2, <1>3, <1>4, <1>5

\* Where the values agree with a calculation, it is theirs.
LEMMA Agreeing ==
  ASSUME NEW k, Fits(k), NEW u, UserOK(k, u), NEW u2, UserOK(k, u2), NEW d, IsCalculation(k, u, d), Agrees(k, d, u2)
  PROVE  IsCalculation(k, u2, d)
<1> DEFINE env == Env(k, d.cur)
           r == BySymbol(k, d)
           f == SeenAs(k, d)
<1>1. f \in Values(k) /\ env = Env(k, f)
  BY EnvIs
<1>2. ASSUME NEW s \in k.syms
      PROVE  CalcValue(k, u2, r, env, s) = r[s]
  <2> DEFINE e == k.entry[s]
             x == Found(k, env, s)
             t1 == Tri(e, u[s], env, x)
             t2 == Tri(e, u2[s], env, x)
             p1 == PickOf(k, u, env, s, t1)
             p2 == PickOf(k, u2, env, s, t2)
             member == k.of[s] # NoSym
  <2>1. /\ CalcValue(k, u, r, env, s) = r[s] /\ r[s] = ValueOf(k, u, r, env, s, x, t1, p1)
        /\ d.vis[s] = x.vis /\ d.rev[s] = x.rev /\ d.pick[s] = p1
        /\ d.cur[s] = r[s].cur /\ d.write[s] = r[s].write
    BY FieldsOf
  <2>2. CalcValue(k, u2, r, env, s) = ValueOf(k, u2, r, env, s, x, t2, p2)
    BY Calculated
  <2>3. /\ x.vis \in {0, 2} /\ x.rev \in {0, 2}
        /\ x.n # 0 => s \notin k.choices /\ x.n \in DOMAIN e.defs
        /\ member => x.n = 0 /\ x.rev = 0
        /\ s \in k.choices /\ x.vis # 0 => x.rev = 2
    BY <1>1, FoundRange
  <2>4. /\ s \in k.choices => ~member /\ s \notin IntSyms
        /\ member => s \notin IntSyms
    BY DEF Fits, WellTyped, Choosing
  <2>t. ASSUME NEW w, w \in {u, u2}, s \notin IntSyms
        PROVE  Tri(e, w[s], env, x) \in {0, 2} /\ (x.rev = 2 => Tri(e, w[s], env, x) = 2)
    <3> DEFINE a == IF Mine(w[s], x) THEN Least(w[s].val, x.vis)
                    ELSE IF x.n # 0 THEN Least(expr_calc_value(e.defs[x.n].val, env), expr_calc_value(e.defs[x.n].vis, env))
                    ELSE 0
    <3>1. w[s].val \in {0, 2}
      BY <2>t DEF UserOK
    <3>2. x.n # 0 => expr_calc_value(e.defs[x.n].val, env) \in 0..2 /\ expr_calc_value(e.defs[x.n].vis, env) \in 0..2
      <4>1. x.n # 0 => {e.defs[x.n].val, e.defs[x.n].vis} \subseteq ConditionsOf(k, s)
        BY <2>3, <2>t DEF ConditionsOf
      <4> QED BY <1>1, <4>1 DEF Fits, WellTyped
    <3>3. a \in 0..2
      BY <2>3, <3>1, <3>2 DEF Least
    <3>4. Tri(e, w[s], env, x) = Bool(Most(x.rev, a))
      BY DEF Tri
    <3> HIDE DEF a, x
    <3> QED BY <2>3, <3>3, <3>4 DEF Bool, Most
  <2> HIDE DEF x, t1, t2, p1, p2, env, r
  <2>5. CASE s \in IntSyms
    <3>1. p1 = NoSym /\ p2 = NoSym /\ ~member
      BY <2>4, <2>5 DEF PickOf, p1, p2
    <3>2. d.cur[s] = Number(e, u[s], env, x)
      BY <2>1, <2>5 DEF ValueOf
    <3>3. CASE x.vis = 0
      <4>1. ~Mine(u[s], x) /\ ~Mine(u2[s], x)
        BY <3>3 DEF Mine
      <4>2. Number(e, u[s], env, x) = Number(e, u2[s], env, x)
        BY <4>1 DEF Number
      <4> QED BY <2>1, <2>2, <2>5, <3>1, <4>1, <4>2 DEF ValueOf
    <3>4. CASE x.vis # 0
      <4> DEFINE v == IF Mine(u[s], x) THEN u[s].val ELSE IF x.n # 0 THEN e.defs[x.n].val ELSE Empty
      <4>1. v \in Nat \cup {Empty}
        BY <2>3, <2>5 DEF UserOK, Fits, WellTyped
      <4>2. d.cur[s] = Clamp(e, env, v)
        BY <3>2 DEF Number
      <4> HIDE DEF v
      <4>3. d.cur[s] \in Nat \cup {Empty} /\ Clamp(e, env, d.cur[s]) = d.cur[s] /\ (d.cur[s] = Empty => v = Empty)
        BY <4>1, <4>2, <2>5, ClampTwice
      <4>4. Number(e, u2[s], env, x) = d.cur[s]
        <5>1. CASE u2[s].has /\ u2[s].val = d.cur[s]
          BY <5>1, <3>4, <4>3 DEF Number, Mine
        <5>2. CASE ~u2[s].has /\ d.cur[s] = Empty
          <6>1. v = Empty
            BY <4>3, <5>2
          <6>2. ~Mine(u[s], x)
            BY <6>1, <2>5 DEF Mine, UserOK, v
          <6>3. ~Mine(u2[s], x)
            BY <5>2 DEF Mine
          <6> QED BY <4>2, <6>2, <6>3 DEF Number, v
        <5> QED BY <5>1, <5>2, <2>1, <2>5, <3>4 DEF Agrees
      <4> QED BY <2>1, <2>2, <2>5, <3>1, <3>2, <3>4, <4>4 DEF ValueOf
    <3> QED BY <3>3, <3>4
  <2>6. CASE s \in k.choices
    <3>1. t1 = t2
      <4>1. CASE x.vis = 0
        BY <4>1 DEF Tri, Mine, t1, t2
      <4>2. CASE x.vis # 0
        BY <4>2, <2>3, <2>4, <2>6, <2>t DEF t1, t2
      <4> QED BY <4>1, <4>2
    <3>2. p1 = p2
      <4>1. CASE t1 # 2
        BY <4>1, <3>1 DEF PickOf, p1, p2
      <4>2. CASE t1 = 2
        <5> DEFINE showing == Showing(k, env, s)
                   defaulting == Defaulting(k, env, s)
        <5>1. p1 = Choose(k, u[s].pick, s, showing, defaulting) /\ p2 = Choose(k, u2[s].pick, s, showing, defaulting)
          BY <4>2, <3>1, <2>6, PickedIs DEF PickOf, p1, p2
        <5>2. showing \subseteq {y \in k.syms : k.of[y] = s} /\ defaulting \in SUBSET DOMAIN e.defs
          BY DEF Showing, Defaulting
        <5>3. p1 # NoSym => u2[s].pick = p1
          BY <2>1, <2>6 DEF Agrees
        <5> HIDE DEF showing, defaulting, e
        <5>4. Choose(k, u2[s].pick, s, showing, defaulting) = p1
          BY <5>1, <5>2, <5>3, <2>6, ChooseKept DEF e
        <5> QED BY <5>1, <5>4
      <4> QED BY <4>1, <4>2
    <3> QED BY <2>1, <2>2, <2>3, <2>4, <2>6, <3>1, <3>2 DEF ValueOf
  <2>7. CASE s \notin IntSyms \cup k.choices /\ member
    <3>1. p1 = NoSym /\ p2 = NoSym
      BY <2>7 DEF PickOf, p1, p2
    <3>2. x.vis = 0 => t1 = t2
      BY DEF Tri, Mine, t1, t2
    <3> QED BY <2>1, <2>2, <2>3, <2>7, <3>1, <3>2 DEF ValueOf
  <2>8. CASE s \notin IntSyms \cup k.choices /\ ~member
    <3>1. p1 = NoSym /\ p2 = NoSym
      BY <2>8 DEF PickOf, p1, p2
    <3>2. CASE x.vis = 0
      <4>1. ~Mine(u[s], x) /\ ~Mine(u2[s], x)
        BY <3>2 DEF Mine
      <4>2. t1 = t2
        BY <4>1 DEF Tri, t1, t2
      <4> QED BY <2>1, <2>2, <2>8, <3>1, <4>1, <4>2 DEF ValueOf
    <3>3. CASE x.vis # 0
      <4>1. d.cur[s] = t1
        BY <2>1, <2>8 DEF ValueOf
      <4>2. u2[s].has /\ u2[s].val = t1
        BY <2>1, <2>8, <3>3, <4>1 DEF Agrees
      <4>3. t2 = Bool(Most(x.rev, Least(t1, x.vis)))
        BY <3>3, <4>2 DEF Tri, Mine, t2
      <4>4. t1 \in {0, 2} /\ (x.rev = 2 => t1 = 2)
        BY <2>8, <2>t DEF t1
      <4>5. t2 = t1
        BY <2>3, <3>3, <4>3, <4>4 DEF Bool, Most, Least
      <4> QED BY <2>1, <2>2, <2>8, <3>1, <3>3, <4>5 DEF ValueOf
    <3> QED BY <3>2, <3>3
  <2> QED BY <2>5, <2>6, <2>7, <2>8
<1>3. Round(k, u2, r, env) = r
  <2>1. r = [s \in k.syms |-> r[s]]
    BY DEF BySymbol
  <2> HIDE DEF r, env
  <2> QED BY <1>2, <2>1 DEF Round
<1> QED BY <1>3 DEF IsCalculation

------------------------------------------------------------------------------
(* What conf_read makes of a file                                            *)

\* A line for every symbol but a choice is of its type.
LinesOK(k, f) == \A s \in k.syms \ k.choices : s \in DOMAIN f => Line(s, f[s])

\* A setting of the symbol s.
SettingOK(k, s, has, val, pick) ==
  /\ has \in BOOLEAN /\ val \in Nat \cup {Empty} /\ pick \in k.syms \cup {NoSym}
  /\ s \notin IntSyms => val \in {0, 2}
  /\ s \in IntSyms /\ has => val # Empty
  /\ pick # NoSym => k.of[pick] = s

\* Values are right when each is; and each of them is.
LEMMA SettingsOK ==
  ASSUME NEW k, NEW u,
         \A s \in k.syms : \E has, val, pick :
            SettingOK(k, s, has, val, pick) /\ u[s] = [has |-> has, val |-> val, pick |-> pick]
  PROVE  UserOK(k, u)
<1>1. ASSUME NEW s \in k.syms
      PROVE  /\ u[s] \in [has : BOOLEAN, val : Nat \cup {Empty}, pick : k.syms \cup {NoSym}]
             /\ s \notin IntSyms => u[s].val \in {0, 2}
             /\ s \in IntSyms /\ u[s].has => u[s].val # Empty
             /\ u[s].pick # NoSym => k.of[u[s].pick] = s
  <2>1. PICK has, val, pick : SettingOK(k, s, has, val, pick) /\ u[s] = [has |-> has, val |-> val, pick |-> pick]
    OBVIOUS
  <2>2. u[s].has = has /\ u[s].val = val /\ u[s].pick = pick
    BY <2>1
  <2>3. u[s] \in [has : BOOLEAN, val : Nat \cup {Empty}, pick : k.syms \cup {NoSym}]
    BY <2>1 DEF SettingOK
  <2> QED BY <2>1, <2>2, <2>3 DEF SettingOK
<1> QED BY <1>1 DEF UserOK

LEMMA SettingIs ==
  ASSUME NEW k, NEW u, UserOK(k, u), NEW s \in k.syms
  PROVE  \E has, val, pick :
            SettingOK(k, s, has, val, pick) /\ u[s] = [has |-> has, val |-> val, pick |-> pick]
<1>1. u[s] \in [has : BOOLEAN, val : Nat \cup {Empty}, pick : k.syms \cup {NoSym}]
  BY DEF UserOK
<1>2. u[s] = [has |-> u[s].has, val |-> u[s].val, pick |-> u[s].pick]
  BY <1>1
<1>3. SettingOK(k, s, u[s].has, u[s].val, u[s].pick)
  BY <1>1 DEF UserOK, SettingOK
<1> QED BY <1>2, <1>3

\* Unset(s) is a setting, and so is any value of the symbol's type.
LEMMA UnsetOK ==
  ASSUME NEW k, NEW s \in k.syms
  PROVE  \E has, val, pick :
            SettingOK(k, s, has, val, pick) /\ Unset(s) = [has |-> has, val |-> val, pick |-> pick]
<1> DEFINE v == IF s \in IntSyms THEN Empty ELSE 0
<1>1. SettingOK(k, s, FALSE, v, NoSym) /\ Unset(s) = [has |-> FALSE, val |-> v, pick |-> NoSym]
  BY DEF SettingOK, Unset
<1> QED BY <1>1

\* conf_read_simple sets values of the symbols' types.
LEMMA ReadOK ==
  ASSUME NEW k, Fits(k), NEW f, LinesOK(k, f)
  PROVE  UserOK(k, ReadSimple(k, f))
<1> DEFINE u == ReadSimple(k, f)
<1>1. ASSUME NEW s \in k.syms
      PROVE  \E has, val, pick :
               SettingOK(k, s, has, val, pick) /\ u[s] = [has |-> has, val |-> val, pick |-> pick]
  <2>1. CASE s \in k.choices
    <3>1. s \notin IntSyms
      BY <2>1 DEF Fits, WellTyped
    <3>2. u[s] = ChoiceIn(k, f, s)
      BY <2>1 DEF ReadSimple
    <3> HIDE DEF u
    <3>3. CASE YesIn(k, f, s) = {}
      <4>1. u[s] = [has |-> TRUE, val |-> 0, pick |-> NoSym]
        BY <3>2, <3>3 DEF ChoiceIn
      <4>2. SettingOK(k, s, TRUE, 0, NoSym)
        BY <3>1 DEF SettingOK
      <4> QED BY <4>1, <4>2
    <3>4. CASE YesIn(k, f, s) # {}
      <4>1. Len(k.members[s]) \in Nat /\ YesIn(k, f, s) \subseteq 1..Len(k.members[s])
        BY <2>1 DEF YesIn, Fits, Choosing
      <4>2. Max(YesIn(k, f, s)) \in YesIn(k, f, s)
        BY <3>4, <4>1, MaxIn
      <4>3. PICK n \in DOMAIN k.members[s] : n = Max(YesIn(k, f, s))
        BY <4>2 DEF YesIn
      <4>4. u[s] = [has |-> TRUE, val |-> 2, pick |-> k.members[s][n]]
        BY <3>2, <3>4, <4>3 DEF ChoiceIn
      <4>5. SettingOK(k, s, TRUE, 2, k.members[s][n])
        BY <2>1, <3>1, <4>3 DEF SettingOK, Fits, Choosing
      <4> QED BY <4>4, <4>5
    <3> QED BY <3>3, <3>4
  <2>2. CASE s \notin k.choices /\ s \in DOMAIN f /\ f[s] # Empty
    <3>1. u[s] = [has |-> TRUE, val |-> f[s], pick |-> NoSym]
      BY <2>2 DEF ReadSimple, Unset
    <3>2. SettingOK(k, s, TRUE, f[s], NoSym)
      BY <2>2 DEF LinesOK, Line, SettingOK
    <3> QED BY <3>1, <3>2
  <2>3. CASE s \notin k.choices /\ ~(s \in DOMAIN f /\ f[s] # Empty)
    <3>1. u[s] = Unset(s)
      BY <2>3 DEF ReadSimple
    <3> HIDE DEF u
    <3> QED BY <3>1, UnsetOK
  <2> QED BY <2>1, <2>2, <2>3
<1> HIDE DEF u
<1> QED BY <1>1, SettingsOK DEF u

\* What conf_read keeps of what it has read of s.
Keeps(k, u, d, s) ==
  /\ u[s].has
  /\ s \in k.choices => \A x \in k.syms : k.of[x] = s /\ d.vis[x] # 0 => u[x].has
  /\ k.of[s] = NoSym => (d.vis[s] # 0 \/ Unsaved(k, u, d) # {})
  /\ s \in IntSyms => IntInRange(k, d, s, u[s].val)

\* What conf_read does then to a symbol: it may take its value as not given.
LEMMA CheckedKeeps ==
  ASSUME NEW k, NEW f, NEW u, NEW d, NEW s \in k.syms
  PROVE  Checked(k, f, u, d).user[s] = [u[s] EXCEPT !.has = Keeps(k, u, d, s)]
BY DEF Checked, Keeps

LEMMA CheckedOK ==
  ASSUME NEW k, Fits(k), NEW f, NEW u, UserOK(k, u), NEW d
  PROVE  /\ UserOK(k, Checked(k, f, u, d).user)
         /\ \A s \in k.syms :
              LET w == Checked(k, f, u, d).user[s] IN w.val = u[s].val /\ w.pick = u[s].pick /\ (w.has => u[s].has)
<1> DEFINE w == Checked(k, f, u, d).user
<1>1. ASSUME NEW s \in k.syms
      PROVE  \E keep \in BOOLEAN : w[s] = [u[s] EXCEPT !.has = keep] /\ (keep => u[s].has)
  <2>1. w[s] = [u[s] EXCEPT !.has = Keeps(k, u, d, s)]
    BY CheckedKeeps
  <2>2. Keeps(k, u, d, s) \in BOOLEAN /\ (Keeps(k, u, d, s) => u[s].has)
    BY DEF Keeps
  <2> HIDE DEF w
  <2> QED BY <2>1, <2>2
<1> HIDE DEF w
<1>2. ASSUME NEW s \in k.syms
      PROVE  \E has, val, pick :
               /\ SettingOK(k, s, has, val, pick) /\ w[s] = [has |-> has, val |-> val, pick |-> pick]
               /\ w[s].val = u[s].val /\ w[s].pick = u[s].pick /\ (w[s].has => u[s].has)
  <2>1. PICK has, val, pick : SettingOK(k, s, has, val, pick) /\ u[s] = [has |-> has, val |-> val, pick |-> pick]
    BY SettingIs
  <2>2. PICK keep \in BOOLEAN : w[s] = [u[s] EXCEPT !.has = keep] /\ (keep => u[s].has)
    BY <1>1
  <2>3. w[s] = [has |-> keep, val |-> val, pick |-> pick]
    BY <2>1, <2>2
  <2>4. keep => has
    BY <2>1, <2>2
  <2>5. SettingOK(k, s, keep, val, pick)
    BY <2>1, <2>4 DEF SettingOK
  <2>6. w[s].val = u[s].val /\ w[s].pick = u[s].pick /\ (w[s].has => u[s].has)
    BY <2>1, <2>2, <2>3
  <2> QED BY <2>3, <2>5, <2>6
<1>a. \A s \in k.syms : \E has, val, pick :
         SettingOK(k, s, has, val, pick) /\ w[s] = [has |-> has, val |-> val, pick |-> pick]
  BY <1>2
<1>3. UserOK(k, w)
  BY <1>a, SettingsOK
<1> QED BY <1>2, <1>3 DEF w

\* The values of a calculation, and what is written, by the kind of the symbol.
LEMMA CalcTyped ==
  ASSUME NEW k, Fits(k), NEW u, UserOK(k, u), NEW d, IsCalculation(k, u, d), NEW s \in k.syms
  PROVE  /\ Line(s, d.cur[s])
         /\ s \in IntSyms => d.cur[s] \in Nat \cup {Empty} /\ Clamp(k.entry[s], Env(k, d.cur), d.cur[s]) = d.cur[s]
         /\ k.of[s] = NoSym /\ d.vis[s] # 0 => d.write[s]
<1> DEFINE env == Env(k, d.cur)
           f == SeenAs(k, d)
           e == k.entry[s]
           x == Found(k, env, s)
           t == Tri(e, u[s], env, x)
           r == BySymbol(k, d)
           p == PickOf(k, u, env, s, t)
<1>1. f \in Values(k) /\ env = Env(k, f)
  BY EnvIs
<1>2. /\ CalcValue(k, u, r, env, s) = r[s] /\ r[s] = ValueOf(k, u, r, env, s, x, t, p)
      /\ d.vis[s] = x.vis /\ d.rev[s] = x.rev /\ d.pick[s] = p
      /\ d.cur[s] = r[s].cur /\ d.write[s] = r[s].write
  BY FieldsOf
<1>3. x.n # 0 => x.n \in DOMAIN e.defs
  BY <1>1, FoundRange
<1>4. k.of[s] = NoSym /\ d.vis[s] # 0 => d.write[s]
  <2> HIDE DEF x, t, p, r, env
  <2> QED BY <1>2 DEF ValueOf
<1>5. CASE s \in IntSyms
  <2> DEFINE v == IF Mine(u[s], x) THEN u[s].val ELSE IF x.n # 0 THEN e.defs[x.n].val ELSE Empty
  <2>1. v \in Nat \cup {Empty}
    BY <1>3, <1>5 DEF UserOK, Fits, WellTyped
  <2>2. d.cur[s] = Clamp(e, env, v)
    BY <1>2, <1>5 DEF ValueOf, Number
  <2> HIDE DEF x, t, p, r, env, v
  <2>3. d.cur[s] \in Nat \cup {Empty} /\ Clamp(e, env, d.cur[s]) = d.cur[s]
    BY <2>1, <2>2, <1>5, ClampTwice
  <2> QED BY <1>4, <1>5, <2>3 DEF Line, env
<1>6. CASE s \notin IntSyms
  BY <1>4, <1>6 DEF Line, IsCalculation
<1> QED BY <1>5, <1>6

\* A choice that has chosen is "y", and its members are "n" but the chosen one;
\* all of them are written.  It has chosen where a member can be seen.
LEMMA ChoiceSet ==
  ASSUME NEW k, Fits(k), NEW u, UserOK(k, u), NEW d, IsCalculation(k, u, d), NEW ch \in k.choices
  PROVE  /\ d.pick[ch] # NoSym =>
              /\ d.pick[ch] \in k.syms /\ k.of[d.pick[ch]] = ch
              /\ \A s \in k.syms : k.of[s] = ch => d.write[s] /\ (d.cur[s] = 2 <=> s = d.pick[ch])
         /\ \A s \in k.syms : k.of[s] = ch /\ d.vis[s] # 0 => d.pick[ch] # NoSym
<1> DEFINE env == Env(k, d.cur)
           f == SeenAs(k, d)
           x == Found(k, env, ch)
           t == Tri(k.entry[ch], u[ch], env, x)
           r == BySymbol(k, d)
           p == PickOf(k, u, env, ch, t)
<1>0. ch \in k.syms /\ ch \notin IntSyms /\ k.of[ch] = NoSym /\ ch \notin DOMAIN Constants
  BY DEF Fits, WellTyped, Choosing
<1>1. f \in Values(k) /\ env = Env(k, f) /\ f[ch] = d.cur[ch]
  BY <1>0, EnvIs DEF SeenAs
<1>2. /\ CalcValue(k, u, r, env, ch) = r[ch] /\ r[ch] = ValueOf(k, u, r, env, ch, x, t, p)
      /\ d.vis[ch] = x.vis /\ d.rev[ch] = x.rev /\ d.pick[ch] = p
      /\ d.cur[ch] = r[ch].cur /\ d.write[ch] = r[ch].write
  BY <1>0, FieldsOf
<1>a. r[ch].pick = d.pick[ch]
  BY <1>0 DEF BySymbol
<1>3. /\ x.vis \in {0, 2} /\ x.rev \in {0, 2} /\ x.n = 0
      /\ x.vis # 0 => x.rev = 2
  BY <1>0, <1>1, FoundRange
<1>4. d.cur[ch] = IF p = NoSym THEN 0 ELSE t
  <2> HIDE DEF x, t, p, r, env
  <2> QED BY <1>0, <1>2 DEF ValueOf
<1>5. ASSUME p # NoSym
      PROVE  t = 2 /\ d.cur[ch] = 2 /\ d.write[ch] /\ p \in Showing(k, env, ch)
  <2>1. t = 2
    BY <1>5 DEF PickOf
  <2>2. d.cur[ch] = 2
    BY <1>4, <1>5, <2>1
  <2>3. x.vis # 0 \/ x.rev # 0
    <3> SUFFICES ASSUME x.vis = 0, x.rev = 0
                 PROVE  FALSE
      OBVIOUS
    <3>1. t = Bool(Most(0, 0))
      BY <1>3 DEF Tri, Mine
    <3> QED BY <2>1, <3>1 DEF Bool, Most
  <2>4. d.write[ch]
    <3> HIDE DEF x, t, p, r, env
    <3> QED BY <1>0, <1>2, <2>3 DEF ValueOf
  <2>5. p = Choose(k, u[ch].pick, ch, Showing(k, env, ch), Defaulting(k, env, ch))
    BY <2>1, PickedIs DEF PickOf
  <2>6. p \in Showing(k, env, ch)
    <3>1. PICK showing, defaulting : showing = Showing(k, env, ch) /\ defaulting = Defaulting(k, env, ch)
      OBVIOUS
    <3>2. showing \subseteq {y \in k.syms : k.of[y] = ch} /\ defaulting \in SUBSET DOMAIN k.entry[ch].defs
      BY <3>1 DEF Showing, Defaulting
    <3> HIDE DEF p
    <3>3. p = Choose(k, u[ch].pick, ch, showing, defaulting)
      BY <2>5, <3>1
    <3>4. p \in showing
      BY <1>5, <3>2, <3>3, ChooseKept
    <3> QED BY <3>1, <3>4
  <2> QED BY <2>1, <2>2, <2>4, <2>6
<1>6. ASSUME NEW s \in k.syms, k.of[s] = ch
      PROVE  /\ d.vis[s] = Visible(k.entry[s], env) /\ d.vis[s] \in {0, 2}
             /\ d.vis[s] = 2 => d.cur[s] = IF d.pick[ch] = s THEN 2 ELSE 0
             /\ d.vis[s] = 0 => d.cur[s] = 0
             /\ d.write[ch] => d.write[s]
  <2> DEFINE y == Found(k, env, s)
             z == Tri(k.entry[s], u[s], env, y)
             q == PickOf(k, u, env, s, z)
  <2>1. /\ CalcValue(k, u, r, env, s) = r[s] /\ r[s] = ValueOf(k, u, r, env, s, y, z, q)
        /\ d.vis[s] = y.vis /\ d.rev[s] = y.rev /\ d.pick[s] = q
        /\ d.cur[s] = r[s].cur /\ d.write[s] = r[s].write
    BY FieldsOf
  <2>2. s \notin IntSyms /\ s \notin k.choices /\ ch # NoSym
    BY <1>0, <1>6 DEF Fits, WellTyped, Choosing
  <2>3. y.vis \in {0, 2} /\ y.rev = 0 /\ y.n = 0
    BY <1>1, <1>6, <2>2, FoundRange
  <2>4. y.vis = Visible(k.entry[s], env)
    BY DEF Found
  <2>5. y.vis = 0 => z = 0
    <3>1. y.vis = 0 => z = Bool(Most(0, 0))
      BY <2>3 DEF Tri, Mine
    <3> QED BY <3>1 DEF Bool, Most
  <2> HIDE DEF y, z, q, r, env
  <2>6. r[s].cur = IF y.vis = 2 THEN (IF r[ch].pick = s THEN 2 ELSE 0) ELSE z
    BY <1>6, <2>1, <2>2 DEF ValueOf
  <2>7. r[ch].write => r[s].write
    BY <1>6, <2>1, <2>2 DEF ValueOf
  <2>8. r[ch].write = d.write[ch]
    BY <1>2
  <2> QED BY <1>a, <2>1, <2>3, <2>4, <2>5, <2>6, <2>7, <2>8
<1>7. ASSUME d.pick[ch] # NoSym
      PROVE  /\ d.pick[ch] \in k.syms /\ k.of[d.pick[ch]] = ch
             /\ \A s \in k.syms : k.of[s] = ch => d.write[s] /\ (d.cur[s] = 2 <=> s = d.pick[ch])
  <2>1. p = d.pick[ch] /\ d.cur[ch] = 2 /\ d.write[ch] /\ d.pick[ch] \in Showing(k, env, ch)
    BY <1>2, <1>5, <1>7
  <2>2. [env EXCEPT ![ch] = 2] = env
    <3>1. env[ch] = 2
      BY <1>0, <2>1 DEF Env
    <3> QED BY <3>1 DEF Env
  <2>3. d.pick[ch] \in k.syms /\ k.of[d.pick[ch]] = ch /\ Visible(k.entry[d.pick[ch]], env) # 0
    BY <2>1, <2>2 DEF Showing
  <2> HIDE DEF env
  <2> QED BY <1>6, <2>1, <2>3
<1>8. ASSUME NEW s \in k.syms, k.of[s] = ch, d.vis[s] # 0
      PROVE  d.pick[ch] # NoSym
  <2>1. Visible(k.entry[s], Env(k, f)) # 0
    BY <1>1, <1>6, <1>8
  <2>2. f[ch] # 0
    BY <1>0, <1>1, <1>8, <2>1 DEF Fits, Choosing, WellTyped
  <2> QED BY <1>1, <1>2, <1>4, <2>2
<1> QED BY <1>7, <1>8

\* What conf_write leaves of a calculation: all that is written, as it is.
Saved(k, d, f) ==
  /\ \A s \in k.syms \ k.choices : d.write[s] => s \in DOMAIN f
  /\ \A s \in k.syms \ k.choices : s \in DOMAIN f => f[s] = d.cur[s]

\* What is read of a file that conf_write left agrees with what was saved, and
\* what has a value there need not be asked for.
LEMMA SavedAgrees ==
  ASSUME NEW k, Fits(k), NEW u, UserOK(k, u), NEW d, IsCalculation(k, u, d), NEW f, Saved(k, d, f),
         NEW simple, simple = ReadSimple(k, f)
  PROVE  /\ UserOK(k, simple) /\ Agrees(k, d, simple)
         /\ \A s \in k.syms : d.vis[s] # 0 /\ d.cur[s] # Empty => simple[s].has
<1>1. UserOK(k, simple)
  <2>1. LinesOK(k, f)
    BY CalcTyped DEF LinesOK, Saved
  <2> QED BY <2>1, ReadOK
<1>2. ASSUME NEW s \in k.syms \ k.choices, d.write[s]
      PROVE  /\ d.cur[s] # Empty => simple[s].has /\ simple[s].val = d.cur[s]
             /\ d.cur[s] = Empty => ~simple[s].has
  <2>1. s \in DOMAIN f /\ f[s] = d.cur[s]
    BY <1>2 DEF Saved
  <2>2. PICK v : v = d.cur[s]
    OBVIOUS
  <2>3. CASE v # Empty
    <3>1. simple[s] = [has |-> TRUE, val |-> v, pick |-> NoSym]
      BY <2>1, <2>2, <2>3 DEF ReadSimple, Unset
    <3> QED BY <2>2, <2>3, <3>1
  <2>4. CASE v = Empty
    <3>1. simple[s] = Unset(s)
      BY <2>1, <2>2, <2>4 DEF ReadSimple
    <3>2. ~Unset(s).has
      BY DEF Unset
    <3> QED BY <2>2, <2>4, <3>1, <3>2
  <2> QED BY <2>3, <2>4
<1>3. ASSUME NEW s \in k.syms \ k.choices, d.write[s]
      PROVE  /\ d.cur[s] # Empty => simple[s].has /\ simple[s].val = d.cur[s]
             /\ d.cur[s] = Empty => ~simple[s].has
  BY <1>2, <1>3
<1>4. ASSUME NEW s \in k.syms \ k.choices
      PROVE  s \notin IntSyms => d.cur[s] # Empty
  BY DEF IsCalculation, Empty
<1>5. ASSUME NEW s \in k.syms
      PROVE  s \in IntSyms \/ s \in k.choices => k.of[s] = NoSym
  BY DEF Fits, Choosing
<1>6. ASSUME NEW s \in k.syms \ k.choices, d.vis[s] # 0
      PROVE  d.write[s]
  <2>1. CASE k.of[s] = NoSym
    BY <1>6, <2>1, CalcTyped
  <2>2. CASE k.of[s] # NoSym
    <3>1. PICK ch \in k.choices : k.of[s] = ch
      BY <2>2 DEF Fits, Choosing
    <3> QED BY <1>6, <3>1, ChoiceSet
  <2> QED BY <2>1, <2>2
<1>7. ASSUME NEW ch \in k.choices
      PROVE  simple[ch].has /\ (d.pick[ch] # NoSym => simple[ch].pick = d.pick[ch])
  <2>1. simple[ch] = ChoiceIn(k, f, ch)
    BY DEF ReadSimple, Fits, WellTyped
  <2>2. ASSUME d.pick[ch] # NoSym
        PROVE  simple[ch].pick = d.pick[ch]
    <3> DEFINE p == d.pick[ch]
    <3>1. /\ p \in k.syms /\ k.of[p] = ch
          /\ \A s \in k.syms : k.of[s] = ch => d.write[s] /\ (d.cur[s] = 2 <=> s = p)
      BY <2>2, ChoiceSet
    <3>2. \A s \in k.syms : k.of[s] = ch => s \in DOMAIN f /\ f[s] = d.cur[s]
      <4>1. \A s \in k.syms : k.of[s] = ch => s \notin k.choices
        BY DEF Fits, Choosing, WellTyped
      <4> QED BY <3>1, <4>1 DEF Saved
    <3>3. YesIn(k, f, ch) = {n \in DOMAIN k.members[ch] : k.members[ch][n] = p}
      BY <3>1, <3>2 DEF YesIn, Fits, Choosing
    <3>4. YesIn(k, f, ch) # {}
      BY <3>1, <3>3 DEF Fits, Choosing
    <3>5. Len(k.members[ch]) \in Nat /\ YesIn(k, f, ch) \subseteq 1..Len(k.members[ch])
      BY DEF YesIn, Fits, Choosing
    <3>6. Max(YesIn(k, f, ch)) \in YesIn(k, f, ch)
      BY <3>4, <3>5, MaxIn
    <3>7. k.members[ch][Max(YesIn(k, f, ch))] = p
      BY <3>3, <3>6
    <3> QED BY <2>1, <3>4, <3>7 DEF ChoiceIn
  <2>3. simple[ch].has
    BY <2>1 DEF ChoiceIn
  <2> QED BY <2>2, <2>3
<1>8. Agrees(k, d, simple)
  <2>1. ASSUME NEW s \in k.syms, s \notin k.choices, d.vis[s] # 0
        PROVE  \/ simple[s].has /\ simple[s].val = d.cur[s]
               \/ s \in IntSyms /\ ~simple[s].has /\ d.cur[s] = Empty
    BY <1>3, <1>4, <1>6, <2>1
  <2>2. \A s \in IntSyms : s \notin k.choices
    BY DEF Fits, WellTyped
  <2> QED BY <1>7, <2>1, <2>2 DEF Agrees
<1>9. \A s \in k.syms : d.vis[s] # 0 /\ d.cur[s] # Empty => simple[s].has
  BY <1>3, <1>6, <1>7
<1> QED BY <1>1, <1>8, <1>9

\* Nor does conf_read lose any of that.
LEMMA KeptAgrees ==
  ASSUME NEW k, Fits(k), NEW u, UserOK(k, u), NEW d, IsCalculation(k, u, d), NEW f,
         NEW simple, UserOK(k, simple), Agrees(k, d, simple),
         NEW w, w = Checked(k, f, simple, d).user
  PROVE  /\ UserOK(k, w) /\ Agrees(k, d, w)
         /\ (\A s \in k.syms : d.vis[s] # 0 /\ d.cur[s] # Empty => simple[s].has)
              => (\A s \in k.syms : d.vis[s] # 0 /\ d.cur[s] # Empty => w[s].has)
<1>1. /\ UserOK(k, w)
      /\ \A s \in k.syms : w[s].val = simple[s].val /\ w[s].pick = simple[s].pick /\ (w[s].has => simple[s].has)
  BY CheckedOK
<1>2. ASSUME NEW s \in k.syms
      PROVE  w[s].has = Keeps(k, simple, d, s)
  <2>1. w[s] = [simple[s] EXCEPT !.has = Keeps(k, simple, d, s)]
    BY CheckedKeeps
  <2>0. PICK x : x = simple[s]
    OBVIOUS
  <2>2. PICK has, val, pick : SettingOK(k, s, has, val, pick) /\ x = [has |-> has, val |-> val, pick |-> pick]
    BY <2>0, SettingIs
  <2>3. PICK keep \in BOOLEAN : keep = Keeps(k, simple, d, s)
    BY DEF Keeps
  <2>a. w[s] = [x EXCEPT !.has = keep]
    BY <2>0, <2>1, <2>3
  <2>4. w[s] = [has |-> keep, val |-> val, pick |-> pick]
    BY <2>a, <2>2
  <2> QED BY <2>3, <2>4
<1>3. ASSUME NEW s \in k.syms, s \notin k.choices, d.vis[s] # 0, simple[s].has
      PROVE  w[s].has
  <2>1. s \in IntSyms => IntInRange(k, d, s, simple[s].val)
    <3>1. ASSUME s \in IntSyms
          PROVE  simple[s].val # Empty /\ simple[s].val = d.cur[s]
      BY <1>3, <3>1 DEF UserOK, Agrees
    <3>2. s \in IntSyms => Clamp(k.entry[s], Env(k, d.cur), d.cur[s]) = d.cur[s]
      BY CalcTyped
    <3> QED BY <3>1, <3>2 DEF IntInRange
  <2> QED BY <1>2, <1>3, <2>1 DEF Keeps
<1>4. Agrees(k, d, w)
  <2>1. ASSUME NEW s \in k.syms, s \notin k.choices, d.vis[s] # 0,
               \/ simple[s].has /\ simple[s].val = d.cur[s]
               \/ s \in IntSyms /\ ~simple[s].has /\ d.cur[s] = Empty
        PROVE  \/ w[s].has /\ w[s].val = d.cur[s]
               \/ s \in IntSyms /\ ~w[s].has /\ d.cur[s] = Empty
    BY <1>1, <1>3, <2>1
  <2>2. \A s \in IntSyms : s \notin k.choices
    BY DEF Fits, WellTyped
  <2>3. ASSUME NEW s \in k.syms, s \in k.choices, d.pick[s] # NoSym
        PROVE  w[s].pick = d.pick[s]
    BY <1>1, <2>3 DEF Agrees
  <2>4. ASSUME NEW s \in k.syms, s \in IntSyms, d.vis[s] # 0
        PROVE  \/ w[s].has /\ w[s].val = d.cur[s]
               \/ ~w[s].has /\ d.cur[s] = Empty
    BY <2>1, <2>2, <2>4 DEF Agrees
  <2>5. ASSUME NEW s \in k.syms, s \notin IntSyms, s \notin k.choices, k.of[s] = NoSym, d.vis[s] # 0
        PROVE  w[s].has /\ w[s].val = d.cur[s]
    BY <2>1, <2>5 DEF Agrees
  <2> QED BY <2>3, <2>4, <2>5 DEF Agrees
<1>5. ASSUME \A s \in k.syms : d.vis[s] # 0 /\ d.cur[s] # Empty => simple[s].has,
             NEW s \in k.syms, d.vis[s] # 0, d.cur[s] # Empty
      PROVE  w[s].has
  <2>1. CASE s \notin k.choices
    BY <1>3, <1>5, <2>1
  <2>2. CASE s \in k.choices
    <3>1. \A x \in k.syms : k.of[x] = s /\ d.vis[x] # 0 => simple[x].has
      <4>1. ASSUME NEW x \in k.syms, k.of[x] = s, d.vis[x] # 0
            PROVE  simple[x].has
        <5>1. x \notin IntSyms
          BY <2>2, <4>1 DEF Fits, WellTyped, Choosing
        <5>2. d.cur[x] # Empty
          BY <5>1 DEF IsCalculation, Empty
        <5> QED BY <1>5, <4>1, <5>2
      <4> QED BY <4>1
    <3>2. s \notin IntSyms
      BY <2>2 DEF Fits, WellTyped
    <3> QED BY <1>2, <1>5, <3>1, <3>2 DEF Keeps
  <2> QED BY <2>1, <2>2
<1> QED BY <1>1, <1>4, <1>5

------------------------------------------------------------------------------
(* check_conf: everything is asked                                           *)

\* The description in force is one that conf_parse accepts.
InForce == kc \in DOMAIN Trees /\ K = conf_parse(Trees[kc]) /\ sym_check_deps(K)

\* Entry id can be seen, is no open question, is still to be come to.
Seen(id) == \A x \in Within(id) : CanSee(MenuOf(x))
Answered(id) == IsSymbol(MenuOf(id)) => ~IsNew(MenuOf(id).sym)
Coming(id) == \E n \in DOMAIN todo : todo[n][2] \in Within(id)

\* While a round of check_conf has found nothing new, every entry that can be
\* seen is answered or is still to come, below one that is in todo.
RoundInv ==
  /\ InForce
  /\ prog = "edit" => mode = "edit"
  /\ prog = "ask" => mode \in {"all", "silent"}
  /\ prog = "ask" /\ mode = "silent" /\ ~again =>
       /\ todo \in Seq({"check"} \X DOMAIN K.above)
       /\ \A id \in DOMAIN K.above : Seen(id) => Answered(id) \/ Coming(id)
  /\ prog = "write" /\ mode = "silent" => \A id \in DOMAIN K.above : Seen(id) => Answered(id)

\* What that says of it.
LEMMA InForceFacts ==
  InForce => Nested(K) /\ WellTyped(K) /\ Choosing(K) /\ Acyclic(K)
BY DescriptionAssumption DEF InForce, DescriptionAssumption

\* What MenuOf finds has the id it was looked for by.
LEMMA MenuFound ==
  ASSUME InForce, NEW id \in DOMAIN K.above
  PROVE  \E n \in DOMAIN K.menus : K.menus[n] = MenuOf(id) /\ K.menus[n].id = id
<1>1. DOMAIN K.above = {K.menus[n].id : n \in DOMAIN K.menus}
  BY InForceFacts DEF Nested
<1>2. PICK n \in DOMAIN K.menus : K.menus[n].id = id
  BY <1>1
<1>3. (CHOOSE i \in DOMAIN K.menus : K.menus[i].id = id) \in DOMAIN K.menus
      /\ K.menus[CHOOSE i \in DOMAIN K.menus : K.menus[i].id = id].id = id
  BY <1>2
<1> QED BY <1>3 DEF MenuOf

\* And it finds every entry by its id.
LEMMA MenuIs ==
  ASSUME InForce, NEW n \in DOMAIN K.menus
  PROVE  MenuOf(K.menus[n].id) = K.menus[n]
<1>1. K.menus[n].id \in DOMAIN K.above
  BY InForceFacts DEF Nested
<1>2. PICK i \in DOMAIN K.menus : K.menus[i] = MenuOf(K.menus[n].id) /\ K.menus[i].id = K.menus[n].id
  BY <1>1, MenuFound
<1>3. i = n
  BY <1>2, InForceFacts DEF Nested
<1> QED BY <1>2, <1>3

\* What stands in an entry stands in one of its list, or is one of them.
LEMMA KidsCover ==
  ASSUME InForce, NEW h \in DOMAIN K.above, NEW id \in DOMAIN K.above, h \in K.above[id]
  PROVE  \E i \in DOMAIN MenuOf(h).list : MenuOf(h).list[i].id \in Within(id)
<1>1. PICK n \in DOMAIN K.menus : K.menus[n] = MenuOf(h) /\ K.menus[n].id = h
  BY MenuFound
<1> QED BY <1>1, InForceFacts DEF Nested, Within

\* The list of an entry is a sequence of entries.
LEMMA KidsKnown ==
  ASSUME InForce, NEW h \in DOMAIN K.above
  PROVE  /\ Len(MenuOf(h).list) \in Nat /\ DOMAIN MenuOf(h).list = 1..Len(MenuOf(h).list)
         /\ \A i \in DOMAIN MenuOf(h).list : MenuOf(h).list[i].id \in DOMAIN K.above
<1>1. PICK n \in DOMAIN K.menus : K.menus[n] = MenuOf(h) /\ K.menus[n].id = h
  BY MenuFound
<1>2. ASSUME NEW i \in DOMAIN MenuOf(h).list
      PROVE  MenuOf(h).list[i].id \in DOMAIN K.above
  <2>1. PICK x \in DOMAIN K.menus : MenuOf(h).list[i] = K.menus[x]
    BY <1>1, InForceFacts DEF Nested
  <2> QED BY <2>1, InForceFacts DEF Nested
<1> QED BY <1>1, <1>2, InForceFacts DEF Nested

\* What can be seen and what is answered is of the description and the values.
LEMMA SameSeen ==
  ASSUME UNCHANGED <<K, user, c>>, NEW id
  PROVE  (Seen(id))' = Seen(id) /\ (Answered(id))' = Answered(id) /\ (Within(id))' = Within(id)
<1>1. ASSUME NEW x
      PROVE  (MenuOf(x))' = MenuOf(x)
  BY DEF MenuOf
<1>2. ASSUME NEW m
      PROVE  (CanSee(m))' = CanSee(m) /\ (IsNew(m))' = IsNew(m)
  BY DEF CanSee, IsNew, Changable
<1>3. (Within(id))' = Within(id)
  BY DEF Within
<1>4. ASSUME NEW x
      PROVE  (CanSee(MenuOf(x)))' = CanSee(MenuOf(x))
  BY <1>1, <1>2 DEF CanSee
<1>5. (IsNew(MenuOf(id).sym))' = IsNew(MenuOf(id).sym)
  BY <1>1, <1>2 DEF IsNew, Changable
<1> QED BY <1>1, <1>3, <1>4, <1>5 DEF Seen, Answered

\* What Then leaves in todo.
Leaves(old, rest, new) ==
  /\ \A n \in DOMAIN rest : \E i \in DOMAIN new : new[i] = rest[n]
  /\ \A n \in DOMAIN old : n # 1 => \E i \in DOMAIN new : new[i] = old[n]
LEMMA ThenHas ==
  ASSUME NEW S, NEW old \in Seq(S), old # <<>>, NEW rest \in Seq(S), NEW new, new = rest \o Tail(old)
  PROVE  new \in Seq(S) /\ Leaves(old, rest, new)
<1>1. new \in Seq(S)
  OBVIOUS
<1>2. ASSUME NEW n \in DOMAIN rest
      PROVE  \E i \in DOMAIN new : new[i] = rest[n]
  <2>1. n \in 1..(Len(rest) + Len(Tail(old))) /\ n <= Len(rest)
    OBVIOUS
  <2>2. n \in DOMAIN new /\ new[n] = rest[n]
    BY <2>1
  <2> QED BY <2>2
<1>3. ASSUME NEW n \in DOMAIN old, n # 1
      PROVE  \E i \in DOMAIN new : new[i] = old[n]
  <2>0. Len(old) \in Nat /\ n \in 1..Len(old)
    OBVIOUS
  <2>a. Tail(old) \in Seq(S) /\ Len(Tail(old)) = Len(old) - 1
    BY HeadTailProperties
  <2>b. n - 1 \in 1..Len(Tail(old)) /\ (n - 1) + 1 = n
    BY <2>0, <2>a, <1>3
  <2>1. Tail(old) \in Seq(S) /\ Len(Tail(old)) = Len(old) - 1 /\ n - 1 \in 1..Len(Tail(old)) /\ Tail(old)[n - 1] = old[n]
    BY <2>a, <2>b, HeadTailProperties
  <2> DEFINE i == Len(rest) + (n - 1)
  <2>2. i \in 1..(Len(rest) + Len(Tail(old))) /\ i > Len(rest) /\ i - Len(rest) = n - 1
    BY <2>1
  <2>3. i \in DOMAIN new /\ new[i] = Tail(old)[i - Len(rest)]
    BY <2>1, <2>2
  <2> QED BY <2>1, <2>2, <2>3
<1> QED BY <1>1, <1>2, <1>3 DEF Leaves

\* A step of check_conf over an entry with nothing new.
LEMMA CheckRounds ==
  ASSUME RoundInv, Ask, Check, prog = "ask", mode = "silent", todo # <<>>, ~again'
  PROVE  /\ todo' \in Seq({"check"} \X DOMAIN K.above)
         /\ \A id \in DOMAIN K.above : Seen(id) => Answered(id) \/ (Coming(id))'
<1> DEFINE h == Head(todo)[2]
           m == MenuOf(h)
           new == IsSymbol(m) /\ IsNew(m.sym)
<1>1. InForce
  BY DEF RoundInv
<1>2. ~again
  BY DEF Check
<1>3. todo \in Seq({"check"} \X DOMAIN K.above)
  BY <1>2 DEF RoundInv
<1>4. h \in DOMAIN K.above /\ todo[1] = Head(todo) /\ 1 \in DOMAIN todo
  BY <1>3
<1> DEFINE kids == Kids("check", m)
           rest == IF CanSee(m) THEN kids ELSE <<>>
<1> HIDE DEF h
<1>k. kids \in Seq({"check"} \X DOMAIN K.above)
      /\ \A i \in DOMAIN m.list : i \in DOMAIN kids /\ kids[i][2] = m.list[i].id
  BY <1>1, <1>4, KidsKnown DEF Kids
<1>5. todo' = rest \o Tail(todo) /\ (CanSee(m) => ~new)
  <2>1. CASE ~CanSee(m)
    BY <2>1 DEF Check, Then, h
  <2>2. CASE CanSee(m)
    <3>1. ~new
      BY <1>2, <2>2 DEF Check, h
    <3>2. <<>> \o kids = kids
      BY <1>k
    <3>3. todo' = (IF new THEN <<<<"conf", ParentMenu(m.id)>>>> ELSE <<>>) \o kids \o Tail(todo)
      BY <2>2 DEF Check, Then, h
    <3>4. todo' = (<<>> \o kids) \o Tail(todo)
      BY <3>1, <3>3
    <3> QED BY <2>2, <3>1, <3>2, <3>4
  <2> QED BY <2>1, <2>2
<1>6. rest \in Seq({"check"} \X DOMAIN K.above)
  BY <1>k
<1> HIDE DEF rest, kids, new, m
<1>7. /\ todo' \in Seq({"check"} \X DOMAIN K.above)
      /\ \A n \in DOMAIN rest : \E i \in DOMAIN todo' : todo'[i] = rest[n]
      /\ \A n \in DOMAIN todo : n # 1 => \E i \in DOMAIN todo' : todo'[i] = todo[n]
  <2> DEFINE S == {"check"} \X DOMAIN K.above
  <2>1. PICK old, left, after : old = todo /\ left = rest /\ after = todo'
    OBVIOUS
  <2>3. old \in Seq(S) /\ old # <<>> /\ left \in Seq(S) /\ after = left \o Tail(old)
    BY <1>3, <1>5, <1>6, <2>1
  <2> HIDE DEF S
  <2>2. /\ after \in Seq(S)
        /\ Leaves(old, left, after)
    BY <2>3, ThenHas
  <2> QED BY <2>1, <2>2 DEF S, Leaves
<1>8. UNCHANGED <<K, user, c>>
  BY DEF Check, Ask, Same
<1>9. ASSUME NEW id \in DOMAIN K.above, Seen(id)
      PROVE  Answered(id) \/ (Coming(id))'
  <2>1. Answered(id) \/ Coming(id)
    BY <1>2, <1>9 DEF RoundInv
  <2>2. Within(id)' = Within(id)
    BY <1>8 DEF Within
  <2>3. CASE \E n \in DOMAIN todo : n # 1 /\ todo[n][2] \in Within(id)
    BY <2>3, <2>2, <1>7 DEF Coming
  <2>4. CASE h \in Within(id)
    <3>0. CanSee(m)
      BY <2>4, <1>9 DEF Seen, m
    <3>1. CASE h = id
      BY <3>0, <3>1, <1>5 DEF Answered, new, m
    <3>2. CASE h \in K.above[id]
      <4>1. PICK i \in DOMAIN m.list : m.list[i].id \in Within(id)
        BY <1>1, <1>4, <3>2, KidsCover DEF m
      <4>2. i \in DOMAIN rest /\ rest[i][2] \in Within(id)
        BY <4>1, <1>k, <3>0 DEF rest
      <4>3. PICK n \in DOMAIN todo' : todo'[n] = rest[i]
        BY <4>2, <1>7
      <4> QED BY <4>2, <4>3, <2>2 DEF Coming
    <3> QED BY <2>4, <3>1, <3>2 DEF Within
  <2> QED BY <2>1, <2>3, <2>4, <1>4 DEF Coming, h
<1> QED BY <1>7, <1>9

\* A round of check_conf begins with all there is.
LEMMA RoundStarts ==
  ASSUME InForce, UNCHANGED <<kc, K>>, prog' = "ask", mode' = "silent", todo' = <<<<"check", Root>>>>
  PROVE  RoundInv'
<1>1. InForce'
  BY DEF InForce
<1>2. Root \in DOMAIN K.above /\ \A id \in DOMAIN K.above : Root \in Within(id)
  <2>1. PICK n \in DOMAIN K.menus : K.menus[n].id = Root
    BY InForceFacts DEF Nested, Root
  <2>2. Root \in DOMAIN K.above
    BY <2>1, InForceFacts DEF Nested
  <2>3. \A id \in DOMAIN K.above \ {Root} : Root \in K.above[id]
    BY InForceFacts DEF Nested, Root
  <2> QED BY <2>2, <2>3 DEF Within
<1>3. (todo \in Seq({"check"} \X DOMAIN K.above))'
  BY <1>2
<1>4. ASSUME NEW id \in DOMAIN K.above
      PROVE  (Coming(id))'
  <2>1. 1 \in DOMAIN todo' /\ todo'[1][2] = Root
    OBVIOUS
  <2> QED BY <2>1, <1>2 DEF Coming, Within
<1> QED BY <1>1, <1>3, <1>4 DEF RoundInv

\* When conf -o writes, and conf after its first round, every symbol that can be
\* seen and set has a value of the user's: check_conf goes round until it finds
\* none that has not, and an answer may make others new, but not in a round that
\* found nothing.
THEOREM EverythingIsAsked == Spec => []AllAnswered
<1>1. Init => RoundInv
  BY DEF Init, RoundInv, InForce
<1>2. RoundInv /\ [Next]_vars => RoundInv'
  <2> SUFFICES ASSUME RoundInv, [Next]_vars
               PROVE  RoundInv'
    OBVIOUS
  <2>i. InForce
    BY DEF RoundInv
  <2> DEFINE Idles == prog' \notin {"edit", "ask", "write"}
  <2>1. CASE UNCHANGED vars
    <3>1. UNCHANGED <<K, user, c, kc, prog, mode, again, todo>>
      BY <2>1 DEF vars
    <3>2. (Coming(1))' = Coming(1) /\ \A id : (Coming(id))' = Coming(id)
      BY <3>1, SameSeen DEF Coming
    <3>3. \A id : (Seen(id))' = Seen(id) /\ (Answered(id))' = Answered(id)
      BY <3>1, SameSeen
    <3> QED BY <3>1, <3>2, <3>3 DEF RoundInv, InForce
  <2>2. CASE Upgrade
    <3>1. InForce'
      BY <2>2, <2>i, DescriptionAssumption DEF Upgrade, InForce, DescriptionAssumption
    <3>2. Idles
      BY <2>2 DEF Upgrade, work
    <3> QED BY <3>1, <3>2 DEF RoundInv
  <2>3. ASSUME UNCHANGED <<kc, K>>, Idles
        PROVE  RoundInv'
    BY <2>3, <2>i DEF RoundInv, InForce
  <2>4. CASE Kill \/ WriteAuto \/ Save
    BY <2>4, <2>3 DEF Kill, WriteAuto, Save, Idle
  <2>5. ASSUME UNCHANGED <<kc, K>>, prog' \in {"edit", "write"}, mode' \in {"edit", "set"}, prog' = "edit" => mode' = "edit"
        PROVE  RoundInv'
    BY <2>5, <2>i DEF RoundInv, InForce
  <2>6. CASE StartMconf
    BY <2>6, <2>5 DEF StartMconf, Starts
  <2>7. ASSUME NEW u, StartSet(u)
        PROVE  RoundInv'
    BY <2>7, <2>5 DEF StartSet, Starts
  <2>8. CASE Edit \/ SaveNow \/ (\E there \in BOOLEAN : LoadAgain(there)) \/ (\E save \in BOOLEAN : Leave(save))
    <3>1. prog = "edit" /\ UNCHANGED <<kc, K, mode>> /\ prog' \in {"edit", "write", "left"}
      BY <2>8 DEF Edit, SaveNow, LoadAgain, Leave
    <3>2. mode = "edit"
      BY <3>1 DEF RoundInv
    <3> QED BY <3>1, <3>2, <2>3, <2>5
  <2>9. ASSUME NEW m \in {"all", "silent"}, StartConf(m)
        PROVE  RoundInv'
    <3>1. UNCHANGED <<kc, K>> /\ prog' = "ask" /\ mode' = m
      BY <2>9 DEF StartConf, Starts
    <3>2. CASE m = "silent"
      <4>1. todo' = <<<<"check", Root>>>>
        BY <2>9, <3>2 DEF StartConf
      <4>2. mode' = "silent"
        BY <3>1, <3>2
      <4> QED BY <3>1, <4>1, <4>2, <2>i, RoundStarts
    <3> QED BY <3>1, <3>2, <2>i DEF RoundInv, InForce
  <2>10. CASE Ask
    <3>1. UNCHANGED <<kc, K>> /\ prog = "ask" /\ InForce'
      BY <2>10, <2>i DEF Ask, InForce
    <3>2. CASE NextLoop
      <4>1. CASE mode = "all" \/ again
        BY <4>1, <3>1, <3>2, <2>10, <2>i, RoundStarts DEF NextLoop, Ask
      <4>2. CASE ~(mode = "all" \/ again)
        <5>1. todo = <<>> /\ mode' = "silent" /\ prog' = "write" /\ UNCHANGED <<user, c>>
          BY <3>2, <4>2 DEF NextLoop, Same
        <5>2. CASE mode = "silent"
          <6>1. \A id \in DOMAIN K.above : Seen(id) => Answered(id)
            BY <5>1, <5>2, <4>2, <3>1 DEF RoundInv, Coming
          <6>2. (\A id \in DOMAIN K.above : Seen(id) => Answered(id))'
            BY <6>1, <5>1, <3>1, SameSeen
          <6> QED BY <6>2, <5>1, <3>1 DEF RoundInv
        <5> QED BY <4>2, <5>2, <3>1 DEF RoundInv
      <4> QED BY <4>1, <4>2
    <3>3. CASE todo # <<>> /\ Check /\ UNCHANGED <<prog, mode>>
      <4>1. CASE mode = "silent" /\ ~again'
        <5>1. /\ todo' \in Seq({"check"} \X DOMAIN K.above)
              /\ \A id \in DOMAIN K.above : Seen(id) => Answered(id) \/ (Coming(id))'
          BY <2>10, <3>1, <3>3, <4>1, CheckRounds
        <5>2. UNCHANGED <<K, user, c>>
          BY <3>1, <3>3 DEF Check, Same
        <5>3. (\A id \in DOMAIN K.above : Seen(id) => Answered(id) \/ Coming(id))'
          BY <5>1, <5>2, SameSeen
        <5> QED BY <3>1, <3>3, <4>1, <5>1, <5>2, <5>3 DEF RoundInv
      <4>2. CASE ~(mode = "silent" /\ ~again')
        BY <3>1, <3>3, <4>2 DEF RoundInv
      <4> QED BY <4>1, <4>2
    <3>4. CASE todo # <<>> /\ Visit /\ UNCHANGED <<prog, mode>>
      <4>1. Head(todo)[1] = "conf" /\ again' = again
        BY <3>4 DEF Visit
      <4>2. CASE mode = "silent" /\ ~again
        <5>1. todo \in Seq({"check"} \X DOMAIN K.above)
          BY <3>1, <4>2 DEF RoundInv
        <5>2. Head(todo) \in {"check"} \X DOMAIN K.above
          BY <5>1, <3>4
        <5> QED BY <5>2, <4>1
      <4>3. CASE ~(mode = "silent" /\ ~again)
        BY <3>1, <3>4, <4>1, <4>3 DEF RoundInv
      <4> QED BY <4>2, <4>3
    <3> QED BY <2>10, <3>2, <3>3, <3>4 DEF Ask
  <2> QED BY <2>1, <2>2, <2>4, <2>6, <2>7, <2>8, <2>9, <2>10 DEF Next
<1>3. RoundInv => AllAnswered
  <2> SUFFICES ASSUME RoundInv, prog = "write", mode = "silent", NEW s \in K.syms, K.entry[s].id \in Reached
               PROVE  ~IsNew(s)
    BY DEF AllAnswered
  <2>1. InForce
    BY DEF RoundInv
  <2>2. PICK n \in DOMAIN K.menus : K.menus[n] = K.entry[s]
    BY <2>1, InForceFacts DEF Nested
  <2>3. MenuOf(K.entry[s].id) = K.entry[s] /\ K.entry[s].sym = s
    BY <2>1, <2>2, MenuIs, InForceFacts DEF Nested
  <2>4. K.entry[s].id \in DOMAIN K.above /\ Seen(K.entry[s].id)
    BY DEF Reached, Seen
  <2>5. Answered(K.entry[s].id)
    BY <2>4 DEF RoundInv
  <2>6. s # NoSym
    BY <2>1, InForceFacts DEF WellTyped
  <2> QED BY <2>3, <2>5, <2>6 DEF Answered, IsSymbol
<1> QED BY <1>1, <1>2, <1>3, PTL DEF Spec

------------------------------------------------------------------------------
(* What is saved is read again                                               *)

\* The description in force is accepted.
LEMMA InForceFits == InForce => Fits(K)
BY InForceFacts DEF Fits

\* The user may have any symbol set to a value of its type.
LEMMA SetOK ==
  ASSUME NEW k, Fits(k), NEW u, UserOK(k, u), NEW d, NEW s \in k.syms, NEW v,
         s \in IntSyms => v \in Nat, s \notin IntSyms => v \in {0, 2}
  PROVE  UserOK(k, SetUser(k, u, d, s, v))
<1> DEFINE w == SetUser(k, u, d, s, v)
           picks == s \notin IntSyms /\ v = 2 /\ k.of[s] # NoSym
<1>1. ASSUME NEW x \in k.syms
      PROVE  \E has, val, pick : SettingOK(k, x, has, val, pick) /\ w[x] = [has |-> has, val |-> val, pick |-> pick]
  <2>0. PICK y : y = u[x]
    OBVIOUS
  <2>1. PICK has, val, pick : SettingOK(k, x, has, val, pick) /\ y = [has |-> has, val |-> val, pick |-> pick]
    BY <2>0, SettingIs
  <2>2. CASE x = s
    <3>1. w[x] = [y EXCEPT !.has = TRUE, !.val = v]
      BY <2>0, <2>2 DEF SetUser
    <3>2. w[x] = [has |-> TRUE, val |-> v, pick |-> pick]
      BY <2>1, <3>1
    <3>3. SettingOK(k, x, TRUE, v, pick)
      BY <2>1, <2>2 DEF SettingOK, Empty
    <3> QED BY <3>2, <3>3
  <2>3. CASE x # s /\ picks /\ x = k.of[s]
    <3>1. w[x] = [y EXCEPT !.has = TRUE, !.pick = s]
      BY <2>0, <2>3 DEF SetUser
    <3>2. w[x] = [has |-> TRUE, val |-> val, pick |-> s]
      BY <2>1, <3>1
    <3>3. x \notin IntSyms
      BY <2>3 DEF Fits, WellTyped, Choosing
    <3>4. SettingOK(k, x, TRUE, val, s)
      BY <2>1, <2>3, <3>3 DEF SettingOK
    <3> QED BY <3>2, <3>4
  <2>4. CASE x # s /\ picks /\ x # k.of[s] /\ k.of[x] = k.of[s]
    <3>0. PICK keep \in BOOLEAN : keep = (has \/ d.vis[x] # 0)
      OBVIOUS
    <3>1. w[x] = [y EXCEPT !.has = y.has \/ d.vis[x] # 0]
      BY <2>0, <2>4 DEF SetUser
    <3>a. w[x] = [y EXCEPT !.has = keep]
      BY <3>0, <3>1, <2>1
    <3>2. w[x] = [has |-> keep, val |-> val, pick |-> pick]
      BY <2>1, <3>a
    <3>3. x \notin IntSyms
      BY <2>4 DEF Fits, WellTyped, Choosing
    <3>4. SettingOK(k, x, keep, val, pick)
      BY <2>1, <2>4, <3>3 DEF SettingOK
    <3> QED BY <3>2, <3>4
  <2>5. CASE x # s /\ ~(picks /\ (x = k.of[s] \/ k.of[x] = k.of[s]))
    <3>1. w[x] = y
      BY <2>0, <2>5 DEF SetUser
    <3> QED BY <2>1, <3>1
  <2> QED BY <2>2, <2>3, <2>4, <2>5
<1> HIDE DEF w
<1>2. UserOK(k, w)
  BY <1>1, SettingsOK
<1> QED BY <1>2 DEF w

\* No values, all "y", all "n" and any at random are right.
LEMMA FreshOK == UserOK(K, Fresh)
<1>1. ASSUME NEW s \in K.syms
      PROVE  \E has, val, pick : SettingOK(K, s, has, val, pick) /\ Fresh[s] = [has |-> has, val |-> val, pick |-> pick]
  BY UnsetOK DEF Fresh
<1> QED BY <1>1, SettingsOK

LEMMA AllNewOK ==
  ASSUME NEW k, NEW u, UserOK(k, u), NEW v \in {0, 2}
  PROVE  UserOK(k, AllNew(k, u, v))
<1> DEFINE w == AllNew(k, u, v)
<1>1. ASSUME NEW s \in k.syms
      PROVE  \E has, val, pick : SettingOK(k, s, has, val, pick) /\ w[s] = [has |-> has, val |-> val, pick |-> pick]
  <2>0. PICK y : y = u[s]
    OBVIOUS
  <2>1. PICK has, val, pick : SettingOK(k, s, has, val, pick) /\ y = [has |-> has, val |-> val, pick |-> pick]
    BY <2>0, SettingIs
  <2>2. CASE y.has \/ s \in IntSyms
    <3>1. w[s] = y
      BY <2>0, <2>2 DEF AllNew
    <3> QED BY <2>1, <3>1
  <2>3. CASE ~(y.has \/ s \in IntSyms)
    <3>1. w[s] = [y EXCEPT !.has = TRUE, !.val = v]
      BY <2>0, <2>3 DEF AllNew
    <3>2. w[s] = [has |-> TRUE, val |-> v, pick |-> pick]
      BY <2>1, <3>1
    <3>3. SettingOK(k, s, TRUE, v, pick)
      BY <2>1, <2>3 DEF SettingOK
    <3> QED BY <3>2, <3>3
  <2> QED BY <2>2, <2>3
<1> HIDE DEF w
<1>2. UserOK(k, w)
  BY <1>1, SettingsOK
<1> QED BY <1>2 DEF w

\* The values are settings, as SettingsOK has it.
Settings(k, u) ==
  \A s \in k.syms : \E has, val, pick : SettingOK(k, s, has, val, pick) /\ u[s] = [has |-> has, val |-> val, pick |-> pick]
LEMMA SettledOK ==
  ASSUME NEW k, NEW u, Settings(k, u)
  PROVE  UserOK(k, u)
BY SettingsOK DEF Settings

LEMMA AllRandomOK ==
  ASSUME NEW k, Fits(k), NEW old, UserOK(k, old), NEW yes,
         NEW p \in [k.choices -> k.syms], \A x \in k.choices : k.of[p[x]] = x
  PROVE  UserOK(k, AllRandom(k, old, yes, p))
<1> DEFINE u == [s \in k.syms |-> IF old[s].has \/ s \in IntSyms THEN old[s]
                             ELSE [old[s] EXCEPT !.has = s \notin k.choices, !.val = IF s \in yes THEN 2 ELSE 0]]
           d == CalcAll(k, u)
           Chosen(ch) == ch \in k.choices /\ ~u[ch].has /\ d.cur[ch] = 2
           w == AllRandom(k, old, yes, p)
<1>2. \A s \in k.syms :
        w[s] = IF Chosen(s) THEN [u[s] EXCEPT !.has = TRUE, !.pick = p[s]]
               ELSE IF k.of[s] # NoSym /\ Chosen(k.of[s]) THEN [u[s] EXCEPT !.val = IF p[k.of[s]] = s THEN 2 ELSE 0]
               ELSE u[s]
  BY DEF AllRandom
<1>u. \A s \in k.syms :
        u[s] = IF old[s].has \/ s \in IntSyms THEN old[s]
               ELSE [old[s] EXCEPT !.has = s \notin k.choices, !.val = IF s \in yes THEN 2 ELSE 0]
  OBVIOUS
<1> HIDE DEF u, d, w
<1>1. ASSUME NEW s \in k.syms
      PROVE  \E has, val, pick : SettingOK(k, s, has, val, pick) /\ u[s] = [has |-> has, val |-> val, pick |-> pick]
  <2>0. PICK y : y = old[s]
    OBVIOUS
  <2>1. PICK has, val, pick : SettingOK(k, s, has, val, pick) /\ y = [has |-> has, val |-> val, pick |-> pick]
    BY <2>0, SettingIs
  <2>2. CASE y.has \/ s \in IntSyms
    <3>1. u[s] = y
      BY <1>u, <2>0, <2>2
    <3> QED BY <2>1, <3>1
  <2>3. CASE ~(y.has \/ s \in IntSyms)
    <3>0. PICK v \in {0, 2} : v = IF s \in yes THEN 2 ELSE 0
      OBVIOUS
    <3>a. PICK keep \in BOOLEAN : keep = (s \notin k.choices)
      OBVIOUS
    <3>1. u[s] = [y EXCEPT !.has = keep, !.val = v]
      BY <1>u, <2>0, <2>3, <3>0, <3>a
    <3>2. u[s] = [has |-> keep, val |-> v, pick |-> pick]
      BY <2>1, <3>1
    <3>3. SettingOK(k, s, keep, v, pick)
      BY <2>1, <2>3 DEF SettingOK
    <3> QED BY <3>2, <3>3
  <2> QED BY <2>2, <2>3
<1>3. ASSUME NEW s \in k.syms
      PROVE  \E has, val, pick : SettingOK(k, s, has, val, pick) /\ w[s] = [has |-> has, val |-> val, pick |-> pick]
  <2>0. PICK y : y = u[s]
    OBVIOUS
  <2>1. PICK has, val, pick : SettingOK(k, s, has, val, pick) /\ y = [has |-> has, val |-> val, pick |-> pick]
    BY <1>1, <2>0
  <2>2. CASE Chosen(s)
    <3>1. w[s] = [y EXCEPT !.has = TRUE, !.pick = p[s]]
      BY <1>2, <2>0, <2>2
    <3>2. w[s] = [has |-> TRUE, val |-> val, pick |-> p[s]]
      BY <2>1, <3>1
    <3>3. s \notin IntSyms /\ p[s] \in k.syms /\ k.of[p[s]] = s
      BY <2>2 DEF Fits, WellTyped
    <3>4. SettingOK(k, s, TRUE, val, p[s])
      BY <2>1, <3>3 DEF SettingOK
    <3> QED BY <3>2, <3>4
  <2>3. CASE ~Chosen(s) /\ k.of[s] # NoSym /\ Chosen(k.of[s])
    <3>0. PICK v \in {0, 2} : v = IF p[k.of[s]] = s THEN 2 ELSE 0
      OBVIOUS
    <3>1. w[s] = [y EXCEPT !.val = v]
      BY <1>2, <2>0, <2>3, <3>0
    <3>2. w[s] = [has |-> has, val |-> v, pick |-> pick]
      BY <2>1, <3>1
    <3>3. s \notin IntSyms
      BY <2>3 DEF Fits, Choosing
    <3>4. SettingOK(k, s, has, v, pick)
      BY <2>1, <3>3 DEF SettingOK
    <3> QED BY <3>2, <3>4
  <2>4. CASE ~Chosen(s) /\ ~(k.of[s] # NoSym /\ Chosen(k.of[s]))
    <3>1. w[s] = y
      BY <1>2, <2>0, <2>4
    <3> QED BY <2>1, <3>1
  <2> QED BY <2>2, <2>3, <2>4
<1>a. Settings(k, w)
  BY <1>3 DEF Settings
<1>4. UserOK(k, w)
  BY <1>a, SettledOK
<1> QED BY <1>4 DEF w

\* While a program runs its values are right, and the calculation is that of
\* right values, though not always of those: an answer that is not the symbol's
\* value is calculated, one that is is only noted.
CalcOK == UserOK(K, user) /\ \E u : UserOK(K, u) /\ IsCalculation(K, u, c)
\* What may be in todo.
Pending == Seq({"conf", "check"} \X DOMAIN K.above)
\* The inductive invariant.
SavedInv ==
  /\ InForce
  /\ FileOK(file)
  /\ prog # "none" => CalcOK
  /\ prog = "ask" => todo \in Pending
  /\ prog = "saved" => Saved(K, c, file)

\* What calculates leaves CalcOK: conf_read, and an answer.
LEMMA CalculateOK ==
  ASSUME UNCHANGED K, NEW u, UserOK(K, u), Calculate(u)
  PROVE  CalcOK'
<1>1. user' = u /\ IsCalculation(K, user', c')
  BY DEF Calculate
<1>2. PICK k, e : k = K /\ e = c'
  OBVIOUS
<1>3. UserOK(k, u) /\ IsCalculation(k, u, e)
  BY <1>1, <1>2
<1>4. K' = k /\ user' = u /\ c' = e
  BY <1>1, <1>2
<1> QED BY <1>3, <1>4 DEF CalcOK

LEMMA ReadFromOK ==
  ASSUME InForce, UNCHANGED K, NEW f, FileOK(f), NEW always, ReadFrom(f, always)
  PROVE  CalcOK'
<1>1. LinesOK(K, f)
  BY DEF LinesOK, FileOK
<1>2. UserOK(K, ReadSimple(K, f))
  BY <1>1, InForceFits, ReadOK
<1>3. PICK d : Calculate(Checked(K, f, ReadSimple(K, f), d).user)
  BY DEF ReadFrom
<1>4. UserOK(K, Checked(K, f, ReadSimple(K, f), d).user)
  BY <1>2, InForceFits, CheckedOK
<1>5. PICK u : u = Checked(K, f, ReadSimple(K, f), d).user
  OBVIOUS
<1> QED BY <1>3, <1>4, <1>5, CalculateOK

LEMMA ReadConfigOK ==
  ASSUME InForce, UNCHANGED K, FileOK(file), ReadConfig
  PROVE  CalcOK'
<1>1. CASE file = NoFile
  <2>1. PICK u : u = Fresh
    OBVIOUS
  <2>2. Calculate(u)
    BY <1>1, <2>1 DEF ReadConfig
  <2> QED BY <2>1, <2>2, FreshOK, CalculateOK
<1>2. CASE file # NoFile
  <2>1. PICK f : f = file
    OBVIOUS
  <2>2. ReadFrom(f, FALSE) /\ FileOK(f)
    BY <1>2, <2>1 DEF ReadConfig
  <2> QED BY <2>2, ReadFromOK
<1> QED BY <1>1, <1>2

LEMMA PutOK ==
  ASSUME InForce, CalcOK, UNCHANGED K, NEW s \in K.syms, NEW v,
         s \in IntSyms => v \in Nat \cup {Empty}, s \notin IntSyms => v \in {0, 2}, Put1(s, v)
  PROVE  CalcOK'
<1>1. s \in IntSyms => v \in Nat
  BY DEF Put1, Settable, IntInRange
<1>2. PICK u : u = SetUser(K, user, c, s, v)
  OBVIOUS
<1>3. UserOK(K, u)
  BY <1>1, <1>2, InForceFits, SetOK DEF CalcOK
<1>4. CASE Recalculates(user, c, s, v)
  <2>1. Calculate(u)
    BY <1>2, <1>4 DEF Put1
  <2> QED BY <1>3, <2>1, CalculateOK
<1>5. CASE ~Recalculates(user, c, s, v)
  <2>1. user' = u /\ UNCHANGED c
    BY <1>2, <1>5 DEF Put1
  <2>2. PICK k, old, e : k = K /\ UserOK(k, old) /\ IsCalculation(k, old, e) /\ e = c
    BY DEF CalcOK
  <2>3. K' = k /\ c' = e /\ user' = u /\ UserOK(k, u)
    BY <1>3, <2>1, <2>2
  <2> QED BY <2>2, <2>3 DEF CalcOK
<1> QED BY <1>4, <1>5

\* An answer is of the symbol's type.
LEMMA AnswersOK ==
  ASSUME InForce, CalcOK, NEW s \in K.syms, NEW v \in Answers(s)
  PROVE  (s \in IntSyms => v \in Nat \cup {Empty}) /\ (s \notin IntSyms => v \in {0, 2})
<1>1. CASE s \in IntSyms
  <2>1. v \in Numbers \cup {c.cur[s]}
    <3>1. K.of[s] = NoSym
      BY <1>1, InForceFacts DEF Choosing
    <3> QED BY <1>1, <3>1 DEF Answers, Typed
  <2>2. PICK u : UserOK(K, u) /\ IsCalculation(K, u, c)
    BY DEF CalcOK
  <2>3. c.cur[s] \in Nat \cup {Empty}
    BY <1>1, <2>2, InForceFits, CalcTyped
  <2> QED BY <1>1, <2>1, <2>3, FileAssumption DEF FileAssumption
<1>2. CASE s \notin IntSyms
  BY <1>2 DEF Answers, OfChoice
<1> QED BY <1>1, <1>2

\* conf_write leaves a file that has what it should.
LEMMA LinesFileOK ==
  ASSUME InForce, CalcOK
  PROVE  FileOK(Lines(K, c, Written)) /\ Saved(K, c, Lines(K, c, Written))
<1> DEFINE f == Lines(K, c, Written)
<1>1. /\ DOMAIN f = {x \in K.syms \ K.choices : Written[x]}
      /\ \A x \in DOMAIN f : f[x] = c.cur[x]
  BY DEF Lines
<1>2. PICK u : UserOK(K, u) /\ IsCalculation(K, u, c)
  BY DEF CalcOK
<1> HIDE DEF f
<1>3. ASSUME NEW x \in DOMAIN f
      PROVE  x \notin AllChoices /\ Line(x, f[x])
  <2>1. x \in K.syms /\ x \notin K.choices /\ f[x] = c.cur[x]
    BY <1>1
  <2>2. x \notin AllChoices
    BY <2>1, FileAssumption DEF FileAssumption, InForce
  <2> QED BY <1>2, <2>1, <2>2, InForceFits, CalcTyped
<1>4. FileOK(f)
  BY <1>3 DEF FileOK
<1>5. Saved(K, c, f)
  BY <1>1 DEF Saved, Written
<1> QED BY <1>4, <1>5 DEF f

LEMMA NoFileOK == FileOK(NoFile)
<1>1. DOMAIN NoFile = {NoSym} /\ NoFile[NoSym] = 0
  BY DEF NoFile
<1> QED BY <1>1, FileAssumption DEF FileAssumption, FileOK, Line

\* What is put in todo is known.
LEMMA ParentMenuIn ==
  ASSUME InForce, NEW id \in DOMAIN K.above
  PROVE  ParentMenu(id) \in DOMAIN K.above
<1> DEFINE ms == {n \in DOMAIN K.menus : K.menus[n].kind = "menu" /\ K.menus[n].id \in Within(id)}
<1>1. 0 \in Within(id)
  BY InForceFacts DEF Nested, Within
<1>2. ms # {}
  BY <1>1, InForceFacts DEF Nested
<1>3. Len(K.menus) \in Nat /\ ms \subseteq 1..Len(K.menus)
  BY InForceFacts DEF Nested
<1>4. Max(ms) \in ms
  BY <1>2, <1>3, MaxIn
<1>5. Max(ms) \in DOMAIN K.menus
  BY <1>4
<1>6. ParentMenu(id) = K.menus[Max(ms)].id
  BY DEF ParentMenu
<1> HIDE DEF ms
<1> QED BY <1>5, <1>6, InForceFacts DEF Nested

LEMMA KidsOK ==
  ASSUME InForce, NEW n \in DOMAIN K.menus, NEW how \in {"conf", "check"}
  PROVE  Kids(how, K.menus[n]) \in Pending
<1> DEFINE m == K.menus[n]
<1>1. Len(m.list) \in Nat /\ DOMAIN m.list = 1..Len(m.list)
  BY InForceFacts DEF Nested
<1>2. ASSUME NEW i \in DOMAIN m.list
      PROVE  m.list[i].id \in DOMAIN K.above
  <2>1. PICK x \in DOMAIN K.menus : m.list[i] = K.menus[x]
    BY InForceFacts DEF Nested
  <2> QED BY <2>1, InForceFacts DEF Nested
<1> QED BY <1>1, <1>2 DEF Kids, Pending

LEMMA ThenOK ==
  ASSUME UNCHANGED K, todo \in Pending, todo # <<>>, NEW rest \in Pending, Then(rest)
  PROVE  (todo \in Pending)'
<1>1. PICK S : S = {"conf", "check"} \X DOMAIN K.above
  OBVIOUS
<1>2. PICK old : old = todo
  OBVIOUS
<1>3. old \in Seq(S) /\ old # <<>> /\ rest \in Seq(S) /\ todo' = rest \o Tail(old)
  BY <1>1, <1>2 DEF Pending, Then
<1>4. rest \o Tail(old) \in Seq(S)
  BY <1>3
<1>5. todo' \in Seq(S)
  BY <1>3, <1>4
<1> QED BY <1>1, <1>5 DEF Pending

\* What leaves the values leaves CalcOK.
LEMMA SameOK ==
  ASSUME UNCHANGED K, CalcOK, Same
  PROVE  CalcOK'
BY DEF Same, CalcOK

\* What an answer in conf leaves.
LEMMA VisitOK ==
  ASSUME SavedInv, prog = "ask", Visit, todo # <<>>, UNCHANGED K
  PROVE  CalcOK' /\ (todo \in Pending)'
<1>1. InForce /\ CalcOK /\ todo \in Pending
  BY DEF SavedInv
<1>2. Head(todo)[2] \in DOMAIN K.above
  <2>1. Head(todo) \in {"conf", "check"} \X DOMAIN K.above
    BY <1>1 DEF Pending
  <2> QED BY <2>1
<1>3. PICK n \in DOMAIN K.menus : K.menus[n] = MenuOf(Head(todo)[2]) /\ K.menus[n].id = Head(todo)[2]
  BY <1>1, <1>2, MenuFound
<1> DEFINE m == MenuOf(Head(todo)[2])
<1>4. IsSymbol(m) => m.sym \in K.syms
  BY <1>1, <1>3, InForceFacts DEF Nested
<1>5. <<>> \in Pending /\ <<<<"check", m.id>>>> \in Pending /\ Kids("conf", m) \in Pending
  BY <1>1, <1>2, <1>3, KidsOK DEF Pending
<1>6. ASSUME Same, Then(<<>>) \/ Then(<<<<"check", m.id>>>>) \/ Then(Kids("conf", m))
      PROVE  CalcOK' /\ (todo \in Pending)'
  <2>1. PICK rest \in Pending : Then(rest)
    BY <1>5, <1>6
  <2>2. (todo \in Pending)'
    BY <1>1, <2>1, ThenOK
  <2> QED BY <1>1, <1>6, <2>2, SameOK
<1>7. CASE AskChoice(m)
  <2>1. CASE c.cur[m.sym] = 0
    BY <1>6, <1>7, <2>1 DEF AskChoice
  <2>2. CASE c.cur[m.sym] # 0
    <3>1. PICK x : /\ \E i \in DOMAIN m.list : x = m.list[i] /\ IsSymbol(m.list[i])
                   /\ Put1(x.sym, 2) /\ Then(Kids("conf", x))
      BY <1>7, <2>2 DEF AskChoice
    <3>2. PICK i \in DOMAIN m.list : x = m.list[i] /\ IsSymbol(m.list[i])
      BY <3>1
    <3>3. PICK j \in DOMAIN K.menus : x = K.menus[j]
      BY <1>1, <1>3, <3>2, InForceFacts DEF Nested
    <3>4. x.sym \in K.syms
      BY <1>1, <3>2, <3>3, InForceFacts DEF Nested
    <3>5. PICK s \in K.syms : s = x.sym
      BY <3>4
    <3>6. Put1(s, 2)
      BY <3>1, <3>5
    <3>7. CalcOK'
      BY <1>1, <3>6, PutOK
    <3>8. PICK rest \in Pending : Then(rest)
      BY <1>1, <3>1, <3>3, KidsOK
    <3>9. (todo \in Pending)'
      BY <1>1, <3>8, ThenOK
    <3> QED BY <3>7, <3>9
  <2> QED BY <2>1, <2>2
<1>8. CASE IsSymbol(m) /\ AskSymbol(m.sym) /\ Then(Kids("conf", m))
  <2>1. PICK s \in K.syms : s = m.sym
    BY <1>4, <1>8
  <2>2. AskSymbol(s)
    BY <1>8, <2>1
  <2>3. ASSUME Asks(s)
        PROVE  CalcOK'
    <3>1. PICK v \in Answers(s) : Put1(s, v)
      BY <2>2, <2>3 DEF AskSymbol
    <3>2. (s \in IntSyms => v \in Nat \cup {Empty}) /\ (s \notin IntSyms => v \in {0, 2})
      BY <1>1, AnswersOK
    <3>3. CalcOK'
      BY <1>1, <3>1, <3>2, PutOK
    <3> QED BY <3>3
  <2>4. ASSUME ~Asks(s)
        PROVE  CalcOK'
    <3>1. Same
      BY <2>2, <2>4 DEF AskSymbol
    <3>2. CalcOK'
      BY <1>1, <3>1, SameOK
    <3> QED BY <3>2
  <2>a. CalcOK'
    BY <2>3, <2>4
  <2>5. PICK rest \in Pending : Then(rest)
    BY <1>5, <1>8
  <2>6. (todo \in Pending)'
    BY <1>1, <2>5, ThenOK
  <2> QED BY <2>a, <2>6
<1> QED BY <1>6, <1>7, <1>8 DEF Visit

\* What check_conf leaves.
LEMMA CheckOK ==
  ASSUME SavedInv, prog = "ask", Check, todo # <<>>, UNCHANGED K
  PROVE  CalcOK' /\ (todo \in Pending)'
<1>1. InForce /\ CalcOK /\ todo \in Pending
  BY DEF SavedInv
<1>2. Head(todo)[2] \in DOMAIN K.above
  <2>1. Head(todo) \in {"conf", "check"} \X DOMAIN K.above
    BY <1>1 DEF Pending
  <2> QED BY <2>1
<1>3. PICK n \in DOMAIN K.menus : K.menus[n] = MenuOf(Head(todo)[2]) /\ K.menus[n].id = Head(todo)[2]
  BY <1>1, <1>2, MenuFound
<1> DEFINE m == MenuOf(Head(todo)[2])
           new == IsSymbol(m) /\ IsNew(m.sym)
           asked == IF new THEN <<<<"conf", ParentMenu(m.id)>>>> ELSE <<>>
<1>4. <<>> \in Pending /\ Kids("check", m) \in Pending
  BY <1>1, <1>3, KidsOK DEF Pending
<1>5. asked \in Pending
  BY <1>1, <1>2, <1>3, ParentMenuIn DEF Pending
<1>6. Then(<<>>) \/ Then(asked \o Kids("check", m))
  BY DEF Check
<1>7. asked \o Kids("check", m) \in Pending
  <2> HIDE DEF asked, m
  <2> QED BY <1>4, <1>5 DEF Pending
<1>8. PICK rest \in Pending : Then(rest)
  BY <1>4, <1>6, <1>7
<1>9. (todo \in Pending)'
  BY <1>1, <1>8, ThenOK
<1> QED BY <1>1, <1>9, SameOK DEF Check

\* SavedInv is invariant.
LEMMA RereadInit == Init => SavedInv
BY NoFileOK, FileAssumption DEF Init, SavedInv, InForce, FileAssumption

LEMMA RereadStep ==
  ASSUME SavedInv, [Next]_vars
  PROVE  SavedInv'
<1>i. InForce /\ FileOK(file)
  BY DEF SavedInv
<1>1. CASE UNCHANGED vars
  BY <1>1 DEF vars, SavedInv, InForce, CalcOK, Pending
<1>2. CASE Upgrade
  <2>1. InForce'
    BY <1>2, <1>i, DescriptionAssumption DEF Upgrade, InForce, DescriptionAssumption
  <2>2. prog' = "none" /\ file' = file
    BY <1>2 DEF Upgrade, work
  <2> QED BY <1>i, <2>1, <2>2 DEF SavedInv
<1>k. ASSUME UNCHANGED <<kc, K>>, FileOK(file'), prog' = "none"
      PROVE  SavedInv'
  BY <1>i, <1>k DEF SavedInv, InForce
<1>3. CASE Kill \/ WriteAuto
  <2>1. UNCHANGED <<kc, K>> /\ prog' = "none" /\ file' \in {file, NoFile}
    BY <1>3 DEF Kill, WriteAuto, Idle
  <2>2. PICK f : f = file' /\ FileOK(f)
    BY <1>i, <2>1, NoFileOK
  <2> QED BY <1>k, <2>1, <2>2
<1>4. ASSUME UNCHANGED <<kc, K, file>>, CalcOK', prog' \notin {"ask", "saved"}
      PROVE  SavedInv'
  BY <1>i, <1>4 DEF SavedInv, InForce
<1>5. CASE StartMconf
  <2>1. UNCHANGED <<kc, K, file>> /\ prog' = "edit" /\ ReadConfig
    BY <1>5 DEF StartMconf, Starts
  <2>2. CalcOK'
    BY <1>i, <2>1, ReadConfigOK
  <2> QED BY <1>4, <2>1, <2>2
<1>6. ASSUME NEW m \in {"all", "silent"}, StartConf(m)
      PROVE  SavedInv'
  <2>1. UNCHANGED <<kc, K, file>> /\ prog' = "ask" /\ ReadConfig
    BY <1>6 DEF StartConf, Starts
  <2>2. CalcOK'
    BY <1>i, <2>1, ReadConfigOK
  <2>3. Root \in DOMAIN K.above
    BY <1>i, InForceFacts DEF Nested, Root
  <2>4. todo' = <<<<IF m = "all" THEN "conf" ELSE "check", Root>>>>
    BY <1>6 DEF StartConf
  <2>5. (todo \in Pending)'
    BY <2>1, <2>3, <2>4 DEF Pending
  <2> QED BY <1>i, <2>1, <2>2, <2>5 DEF SavedInv, InForce
<1>7. ASSUME NEW u, UserOK(K, u), StartSet(u)
      PROVE  SavedInv'
  <2>1. UNCHANGED <<kc, K, file>> /\ prog' = "write" /\ Calculate(u)
    BY <1>7 DEF StartSet, Starts
  <2>2. CalcOK'
    BY <1>7, <2>1, CalculateOK
  <2> QED BY <1>4, <2>1, <2>2
<1>8. ASSUME NEW v \in {0, 2}, StartSet(AllNew(K, Fresh, v))
      PROVE  SavedInv'
  <2>1. PICK u : u = AllNew(K, Fresh, v)
    OBVIOUS
  <2>2. UserOK(K, u) /\ StartSet(u)
    BY <1>8, <2>1, FreshOK, AllNewOK
  <2> QED BY <1>7, <2>2
<1>9. ASSUME NEW yes, NEW p \in Picks, StartSet(AllRandom(K, Fresh, yes, p))
      PROVE  SavedInv'
  <2>1. PICK u : u = AllRandom(K, Fresh, yes, p)
    OBVIOUS
  <2>2. p \in [K.choices -> K.syms] /\ \A x \in K.choices : K.of[p[x]] = x
    BY DEF Picks
  <2>3. UserOK(K, u) /\ StartSet(u)
    BY <1>9, <1>i, <2>1, <2>2, FreshOK, InForceFits, AllRandomOK
  <2> QED BY <1>7, <2>3
<1>10. CASE Edit
  <2>1. UNCHANGED <<kc, K, file, prog>> /\ prog = "edit" /\ CalcOK
    BY <1>10 DEF Edit, SavedInv
  <2>2. PICK s \in K.syms : \E v \in Answers(s) : Put1(s, v)
    BY <1>10 DEF Edit
  <2>3. PICK v \in Answers(s) : Put1(s, v)
    BY <2>2
  <2>4. (s \in IntSyms => v \in Nat \cup {Empty}) /\ (s \notin IntSyms => v \in {0, 2})
    BY <1>i, <2>1, AnswersOK
  <2>5. CalcOK'
    BY <1>i, <2>1, <2>3, <2>4, PutOK
  <2> QED BY <1>4, <2>1, <2>5
<1>11. ASSUME NEW there \in BOOLEAN, LoadAgain(there)
       PROVE  SavedInv'
  <2>1. UNCHANGED <<kc, K, file, prog>> /\ prog = "edit" /\ CalcOK
    BY <1>11 DEF LoadAgain, SavedInv
  <2>2. CASE there
    <3>1. PICK f : f = file
      OBVIOUS
    <3>2. ReadFrom(f, TRUE) /\ FileOK(f)
      BY <1>11, <1>i, <2>2, <3>1 DEF LoadAgain
    <3>3. CalcOK'
      BY <1>i, <2>1, <3>2, ReadFromOK
    <3> QED BY <1>4, <2>1, <3>3
  <2>3. CASE ~there
    <3>1. UNCHANGED <<user, c>>
      BY <1>11, <2>3 DEF LoadAgain, Loads
    <3>2. CalcOK'
      BY <2>1, <3>1 DEF CalcOK
    <3> QED BY <1>4, <2>1, <3>2
  <2> QED BY <2>2, <2>3
<1>12. ASSUME NEW save \in BOOLEAN, Leave(save)
       PROVE  SavedInv'
  <2>1. UNCHANGED <<kc, K, file, user, c>> /\ prog = "edit" /\ prog' \in {"write", "left"}
    BY <1>12 DEF Leave
  <2>2. CalcOK'
    BY <2>1 DEF CalcOK, SavedInv
  <2> QED BY <1>4, <2>1, <2>2
<1>13. CASE Save \/ SaveNow
  <2>1. /\ UNCHANGED <<kc, K, user, c>> /\ prog \in {"write", "edit"} /\ prog' \in {"saved", "edit"}
        /\ file' = Lines(K, c, Written)
    BY <1>13 DEF Save, SaveNow
  <2>2. CalcOK /\ CalcOK'
    BY <2>1 DEF CalcOK, SavedInv
  <2>3. PICK k, d, f : k = K /\ d = c /\ f = Lines(K, c, Written)
    OBVIOUS
  <2>4. FileOK(f) /\ Saved(k, d, f)
    BY <1>i, <2>2, <2>3, LinesFileOK
  <2>5. K' = k /\ c' = d /\ file' = f
    BY <2>1, <2>3
  <2>6. InForce'
    BY <1>i, <2>1 DEF InForce
  <2> QED BY <2>1, <2>2, <2>4, <2>5, <2>6 DEF SavedInv
<1>14. CASE Ask
  <2>1. UNCHANGED <<kc, K, file>> /\ prog = "ask" /\ CalcOK /\ InForce'
    BY <1>14, <1>i DEF Ask, SavedInv, InForce
  <2>2. CASE todo # <<>> /\ UNCHANGED <<prog, mode>> /\ (Check \/ Visit)
    <3>1. CalcOK' /\ (todo \in Pending)'
      BY <2>1, <2>2, CheckOK, VisitOK
    <3> QED BY <1>i, <2>1, <2>2, <3>1 DEF SavedInv
  <2>3. CASE NextLoop
    <3>1. CalcOK'
      BY <2>1, <2>3, SameOK DEF NextLoop
    <3>2. CASE mode = "all" \/ again
      <4>1. todo' = <<<<"check", Root>>>> /\ prog' = "ask"
        BY <2>1, <2>3, <3>2 DEF NextLoop
      <4>2. Root \in DOMAIN K.above
        BY <1>i, InForceFacts DEF Nested, Root
      <4>3. (todo \in Pending)'
        BY <2>1, <4>1, <4>2 DEF Pending
      <4> QED BY <1>i, <2>1, <3>1, <4>1, <4>3 DEF SavedInv
    <3>3. CASE ~(mode = "all" \/ again)
      <4>1. prog' = "write"
        BY <2>3, <3>3 DEF NextLoop
      <4> QED BY <1>4, <2>1, <3>1, <4>1
    <3> QED BY <3>2, <3>3
  <2> QED BY <1>14, <2>2, <2>3 DEF Ask
<1> QED BY <1>1, <1>2, <1>3, <1>5, <1>6, <1>8, <1>9, <1>10, <1>11, <1>12, <1>13, <1>14 DEF Next

\* What conf_write has left is read as the configuration that was saved: with the
\* same Config.in files the next program calculates the same values from it, and
\* asks for none but numbers that were left empty.  Both calculations of
\* conf_read are meant, before it has looked through what it read and after.
THEOREM WhatIsSavedIsReread == Spec => []SavedIsReread
<1>1. SavedInv => SavedIsReread
  <2> SUFFICES ASSUME SavedInv, prog = "saved"
               PROVE  LET simple == ReadSimple(K, file)
                          again1 == Checked(K, file, simple, c).user
                      IN  /\ IsCalculation(K, simple, c) /\ IsCalculation(K, again1, c)
                          /\ \A s \in K.syms : c.vis[s] # 0 /\ c.cur[s] # Empty => again1[s].has
    BY DEF SavedIsReread
  <2>1. PICK k, d, f : k = K /\ d = c /\ f = file
    OBVIOUS
  <2>2. Fits(k) /\ Saved(k, d, f)
    BY <2>1, InForceFits DEF SavedInv
  <2>3. PICK u : UserOK(k, u) /\ IsCalculation(k, u, d)
    BY <2>1 DEF SavedInv, CalcOK
  <2>4. PICK simple : simple = ReadSimple(k, f)
    OBVIOUS
  <2>5. /\ UserOK(k, simple) /\ Agrees(k, d, simple)
        /\ \A s \in k.syms : d.vis[s] # 0 /\ d.cur[s] # Empty => simple[s].has
    BY <2>2, <2>3, <2>4, SavedAgrees
  <2>6. IsCalculation(k, simple, d)
    BY <2>2, <2>3, <2>5, Agreeing
  <2>7. PICK w : w = Checked(k, f, simple, d).user
    OBVIOUS
  <2>8. /\ UserOK(k, w) /\ Agrees(k, d, w)
        /\ \A s \in k.syms : d.vis[s] # 0 /\ d.cur[s] # Empty => w[s].has
    BY <2>2, <2>3, <2>5, <2>7, KeptAgrees
  <2>9. IsCalculation(k, w, d)
    BY <2>2, <2>3, <2>8, Agreeing
  <2> QED BY <2>1, <2>4, <2>6, <2>7, <2>8, <2>9
<1> QED BY RereadInit, RereadStep, <1>1, PTL DEF Spec

------------------------------------------------------------------------------
(* No change is lost                                                         *)

\* A file that conf_read finds no fault with is saved.
LEMMA UnchangedSaved ==
  ASSUME NEW k, Fits(k), NEW f, LinesOK(k, f), DOMAIN f \cap k.choices = {}, NEW simple, simple = ReadSimple(k, f),
         NEW d, Unsaved(k, simple, d) = {}, Unknown(k, f) = {}, ~Invalid(k, f)
  PROVE  Saved(k, d, f) /\ \A s \in DOMAIN f : s \in k.syms \ k.choices /\ d.write[s]
<1>1. ASSUME NEW s \in DOMAIN f
      PROVE  s \in k.syms /\ s \notin k.choices /\ f[s] # Empty
  BY <1>1 DEF Unknown, Invalid
<1>3. ASSUME NEW s \in DOMAIN f
      PROVE  simple[s].has /\ simple[s].val = f[s]
  <2>1. PICK v : v = f[s]
    OBVIOUS
  <2>2. simple[s] = [has |-> TRUE, val |-> v, pick |-> NoSym]
    BY <1>1, <2>1 DEF ReadSimple, Unset
  <2>3. simple[s].has /\ simple[s].val = v
    BY <2>2
  <2> QED BY <2>1, <2>3
<1>4. ASSUME NEW s \in k.syms \ k.choices, s \notin DOMAIN f
      PROVE  ~simple[s].has
  <2>1. simple[s] = Unset(s)
    BY <1>4 DEF ReadSimple
  <2>2. ~Unset(s).has
    BY DEF Unset
  <2> QED BY <2>1, <2>2
<1>5. ASSUME NEW s \in k.syms \ k.choices
      PROVE  IF simple[s].has /\ d.write[s] THEN d.cur[s] = simple[s].val ELSE ~(simple[s].has \/ d.write[s])
  BY DEF Unsaved
<1> QED BY <1>1, <1>3, <1>4, <1>5 DEF Saved

\* So is one that was read when nothing counts as changed.
LEMMA ReadFromSaved ==
  ASSUME InForce, UNCHANGED K, NEW f, FileOK(f), ReadFrom(f, FALSE), ~changed'
  PROVE  /\ Saved(K, c', f) /\ \A s \in DOMAIN f : s \in K.syms \ K.choices /\ c'.write[s]
         /\ sticky' = sticky \cup Members({x \in K.choices : c'.write[x]})
<1>1. PICK k : k = K /\ Fits(k)
  BY InForceFits
<1>2. PICK simple : simple = ReadSimple(k, f)
  OBVIOUS
<1>3. LinesOK(k, f) /\ DOMAIN f \cap k.choices = {}
  BY <1>1 DEF LinesOK, FileOK, AllChoices, InForce
<1>4. PICK d : /\ IsCalculation(k, simple, d) /\ Calculate(Checked(k, f, simple, d).user)
               /\ ~Checked(k, f, simple, d).changed
  BY <1>1, <1>2 DEF ReadFrom
<1>5. Unsaved(k, simple, d) = {} /\ Unknown(k, f) = {} /\ ~Invalid(k, f)
  BY <1>4 DEF Checked
<1>6. Saved(k, d, f) /\ \A s \in DOMAIN f : s \in k.syms \ k.choices /\ d.write[s]
  BY <1>1, <1>2, <1>3, <1>5, UnchangedSaved
<1>7. UserOK(k, simple)
  BY <1>1, <1>2, <1>3, ReadOK
<1>8. Agrees(k, d, simple)
  BY <1>1, <1>2, <1>4, <1>6, <1>7, SavedAgrees
<1>9. PICK w : w = Checked(k, f, simple, d).user
  OBVIOUS
<1>10. UserOK(k, w) /\ Agrees(k, d, w)
  BY <1>1, <1>4, <1>7, <1>8, <1>9, KeptAgrees
<1>11. IsCalculation(k, w, d)
  BY <1>1, <1>4, <1>7, <1>8, <1>10, Agreeing
<1>12. PICK e : e = c'
  OBVIOUS
<1>13. IsCalculation(k, w, e) /\ sticky' = sticky \cup Members({x \in K.choices : c'.write[x]})
  BY <1>1, <1>4, <1>9, <1>12 DEF Calculate
<1>14. e = d
  BY <1>1, <1>10, <1>11, <1>13, OneCalculation
<1> QED BY <1>1, <1>6, <1>12, <1>13, <1>14

\* What is written of a choice is written of its members.
LEMMA MembersWritten ==
  ASSUME NEW k, Fits(k), NEW u, NEW d, IsCalculation(k, u, d), NEW s \in k.syms, k.of[s] \in k.choices, d.write[k.of[s]]
  PROVE  d.write[s]
<1> DEFINE env == Env(k, d.cur)
           x == Found(k, env, s)
           t == Tri(k.entry[s], u[s], env, x)
           r == BySymbol(k, d)
           p == PickOf(k, u, env, s, t)
<1>1. r[s] = ValueOf(k, u, r, env, s, x, t, p) /\ d.write[s] = r[s].write
  BY FieldsOf
<1>2. k.of[s] \in k.syms /\ k.of[s] # NoSym
  BY DEF Fits, WellTyped
<1>3. r[k.of[s]].write
  BY <1>2 DEF BySymbol
<1> HIDE DEF x, t, p, r, env
<1> QED BY <1>1, <1>2, <1>3 DEF ValueOf

\* Only members of choices stick, and they are forgotten with the program.
StickyInv ==
  /\ prog = "none" => sticky = {}
  /\ \A s \in sticky : s \in K.syms /\ K.of[s] # NoSym

\* A calculation makes only members stick.
LEMMA CalculateSticks ==
  ASSUME InForce, StickyInv, UNCHANGED K, NEW u, Calculate(u)
  PROVE  (\A s \in sticky : s \in K.syms /\ K.of[s] # NoSym)'
<1>1. sticky' = sticky \cup Members({x \in K.choices : c'.write[x]})
  BY DEF Calculate
<1>2. \A s \in Members({x \in K.choices : c'.write[x]}) : s \in K.syms /\ K.of[s] # NoSym
  BY InForceFacts DEF Members, WellTyped
<1> QED BY <1>1, <1>2 DEF StickyInv

\* StickyInv is invariant.
LEMMA StickyInit == Init => StickyInv
BY DEF Init, StickyInv

LEMMA StickyStep ==
  ASSUME SavedInv, StickyInv, [Next]_vars
  PROVE  StickyInv'
<1>i. InForce
  BY DEF SavedInv
<1>1. CASE UNCHANGED vars
  BY <1>1 DEF vars, StickyInv
<1>2. CASE Upgrade
  <2>1. sticky = {} /\ sticky' = {}
    BY <1>2 DEF Upgrade, work, StickyInv
  <2> QED BY <2>1 DEF StickyInv
<1>3. CASE Kill \/ WriteAuto \/ Save \/ SaveNow
  <2>1. sticky' = {}
    BY <1>3 DEF Kill, WriteAuto, Idle, Save, SaveNow
  <2> QED BY <2>1 DEF StickyInv
<1>4. ASSUME UNCHANGED K, NEW u, Calculate(u), prog' # "none"
      PROVE  StickyInv'
  BY <1>i, <1>4, CalculateSticks DEF StickyInv
<1>5. ASSUME UNCHANGED <<K, sticky>>, prog' # "none"
      PROVE  StickyInv'
  BY <1>5 DEF StickyInv
<1>6. ASSUME UNCHANGED K, NEW f, NEW always, ReadFrom(f, always), prog' # "none"
      PROVE  StickyInv'
  <2>1. PICK simple, d : Calculate(Checked(K, f, simple, d).user)
    BY <1>6 DEF ReadFrom
  <2>2. PICK u : u = Checked(K, f, simple, d).user
    OBVIOUS
  <2> QED BY <1>4, <1>6, <2>1, <2>2
<1>7. ASSUME UNCHANGED K, ReadConfig, prog' # "none"
      PROVE  StickyInv'
  <2>1. CASE file = NoFile
    <3>1. PICK u : u = Fresh
      OBVIOUS
    <3> QED BY <1>4, <1>7, <2>1, <3>1 DEF ReadConfig
  <2>2. CASE file # NoFile
    <3>1. PICK f : f = file
      OBVIOUS
    <3>2. ReadFrom(f, FALSE)
      BY <1>7, <2>2, <3>1 DEF ReadConfig
    <3> QED BY <1>6, <1>7, <3>2
  <2> QED BY <2>1, <2>2
<1>8. CASE StartMconf \/ \E m \in {"all", "silent"} : StartConf(m)
  <2>1. UNCHANGED K /\ ReadConfig /\ prog' # "none"
    BY <1>8 DEF StartMconf, StartConf, Starts
  <2> QED BY <1>7, <2>1
<1>9. ASSUME NEW u, StartSet(u)
      PROVE  StickyInv'
  <2>1. UNCHANGED K /\ prog' # "none" /\ Calculate(u)
    BY <1>9 DEF StartSet, Starts
  <2> QED BY <1>4, <2>1
<1>10. CASE (\E v \in {0, 2} : StartSet(AllNew(K, Fresh, v))) \/ \E yes \in Rolls, p \in Picks : StartSet(AllRandom(K, Fresh, yes, p))
  <2>1. CASE \E v \in {0, 2} : StartSet(AllNew(K, Fresh, v))
    <3>1. PICK v \in {0, 2} : StartSet(AllNew(K, Fresh, v))
      BY <2>1
    <3>2. PICK u : u = AllNew(K, Fresh, v)
      OBVIOUS
    <3> QED BY <1>9, <3>1, <3>2
  <2>2. CASE \E yes \in Rolls, p \in Picks : StartSet(AllRandom(K, Fresh, yes, p))
    <3>1. PICK yes \in Rolls, p \in Picks : StartSet(AllRandom(K, Fresh, yes, p))
      BY <2>2
    <3>2. PICK u : u = AllRandom(K, Fresh, yes, p)
      OBVIOUS
    <3> QED BY <1>9, <3>1, <3>2
  <2> QED BY <1>10, <2>1, <2>2
<1>11. ASSUME UNCHANGED K, NEW s, NEW v, Put1(s, v), prog' # "none"
       PROVE  StickyInv'
  <2>1. CASE Recalculates(user, c, s, v)
    <3>1. PICK u : u = SetUser(K, user, c, s, v)
      OBVIOUS
    <3>2. Calculate(u)
      BY <1>11, <2>1, <3>1 DEF Put1
    <3> QED BY <1>4, <1>11, <3>2
  <2>2. CASE ~Recalculates(user, c, s, v)
    <3>1. UNCHANGED sticky
      BY <1>11, <2>2 DEF Put1
    <3> QED BY <1>5, <1>11, <3>1
  <2> QED BY <2>1, <2>2
<1>12. CASE Edit
  <2>1. UNCHANGED K /\ prog' # "none"
    BY <1>12 DEF Edit
  <2>2. PICK s \in K.syms : \E v \in Answers(s) : Put1(s, v)
    BY <1>12 DEF Edit
  <2>3. PICK v \in Answers(s) : Put1(s, v)
    BY <2>2
  <2> QED BY <1>11, <2>1, <2>3
<1>13. ASSUME NEW there \in BOOLEAN, LoadAgain(there)
       PROVE  StickyInv'
  <2>1. UNCHANGED K /\ prog' # "none"
    BY <1>13 DEF LoadAgain
  <2>2. CASE there
    <3>1. PICK f : f = file
      OBVIOUS
    <3>2. ReadFrom(f, TRUE)
      BY <1>13, <2>2, <3>1 DEF LoadAgain
    <3> QED BY <1>6, <2>1, <3>2
  <2>3. CASE ~there
    <3>1. UNCHANGED sticky
      BY <1>13, <2>3 DEF LoadAgain, Loads
    <3> QED BY <1>5, <2>1, <3>1
  <2> QED BY <2>2, <2>3
<1>14. ASSUME NEW save \in BOOLEAN, Leave(save)
       PROVE  StickyInv'
  <2>1. UNCHANGED <<K, sticky>> /\ prog' # "none"
    BY <1>14 DEF Leave
  <2> QED BY <1>5, <2>1
<1>15. CASE Ask
  <2>1. UNCHANGED K /\ prog' # "none"
    BY <1>15 DEF Ask, NextLoop
  <2>2. ASSUME Same
        PROVE  StickyInv'
    BY <1>5, <2>1, <2>2 DEF Same
  <2>3. ASSUME NEW m, AskChoice(m)
        PROVE  StickyInv'
    <3>1. Same \/ \E x : Put1(x.sym, 2)
      BY <2>3 DEF AskChoice
    <3>2. ASSUME NEW x, Put1(x.sym, 2)
          PROVE  StickyInv'
      BY <1>11, <2>1, <3>2
    <3> QED BY <2>2, <3>1, <3>2
  <2>4. ASSUME NEW s, AskSymbol(s)
        PROVE  StickyInv'
    <3>1. Same \/ \E v : Put1(s, v)
      BY <2>4 DEF AskSymbol
    <3> QED BY <1>11, <2>1, <2>2, <3>1
  <2>5. Same \/ (\E m : AskChoice(m)) \/ \E s : AskSymbol(s)
    BY <1>15 DEF Ask, Check, Visit, NextLoop
  <2> QED BY <2>2, <2>3, <2>4, <2>5
<1> QED BY <1>1, <1>2, <1>3, <1>8, <1>10, <1>12, <1>13, <1>14, <1>15 DEF Next

\* What conf_write leaves has all, and what more it has are members that stick.
LEMMA WrittenHasAll ==
  ASSUME InForce, StickyInv, UNCHANGED <<K, c>>, file' = Lines(K, c, Written), sticky' = {}
  PROVE  HasAll(K, file, Lines(K, c, Written))'
<1>1. PICK k, d, f : k = K /\ d = c /\ f = Lines(K, c, Written)
  OBVIOUS
<1> DEFINE lines == [s \in {x \in k.syms \ k.choices : d.write[x]} |-> d.cur[s]]
<1>2. K' = k /\ file' = f /\ Lines(K, c, Written)' = lines
  <2>1. \A x \in K'.syms : Written'[x] = (d.write[x] \/ x \in sticky')
    BY <1>1 DEF Written
  <2>2. {x \in k.syms \ k.choices : Written'[x]} = {x \in k.syms \ k.choices : d.write[x]}
    BY <1>1, <2>1
  <2> QED BY <1>1, <2>2 DEF Lines
<1>3. /\ DOMAIN f = {x \in k.syms \ k.choices : d.write[x] \/ x \in sticky}
      /\ \A s \in DOMAIN f : f[s] = d.cur[s]
  BY <1>1 DEF Lines, Written
<1>4. \A s \in DOMAIN lines : s \in DOMAIN f /\ f[s] = lines[s]
  BY <1>3
<1>5. \A s \in DOMAIN f \ DOMAIN lines : s \in k.syms /\ k.of[s] # NoSym
  BY <1>1, <1>3 DEF StickyInv
<1> HIDE DEF lines
<1> QED BY <1>2, <1>4, <1>5 DEF HasAll

\* conf_read leaves nothing changed only where the file has all.
LEMMA ReadHasAll ==
  ASSUME InForce, FileOK(file), sticky = {}, UNCHANGED <<K, file>>, ReadConfig, ~changed'
  PROVE  HasAll(K, file, Lines(K, c, Written))'
<1>1. PICK k, d, f : k = K /\ d = c' /\ f = file /\ Fits(k)
  BY InForceFits
<1>2. ReadFrom(f, FALSE) /\ FileOK(f)
  BY <1>1 DEF ReadConfig
<1>3. /\ Saved(k, d, f) /\ \A s \in DOMAIN f : s \in k.syms \ k.choices /\ d.write[s]
      /\ sticky' = Members({x \in K.choices : d.write[x]})
  BY <1>1, <1>2, ReadFromSaved
<1>4. PICK u : IsCalculation(k, u, d)
  <2>1. CalcOK'
    BY ReadConfigOK
  <2>2. PICK u : IsCalculation(K', u, c')
    BY <2>1 DEF CalcOK
  <2> QED BY <1>1, <2>2
<1>5. \A s \in sticky' : s \in k.syms /\ d.write[s]
  BY <1>1, <1>3, <1>4, MembersWritten DEF Members
<1> DEFINE lines == [s \in {x \in k.syms \ k.choices : d.write[x]} |-> d.cur[s]]
<1>6. K' = k /\ file' = f /\ Lines(K, c, Written)' = lines
  <2>1. \A x \in K'.syms : Written'[x] = (d.write[x] \/ x \in sticky')
    BY <1>1 DEF Written
  <2>2. {x \in k.syms \ k.choices : Written'[x]} = {x \in k.syms \ k.choices : d.write[x]}
    BY <1>1, <1>5, <2>1
  <2> QED BY <1>1, <2>2 DEF Lines
<1>7. \A s \in DOMAIN lines : s \in DOMAIN f /\ f[s] = lines[s]
  BY <1>3 DEF Saved
<1>8. DOMAIN f \ DOMAIN lines = {}
  BY <1>3
<1> HIDE DEF lines
<1> QED BY <1>6, <1>7, <1>8 DEF HasAll

\* While mconf has nothing marked as changed, .config has all that it would
\* save, from the moment it has read it: only loading another file, or one that
\* is not there, may change that.
THEOREM NothingIsLost == Spec => NothingLost
<1> DEFINE Lost == NothingUnsaved /\ ~NothingUnsaved'
           ByLoading == edits' = edits + 1 /\ UNCHANGED <<K, file, prog>> /\ \E f \in Files \cup {NoFile} : Loads(f)
<1>1. ASSUME SavedInv, StickyInv, [Next]_vars, Lost
      PROVE  ByLoading
  <2>i. InForce /\ FileOK(file)
    BY <1>1 DEF SavedInv
  <2>1. prog' \in {"edit", "tree", "list"} /\ ~changed' /\ ~HasAll(K, file, Lines(K, c, Written))'
    BY <1>1 DEF NothingUnsaved
  <2>2. ASSUME UNCHANGED <<K, c, sticky, file, prog, changed>>
        PROVE  FALSE
    <3>1. Written' = Written
      BY <2>2 DEF Written
    <3>2. HasAll(K, file, Lines(K, c, Written))' <=> HasAll(K, file, Lines(K, c, Written))
      BY <2>2, <3>1 DEF HasAll, Lines
    <3> QED BY <1>1, <2>1, <2>2, <3>2 DEF NothingUnsaved
  <2>3. ASSUME prog' \notin {"edit", "tree", "list"}
        PROVE  FALSE
    BY <2>1, <2>3
  <2>4. CASE UNCHANGED vars
    BY <2>2, <2>4 DEF vars
  <2>5. CASE Upgrade
    BY <2>3, <2>5 DEF Upgrade, work
  <2>6. CASE Kill \/ WriteAuto \/ Save
    BY <2>3, <2>6 DEF Kill, WriteAuto, Save, Idle
  <2>7. CASE StartMconf
    <3>1. UNCHANGED <<K, file>> /\ ReadConfig /\ prog = "none"
      BY <2>7 DEF StartMconf, Starts
    <3>2. sticky = {}
      BY <1>1, <3>1 DEF StickyInv
    <3>3. HasAll(K, file, Lines(K, c, Written))'
      BY <2>i, <2>1, <3>1, <3>2, ReadHasAll
    <3> QED BY <2>1, <3>3
  <2>8. CASE \E m \in {"all", "silent"} : StartConf(m)
    BY <2>3, <2>8 DEF StartConf, Starts
  <2>9. ASSUME NEW u, StartSet(u)
        PROVE  FALSE
    BY <2>3, <2>9 DEF StartSet, Starts
  <2>10. CASE (\E v \in {0, 2} : StartSet(AllNew(K, Fresh, v))) \/ \E yes \in Rolls, p \in Picks : StartSet(AllRandom(K, Fresh, yes, p))
    BY <2>3, <2>10 DEF StartSet, Starts
  <2>11. CASE Edit
    <3>1. UNCHANGED <<K, file, prog>>
      BY <2>11 DEF Edit
    <3>2. PICK s, v : Put1(s, v)
      BY <2>11 DEF Edit
    <3>3. changed' = TRUE \/ UNCHANGED <<c, sticky, changed>>
      BY <3>2 DEF Put1
    <3> QED BY <2>1, <2>2, <3>1, <3>3
  <2>12. CASE SaveNow
    <3>1. UNCHANGED <<K, c>> /\ file' = Lines(K, c, Written) /\ sticky' = {}
      BY <2>12 DEF SaveNow
    <3>2. HasAll(K, file, Lines(K, c, Written))'
      BY <1>1, <2>i, <3>1, WrittenHasAll
    <3> QED BY <2>1, <3>2
  <2>13. ASSUME NEW there \in BOOLEAN, LoadAgain(there)
         PROVE  ByLoading
    <3>1. CASE there
      <4>1. changed' = TRUE
        BY <2>13, <3>1 DEF LoadAgain, ReadFrom
      <4> QED BY <2>1, <4>1
    <3>2. CASE ~there
      <4>1. Loads(NoFile) /\ edits' = edits + 1 /\ UNCHANGED <<K, file, prog>>
        BY <2>13, <3>2 DEF LoadAgain
      <4> QED BY <4>1
    <3> QED BY <3>1, <3>2
  <2>14. CASE \E save \in BOOLEAN : Leave(save)
    BY <2>3, <2>14 DEF Leave
  <2>15. CASE Ask
    <3>1. prog' \in {"ask", "write"}
      BY <2>15 DEF Ask, NextLoop
    <3> QED BY <2>3, <3>1
  <2> HIDE DEF ByLoading
  <2> QED BY <1>1, <2>4, <2>5, <2>6, <2>7, <2>8, <2>10, <2>11, <2>12, <2>13, <2>14, <2>15 DEF Next
<1>2. SavedInv /\ StickyInv /\ [Next]_vars => [Lost => ByLoading]_vars
  BY <1>1
<1>3. Init => SavedInv /\ StickyInv
  BY RereadInit, StickyInit
<1>4. SavedInv /\ StickyInv /\ [Next]_vars => (SavedInv /\ StickyInv)'
  BY RereadStep, StickyStep
<1> QED BY <1>2, <1>3, <1>4, PTL DEF Spec, NothingLost

------------------------------------------------------------------------------
(* auto.conf and the headers                                                *)

\* auto.conf has no line for an option that is "n".
OnlySet == \A s \in DOMAIN auto \ {NoSym} : s \in IntSyms \/ auto[s] # 0

\* conf_split_config touches the headers of the options whose line in auto.conf
\* changes and no other, for any Config.in files, values and earlier auto.conf:
\* it compares values and not lines, but no line says "n".
THEOREM HeadersAreTouched == HeadersSpec => TouchedIfChanged
<1> DEFINE Lined == {x \in K.syms \ K.choices : Written[x] /\ (x \in IntSyms \/ c.cur[x] # 0)}
<1>1. HeadersInit => OnlySet
  BY DEF HeadersInit, OnlySet
<1>2. ASSUME WriteHeaders
      PROVE  /\ DOMAIN auto' = Lined
             /\ \A s \in Lined : auto'[s] = c.cur[s]
  BY <1>2 DEF WriteHeaders, AutoLines
<1>3. OnlySet /\ [HeadersNext]_headerVars => OnlySet'
  <2>1. ASSUME OnlySet, WriteHeaders
        PROVE  OnlySet'
    BY <2>1, <1>2 DEF OnlySet
  <2>2. ASSUME OnlySet, UNCHANGED <<auto, touched>>
        PROVE  OnlySet'
    BY <2>2 DEF OnlySet
  <2>3. QED
    BY <2>1, <2>2 DEF HeadersNext, headerVars
<1>4. ASSUME OnlySet, WriteHeaders,
             NEW s \in (DOMAIN auto \cup K.syms \cup touched') \ ({NoSym} \cup K.choices),
             ~Unreadable(s)
      PROVE  s \in touched' <=> LineChanges(s)
  <2> DEFINE old == {x \in DOMAIN auto \ {NoSym} : x \notin K.syms \/ auto[x] # Empty}
  <2>1. /\ s \in old <=> s \in DOMAIN auto
        /\ s \in DOMAIN auto => s \in IntSyms \/ auto[s] # 0
    BY <1>4 DEF Unreadable, OnlySet
  <2>2. s \in DOMAIN auto' <=> s \in K.syms /\ Written[s] /\ (s \in IntSyms \/ c.cur[s] # 0)
    BY <1>2, <1>4
  <2>3. s \in DOMAIN auto' => auto'[s] = c.cur[s]
    BY <1>2, <1>4
  <2>4. CASE s \notin K.syms
    <3>1. s \in touched' <=> s \in old
      BY <1>4, <2>4 DEF WriteHeaders, Touched
    <3>2. QED
      BY <1>4, <2>1, <2>2, <2>4, <3>1 DEF LineChanges, WriteHeaders, Touched
  <2>5. CASE s \in K.syms /\ Written[s] /\ s \in old
    <3>1. s \in touched' <=> c.cur[s] # auto[s]
      BY <1>4, <2>5 DEF WriteHeaders, Touched
    <3>2. QED
      BY <2>1, <2>2, <2>3, <2>5, <3>1 DEF LineChanges
  <2>6. CASE s \in K.syms /\ Written[s] /\ s \notin old
    <3>1. s \in touched' <=> s \in IntSyms \/ c.cur[s] # 0
      BY <1>4, <2>6 DEF WriteHeaders, Touched
    <3>2. QED
      BY <2>1, <2>2, <2>3, <2>6, <3>1 DEF LineChanges
  <2>7. CASE s \in K.syms /\ ~Written[s]
    <3>1. s \in touched' <=> s \in old
      BY <1>4, <2>7 DEF WriteHeaders, Touched
    <3>2. QED
      BY <2>1, <2>2, <2>7, <3>1 DEF LineChanges
  <2>8. QED
    BY <2>4, <2>5, <2>6, <2>7
<1>5. OnlySet => [WriteHeaders =>
        \A s \in (DOMAIN auto \cup K.syms \cup touched') \ ({NoSym} \cup K.choices) :
          ~Unreadable(s) => (s \in touched' <=> LineChanges(s))]_headerVars
  BY <1>4
<1>6. QED
  BY <1>1, <1>3, <1>5, PTL DEF HeadersSpec, TouchedIfChanged

\* Every program of Conf does to auto.conf and the headers what Headers has them
\* do: it leaves them alone while it runs, and nothing but conf_write_autoconf at
\* its end writes them, with the calculation that was saved or left.
THEOREM ConfIsHeaders == Spec => HeadersSpec
<1>1. Init => HeadersInit
  BY DEF Init, HeadersInit, NoFile
<1>2. ASSUME [Next]_vars
      PROVE  [HeadersNext]_headerVars
  <2>1. CASE WriteAuto
    BY <2>1 DEF WriteAuto, HeadersNext
  <2>2. CASE Upgrade
    BY <2>2 DEF Upgrade, HeadersNext
  <2>3. CASE Kill
    BY <2>3 DEF Kill, HeadersNext
  <2>4. CASE StartMconf
    BY <2>4 DEF StartMconf, Starts, HeadersNext
  <2>5. ASSUME NEW m \in {"all", "silent"}, StartConf(m)
        PROVE  HeadersNext
    BY <2>5 DEF StartConf, Starts, HeadersNext
  <2>6. ASSUME NEW u, StartSet(u)
        PROVE  HeadersNext
    BY <2>6 DEF StartSet, Starts, HeadersNext
  <2>7. CASE Edit
    BY <2>7 DEF Edit, HeadersNext
  <2>8. CASE SaveNow
    BY <2>8 DEF SaveNow, HeadersNext
  <2>9. ASSUME NEW there \in BOOLEAN, LoadAgain(there)
        PROVE  HeadersNext
    BY <2>9 DEF LoadAgain, HeadersNext
  <2>10. ASSUME NEW save \in BOOLEAN, Leave(save)
         PROVE  HeadersNext
    BY <2>10 DEF Leave, HeadersNext
  <2>11. CASE Ask
    BY <2>11 DEF Ask, HeadersNext
  <2>12. CASE Save
    BY <2>12 DEF Save, HeadersNext
  <2>13. CASE UNCHANGED vars
    BY <2>13 DEF vars, headerVars
  <2> QED
    BY <1>2, <2>1, <2>2, <2>3, <2>4, <2>5, <2>6, <2>7, <2>8, <2>9, <2>10, <2>11, <2>12, <2>13 DEF Next
<1> QED BY <1>1, <1>2, PTL DEF Spec, HeadersSpec

\* So of conf and mconf too: gcc is rebuilt for the options that changed since
\* make last looked, and for no other.
THEOREM MakeIsTold == Spec => TouchedIfChanged
BY ConfIsHeaders, HeadersAreTouched
=============================================================================
