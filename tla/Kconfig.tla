------------------------------ MODULE Kconfig ------------------------------
(***************************************************************************)
(* The configuration programs with the trees that they go through: the      *)
(* functions that Conf.tla has as parameters, and what makes the conditions *)
(* and menus of a description right.                                        *)
(***************************************************************************)
EXTENDS Conf, Menu

\* sym_calc_value of all symbols: until nothing changes any more
RECURSIVE Rounds(_, _, _)
GoOn(k, u, r, new) == IF new = r THEN ByField(k, r) ELSE Rounds(k, u, new)
Rounds(k, u, r) == GoOn(k, u, r, Round(k, u, r, Env(k, [s \in k.syms |-> r[s].cur])))
Settled(k, u, d) == Rounds(k, u, BySymbol(k, d))

\* menu_is_visible
RECURSIVE MenuVisible(_, _, _)
MenuVisible(k, d, m) ==
  /\ m.prompt
  /\ \/ IF IsSymbol(m) THEN d.vis[m.sym] # 0 ELSE Val(m.vis, Env(k, d.cur)) # 0
     \/ /\ IsSymbol(m) /\ m.sym \notin IntSyms /\ d.cur[m.sym] # 0
        /\ \E n \in DOMAIN m.list : MenuVisible(k, d, m.list[n])

------------------------------------------------------------------------------
\* What an entry depends on according to the files: its own conditions and
\* those of all that encloses it, up to a choice, which must be "y".
RECURSIVE Holds(_, _, _)
Holds(raw, i, v) ==
  LET e == raw[i] IN
  /\ Val(CheckDep(e.dep), v) # 0 /\ Val(CheckDep(e.vis), v) # 0
  /\ IF e.up = 0 THEN TRUE
     ELSE IF raw[e.up].kind = "choice" THEN v[raw[e.up].sym] # 0
     ELSE Holds(raw, e.up, v)

\* Simplifying never changes when an entry can be seen: whatever the values of
\* the symbols, the condition that expr_transform, expr_eliminate_dups and
\* expr_trans_bool leave of a prompt holds when what the files say does.
ConditionsKept ==
  prog = "none" /\ file = NoFile /\ runs = 0 =>
    \A f \in [K.syms \ IntSyms -> {0, 2}] :
      LET v == Env(K, [s \in K.syms |-> IF s \in IntSyms THEN 0 ELSE f[s]])
      IN  \A n \in DOMAIN K.menus :
            LET m == K.menus[n]
            IN  m.id # Root /\ m.prompt => ((Val(m.vis, v) # 0) <=> Holds(Trees[kc], m.id, v))

\* Whatever can be seen can be reached: the submenus that menu_finalize makes
\* never hide an entry whose prompt is visible from conf and mconf.
VisibleIsAsked ==
  prog # "none" =>
    LET reached == Reached
    IN  \A n \in DOMAIN K.menus :
          K.menus[n].prompt /\ Val(K.menus[n].vis, Env(K, c.cur)) # 0 => K.menus[n].id \in reached
=============================================================================
