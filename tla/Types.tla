------------------------------- MODULE Types -------------------------------
(***************************************************************************)
(* The names of the symbols by type (expr.h: enum symbol_type), and what    *)
(* stands for no symbol and for no text.                                    *)
(***************************************************************************)
EXTENDS Integers, FiniteSetsExt

CONSTANTS
  BoolSyms,     \* symbols of type S_BOOLEAN
  TriSyms,      \* symbols of type S_TRISTATE
  IntSyms       \* symbols of type S_INT, and S_HEX and S_STRING

NoSym == "none"
Empty == -1                  \* the text "", as a number

\* Is an entry of the Config.in files one of a symbol?
IsSymbol(e) == e.sym # NoSym

\* tristate: no, mod, yes
Least(a, b) == IF a < b THEN a ELSE b
Most(a, b) == IF a > b THEN a ELSE b

\* sym_check_deps: the members of a choice count as the choice; what such a
\* symbol is calculated from.
Stands(k, s) == IF k.of[s] = NoSym THEN s ELSE k.of[s]
From(k, s) == k.reads[s] \cup ((UNION {k.reads[x] : x \in {y \in k.syms : k.of[y] = s}}) \ {s})
=============================================================================
