------------------------------ MODULE Windows ------------------------------
\* The windows of lxdialog and the reader of Config.in, each with its own state:
\* what MCBuild composes with the programs, and what the proofs are about.
EXTENDS Integers, Sequences

CONSTANTS
  Items, Letter, Heights, Blank, None, NoItem,           \* MenuBox
  Texts, Width, Inits, Chars, MAX_LEN, Nul, Space,       \* TextBox
  Top, Sourced, Words, TextWords, MaxLines               \* Reader

VARIABLES
  box, items, height, marked, kept, scroll, first_item, choice, button, screen, stale, answer,
  paper, text, boxh, page, begin_reached, end_reached, page_length, shown,
  instr, input_x, offset, chosen, field, shifted,
  reading, flags, entries, open, takes, waits, helping, first_ts, result, log

Boxes == INSTANCE MenuBox
Papers == INSTANCE TextBox WITH box <- paper, scroll <- offset, button <- chosen
Reader == INSTANCE Reader

boxVars == <<box, items, height, marked, kept, scroll, first_item, choice, button, screen, stale, answer>>
paperVars == <<paper, text, boxh, page, begin_reached, end_reached, page_length, shown,
               instr, input_x, offset, chosen, field, shifted>>
readVars == <<reading, flags, entries, open, takes, waits, helping, first_ts, result, log>>

\* A menu has entries, and a window lines for them.
MenuAssumption ==
  /\ \A its \in Items : Len(its) \in Nat \ {0} /\ DOMAIN its = 1..Len(its)
  /\ Heights \subseteq Nat \ {0}
  /\ None \notin {"menu", "list", "yesno", "crashed"}
ASSUME MenuAssumption

\* A text is not empty; a value fits into the buffer, and \0 is none of its
\* characters.
TextAssumption ==
  /\ \A t \in Texts : t.lines \in Nat \ {0}
  /\ Heights \subseteq Nat \ {0} /\ Width \in Nat \ {0} /\ MAX_LEN \in Nat
  /\ \A v \in Inits : Len(v) \in 0..MAX_LEN /\ \A i \in 1..Len(v) : v[i] # Nul
  /\ Nul \notin Chars
  /\ None \notin {"text", "input"}
ASSUME TextAssumption

\* The word of a line that sources a file is the name of the file: none of the
\* language's own.
ReaderAssumption ==
  Reader!AllFiles \cap
    ({"blank"} \cup Reader!Starters \cup DOMAIN Reader!Ends
       \cup UNION {Reader!Options[s] : s \in DOMAIN Reader!Options}) = {}
ASSUME ReaderAssumption

\* conf_parse: what is accepted is what the lines say (Reader.tla).
ReadAsWritten == Reader!ReadAsWritten
=============================================================================
