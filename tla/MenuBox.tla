------------------------------- MODULE MenuBox -------------------------------
(***************************************************************************)
(* The windows of lxdialog that mconf lets the user choose in: the menu of  *)
(* dialog_menu, the list of dialog_checklist and the question of            *)
(* dialog_yesno.  What is on the screen is kept up to date piece by piece:  *)
(* a line that is highlighted, one that is not any more, one that scrolls   *)
(* in.  What Enter chooses is counted from scroll and choice.               *)
(***************************************************************************)
EXTENDS SequencesExt

CONSTANTS
  Items,      \* lists of entries a menu may have
  Letter,     \* [entry -> key] its first letter
  Heights,    \* lines of the window for the entries
  Blank, None, NoItem

VARIABLES
  box,        \* "menu", "list", "yesno"; None between two of them; "crashed"
  items, height,
  marked,     \* the entry the caller wants the cursor on
  kept,       \* *s_scroll, of the menu's caller
  scroll, first_item, choice, button,
  screen,     \* [line -> what is printed and whether it is highlighted]
  stale,      \* a resize has left first_item of the old window
  answer      \* the entry that was chosen last

vars == <<box, items, height, marked, kept, scroll, first_item, choice, button, screen, stale, answer>>

Least(a, b) == IF a < b THEN a ELSE b
Most(a, b) == IF a > b THEN a ELSE b
Lines == 0..height - 1
max_choice == Least(height, Len(items))
Buttons == [menu |-> 3, list |-> 2, yesno |-> 2]

\* delwin, and the end of a dialog's own variables.
Closed ==
  /\ box' = None /\ items' = <<>> /\ height' = 0 /\ marked' = NoItem /\ stale' = FALSE /\ screen' = <<>>
  /\ scroll' = 0 /\ first_item' = 0 /\ choice' = 0 /\ button' = 0

------------------------------------------------------------------------------
(* A window, being changed by a key                                         *)

Window == [scroll |-> scroll, choice |-> choice, screen |-> screen]
Becomes(w) == scroll' = w.scroll /\ choice' = w.choice /\ screen' = w.screen

\* item_set, do_print_item: the entry for the line, highlighted or not.
Put(w, line, lit) == [w EXCEPT !.screen[line] = <<items[w.scroll + line + 1], lit>>]
Lit(w) == Put(w, w.choice, TRUE)
Unlit(w) == Put(w, w.choice, FALSE)

\* do_scroll, wscrl: what is on the screen moves n lines up.
Scrolled(w, n) ==
  [scroll |-> w.scroll + n, choice |-> w.choice,
   screen |-> [l \in Lines |-> IF l + n \in Lines THEN w.screen[l + n] ELSE Blank]]
\* n times: what has scrolled in is printed.
Printed(w, ls) ==
  [w EXCEPT !.screen = [l \in Lines |-> IF l \in ls THEN <<items[w.scroll + l + 1], FALSE>> ELSE @[l]]]
Back(w, n) == Printed(Scrolled(w, -n), 0..n - 1)
On(w, n) == Printed(Scrolled(w, n), max_choice - n..max_choice - 1)
More(w) == w.scroll + max_choice < Len(items)

------------------------------------------------------------------------------
(* dialog_menu                                                              *)

At(its, item, default) == IF item \in Range(its) THEN (CHOOSE n \in DOMAIN its : its[n] = item) - 1 ELSE default

\* do_resize: where the cursor and the lines go, from what choice and first_item
\* were, for a window of mc lines over n entries.
Placed(c, first, keep, mc, n) ==
  LET fits == keep <= c /\ keep + mc > c /\ keep + mc <= n
      far == ~fits /\ c >= mc
      s == IF fits THEN keep ELSE IF ~far THEN 0 ELSE IF c >= n - mc \div 2 THEN n - mc ELSE c - mc \div 2
  IN  [scroll |-> s, choice |-> c - s, first |-> IF fits \/ far THEN s ELSE first]

\* item_set beyond the last entry leaves no item_cur to print.
Draw(its, h, item, default, first) ==
  LET mc == Least(h, Len(its))
      p == Placed(At(its, item, default), first, kept, mc, Len(its))
  IN  /\ box' = IF p.first + mc > Len(its) THEN "crashed" ELSE "menu"
      /\ items' = its /\ height' = h /\ marked' = item
      /\ scroll' = p.scroll /\ choice' = p.choice /\ first_item' = p.first
      /\ stale' = (p.first # p.scroll)
      /\ screen' = [l \in 0..h - 1 |-> IF l < mc /\ box' = "menu" THEN <<its[p.first + l + 1], l = p.choice>> ELSE Blank]

\* conf: the menu of now, the cursor on the entry chosen last.
Menu ==
  /\ box = None
  /\ \E its \in Items, h \in Heights : Draw(its, h, answer, 0, 0)
  /\ button' = 0 /\ UNCHANGED <<kept, answer>>

\* Escape, the keys for it, and a terminal that gets too small.
Leave == box \in {"menu", "list", "yesno"} /\ Closed /\ UNCHANGED <<kept, answer>>

\* dialog_menu's do_resize.
Resize ==
  /\ box = "menu"
  /\ \E h \in Heights \ {height} : Draw(items, h, marked, choice, first_item)
  /\ UNCHANGED <<kept, button, answer>>

UpKey(w) == IF w.choice < 2 /\ w.scroll > 0 THEN Back(w, 1) ELSE [w EXCEPT !.choice = Most(@ - 1, 0)]
DownKey(w) ==
  IF w.choice > max_choice - 3 /\ More(w) THEN On(w, 1) ELSE [w EXCEPT !.choice = Least(@ + 1, max_choice - 1)]

\* max_choice steps: the first ones scroll, the others move the cursor.
PageUp(w) ==
  LET n == Least(w.scroll, max_choice) IN [Back(w, n) EXCEPT !.choice = Most(@ - (max_choice - n), 0)]
PageDown(w) ==
  LET n == Least(Len(items) - max_choice - w.scroll, max_choice)
  IN  [On(w, n) EXCEPT !.choice = Least(@ + (max_choice - n), max_choice - 1)]

\* The next entry in view that begins with the letter, from the cursor on and
\* around.
Jumps(from, key) ==
  LET named == {l \in 0..max_choice - 1 : Letter[items[scroll + l + 1]] = key}
      after == {l \in named : l > from}
  IN  IF after # {} THEN Min(after) ELSE Min(named)

\* A jump is only to an entry that is there: other keys do nothing.
Move ==
  /\ box = "menu"
  /\ \/ Becomes(Lit(UpKey(Unlit(Window)))) \/ Becomes(Lit(DownKey(Unlit(Window))))
     \/ Becomes(Lit(PageUp(Unlit(Window)))) \/ Becomes(Lit(PageDown(Unlit(Window))))
     \/ \E l \in 0..max_choice - 1 :
          Becomes(Lit([Unlit(Window) EXCEPT !.choice = Jumps(choice, Letter[items[scroll + l + 1]])]))
  /\ UNCHANGED <<box, items, height, marked, kept, first_item, button, stale, answer>>

\* Select, Help, and the keys that set or search: scroll is kept for the caller.
Choose ==
  /\ box = "menu" /\ kept' = scroll /\ answer' = items[scroll + choice + 1] /\ Closed

------------------------------------------------------------------------------
(* dialog_checklist                                                         *)

\* conf_choice: the cursor is on the member that is set.  The list has a fixed height:
\* after a resize the same lines are printed again.
List ==
  /\ box = None /\ box' = "list"
  /\ \E its \in Items, h \in Heights : \E c \in 0..Len(its) - 1 :
       LET s == IF c >= h THEN c - h + 1 ELSE 0
       IN  /\ items' = its /\ height' = h /\ scroll' = s /\ choice' = c - s
           /\ screen' = [l \in 0..h - 1 |-> IF l < Len(its) THEN <<its[s + l + 1], l = c - s>> ELSE Blank]
  /\ button' = 0 /\ UNCHANGED <<marked, kept, first_item, stale, answer>>

\* At the edge the list scrolls under the cursor; elsewhere the cursor moves.
Rolled(w, n) == IF height > 1 THEN Scrolled(Unlit(w), n) ELSE [w EXCEPT !.scroll = @ + n]
ListUp(w) ==
  IF w.choice > 0 THEN Lit([Unlit(w) EXCEPT !.choice = @ - 1])
  ELSE IF w.scroll = 0 THEN w ELSE Put(Rolled(w, -1), 0, TRUE)
ListDown(w) ==
  IF w.choice < max_choice - 1 THEN Lit([Unlit(w) EXCEPT !.choice = @ + 1])
  ELSE IF w.scroll + w.choice >= Len(items) - 1 THEN w ELSE Put(Rolled(w, 1), max_choice - 1, TRUE)

MoveInList ==
  /\ box = "list"
  /\ \/ Becomes(ListUp(Window)) \/ Becomes(ListDown(Window))
     \/ \E l \in 0..max_choice - 1 :
          Becomes(Lit([Unlit(Window) EXCEPT !.choice = Jumps(max_choice, Letter[items[scroll + l + 1]])]))
  /\ UNCHANGED <<box, items, height, marked, kept, first_item, button, stale, answer>>

ChooseInList ==
  box = "list" /\ answer' = items[scroll + choice + 1] /\ Closed /\ UNCHANGED kept

------------------------------------------------------------------------------
(* dialog_yesno and the buttons of all                                      *)

YesNo ==
  /\ box = None /\ box' = "yesno" /\ button' = 0
  /\ UNCHANGED <<items, height, marked, kept, scroll, first_item, choice, screen, stale, answer>>

Turn ==
  /\ box \in DOMAIN Buttons
  /\ \E n \in {-1, 1} : button' = (button + n) % Buttons[box]
  /\ UNCHANGED <<box, items, height, marked, kept, scroll, first_item, choice, screen, stale, answer>>

\* conf for another menu, with its own s_scroll.
Enter ==
  /\ box = None /\ kept' = 0 /\ answer' = NoItem
  /\ UNCHANGED <<box, items, height, marked, scroll, first_item, choice, button, screen, stale>>

Init ==
  /\ box = None /\ items = <<>> /\ height = 0 /\ marked = NoItem /\ kept = 0
  /\ scroll = 0 /\ first_item = 0 /\ choice = 0 /\ button = 0 /\ screen = <<>> /\ stale = FALSE /\ answer = NoItem

Next ==
  \/ Menu \/ Move \/ Choose \/ Resize
  \/ List \/ MoveInList \/ ChooseInList
  \/ YesNo \/ Turn \/ Leave \/ Enter

Spec == Init /\ [][Next]_vars

------------------------------------------------------------------------------
\* After any keys, one line is highlighted, and it shows the entry that Enter
\* chooses; the lines around it show those before and after, none left over from
\* what scrolled by.  Not so in a menu whose window was enlarged or made smaller
\* while first_item was of another place.
HighlightIsChosen ==
  box \in {"menu", "list"} /\ ~stale =>
    /\ choice \in 0..max_choice - 1 /\ scroll + max_choice <= Len(items)
    /\ screen = [l \in Lines |-> IF l < max_choice THEN <<items[scroll + l + 1], l = choice>> ELSE Blank]
=============================================================================
