------------------------------- MODULE TreeView -------------------------------
(***************************************************************************)
(* gconf (make gconfig): the entries as rows of a tree, in one of three     *)
(* views.  The full view has all of them in the right pane (tree2), the     *)
(* single view one menu, and the split view lists the menus in the left     *)
(* pane (tree1) and one of them in the right.  A change does not fill the   *)
(* pane again: update_tree adds, removes and rewrites rows where needed.    *)
(***************************************************************************)
EXTENDS Kconfig
LOCAL S == INSTANCE SequencesExt

VARIABLES
  view,         \* view_mode
  show_all,     \* entries that cannot be seen have (grey) rows too
  current,      \* the menu of the single view
  browsed,      \* and that of the split view
  back,         \* may "Back" be clicked?
  tree1,        \* entries with a row in the left pane
  tree2,        \* rows of the right pane: [menu, value, rows]
  src,          \* the entry whose rows are in the right pane
  pane          \* "made" by display_tree, "whole" after update_tree, "cut" when
                \*   that went back too early, "spoilt" when rows of two
                \*   fillings have mixed: its rows are not followed then

treeVars == <<view, show_all, current, browsed, back, tree1, tree2, src, pane>>
NoMenu == -1
Gui(v, all, d) == [view |-> v, all |-> all, d |-> d]

\* fill_row: what its symbol is, and what it could be set to
Value(d, m) ==
  CASE ~IsSymbol(m) -> <<0, {}>>
    [] IsSymbol(m) /\ m.sym \in K.choices ->
         LET shown == {x \in {m.list[n] : n \in DOMAIN m.list} : x.sym = d.pick[m.sym] /\ MenuVisible(K, d, x)}
         IN  <<IF d.pick[m.sym] = NoSym \/ shown = {} THEN 0 ELSE K.entry[d.pick[m.sym]].id, {}>>
    [] IsSymbol(m) /\ m.sym \in IntSyms -> <<d.cur[m.sym], {}>>
    [] OTHER -> <<d.cur[m.sym], {v \in {0, 2} : v # d.cur[m.sym] /\ TriInRange(K, d, m.sym, v)}>>
Filled(g, m, rows) == [menu |-> m.id, value |-> Value(g.d, m), rows |-> rows]
Shows(g, m) == g.all \/ MenuVisible(K, g.d, m)

\* display_tree: the rows for the list of m, in pane t
RECURSIVE Displayed(_, _, _)
Displayed(g, m, t) ==
  LET Elsewhere(x) == g.view = "split" /\ (x.id \in K.roots) = (t = 2)
      Below(x) == IF \/ g.view # "full" /\ x.kind = "menu" /\ t = 2
                     \/ g.view = "single" /\ m.id \notin K.roots
                  THEN <<>> ELSE Displayed(g, x, t)
      Rows(x) == IF Elsewhere(x) \/ ~Shows(g, x) THEN <<>> ELSE <<Filled(g, x, Below(x))>>
  IN  S!FlattenSeq([n \in DOMAIN m.list |-> Rows(m.list[n])])

\* gtktree_iter_find_node
RECURSIVE HasRow(_, _)
HasRow(rows, id) == \E n \in DOMAIN rows : rows[n].menu = id \/ HasRow(rows[n].rows, id)

\* update_tree: goes through the list ms of menus and the rows side by side;
\* the rows before the iterator are done.  A row is rewritten when its symbol
\* is fresh (SYMBOL_CHANGED).  What has to go is taken out where the iterator
\* stands, and when that was the last row the rest of the list is passed over.
RECURSIVE Updated(_, _, _, _, _)
Updated(g, fresh, ms, done, rows) ==
  IF ms = <<>> THEN [rows |-> done \o rows, cut |-> FALSE] ELSE
  LET m == Head(ms)
      found == HasRow(done \o rows, m.id)
      first == rows # <<>> /\ rows[1].menu = m.id
      After(below, row) ==
        LET rest == Updated(g, fresh, Tail(ms), Append(done, [row EXCEPT !.rows = below.rows]),
                            IF first THEN Tail(rows) ELSE rows)
        IN  [rest EXCEPT !.cut = @ \/ below.cut]
  IN  CASE found /\ ~(first /\ Shows(g, m)) ->
             IF Len(rows) <= 1 THEN [rows |-> done, cut |-> \E n \in 2..Len(ms) : Shows(g, ms[n])]
             ELSE Updated(g, fresh, ms, done, Tail(rows))
        [] ~found /\ ~Shows(g, m) -> Updated(g, fresh, Tail(ms), done, rows)
        [] first /\ Shows(g, m) ->
             After(Updated(g, fresh, m.list, <<>>, rows[1].rows),
                   IF m.sym \in fresh THEN Filled(g, m, <<>>) ELSE rows[1])
        [] OTHER -> After(Updated(g, fresh, m.list, <<>>, <<>>), Filled(g, m, <<>>))

------------------------------------------------------------------------------
\* The right pane: filled anew, or brought up to date, from what stands below m.
Fill(g, m) == tree2' = Displayed(g, m, 2) /\ src' = m.id /\ pane' = "made"

Put2(u) == tree2' = u.rows /\ pane' = IF u.cut THEN "cut" ELSE "whole"
Update(g, fresh, m) ==
  IF pane # "spoilt" /\ (src = m.id \/ tree2 = <<>>)
  THEN Put2(Updated(g, fresh, m.list, <<>>, tree2)) /\ src' = m.id
  ELSE tree2' = <<>> /\ pane' = "spoilt" /\ UNCHANGED src

\* display_list: the left pane
RECURSIVE RowIds(_)
RowIds(rows) == UNION {{rows[n].menu} \cup RowIds(rows[n].rows) : n \in DOMAIN rows}
Listed(g) == RowIds(Displayed(g, MenuOf(Root), 1))
List(g) == tree1' = Listed(g) /\ current' = Root

TreeIdle ==
  /\ view' = "full" /\ show_all' = FALSE /\ current' = Root /\ browsed' = NoMenu /\ back' = FALSE
  /\ tree1' = {} /\ tree2' = <<>> /\ src' = Root /\ pane' = "made"
TreeInit ==
  /\ view = "full" /\ show_all = FALSE /\ current = Root /\ browsed = NoMenu /\ back = FALSE
  /\ tree1 = {} /\ tree2 = <<>> /\ src = Root /\ pane = "made"

\* main
StartTree ==
  /\ Starts("tree", "tree") /\ ReadConfig /\ todo' = <<>>
  /\ view' = "full" /\ show_all' = FALSE /\ current' = Root /\ browsed' = NoMenu /\ back' = FALSE
  /\ tree1' = {} /\ Fill(Gui("full", FALSE, c'), MenuOf(Root))

Stays == UNCHANGED <<kc, K, mode, todo, top, again, runs>>
Now == Gui(view, show_all, c)

\* The rows there are to be clicked.
Clickable ==
  IF pane = "spoilt" THEN {K.menus[n].id : n \in DOMAIN K.menus} \ {Root} ELSE RowIds(tree2)

\* The symbols that sym_set_changed has marked: those of which anything is
\* calculated anew, with the members of such a choice, and what was set.
Marked(d, s) ==
  LET new == {x \in K.syms : \/ d.vis[x] # c.vis[x] \/ d.rev[x] # c.rev[x]
                             \/ d.cur[x] # c.cur[x] \/ d.pick[x] # c.pick[x]}
  IN  new \cup Members(new \cap K.choices) \cup {s}

\* sym_toggle_tristate_value: a number only becomes the user's.
Toggles(s) ==
  IF s \in IntSyms THEN user' = [user EXCEPT ![s].has = TRUE] /\ UNCHANGED <<c, sticky, changed>>
  ELSE Sets(s, Toggled(s))

\* A number that is the user's without ever having had a value has none: the
\* next calculation reads through NULL where it has a range.
Broken ==
  /\ c' # c
  /\ \E s \in IntSyms \cap K.syms :
       /\ user'[s].has /\ user'[s].val = Empty /\ c'.vis[s] # 0
       /\ FirstProp(K.entry[s].range, Env(K, c'.cur)) # 0

\* In the split view nothing may have been browsed yet (browsed is NULL).
Lost == view = "split" /\ browsed = NoMenu

\* A change, what the panes show then, and whether the program survives.
Changes(A, shown, crash) ==
  /\ prog = "tree" /\ edits < MaxEdits /\ edits' = edits + 1
  /\ A /\ shown
  /\ prog' = IF Broken \/ crash THEN "crashed" ELSE prog
  /\ Stays /\ UNCHANGED <<file, auto, touched>>

\* change_sym_value, toggle_sym_value
Repaint(s) ==
  LET g == Gui(view, show_all, c') IN
  /\ CASE Lost -> UNCHANGED <<current, tree1, tree2, src, pane>>
       [] view = "full" -> Update(g, Marked(c', s), MenuOf(Root)) /\ UNCHANGED <<tree1, current>>
       [] view = "split" /\ ~Lost -> Update(g, Marked(c', s), MenuOf(browsed)) /\ List(g)
       [] view = "single" -> Fill(g, MenuOf(current)) /\ UNCHANGED <<tree1, current>>
  /\ UNCHANGED <<view, show_all, browsed, back>>

\* on_treeview2_button_press_event, on_treeview2_key_press_event: a click on
\* the value or a double click on the name, a click in a column or its key
Clicked == {MenuOf(id) : id \in Clickable}
Toggle ==
  \E m \in {x \in Clicked : IsSymbol(x)} : Changes(Toggles(m.sym), Repaint(m.sym), Lost)
Change ==
  \E m \in {x \in Clicked : IsSymbol(x) /\ x.sym \notin IntSyms} : \E v \in {0, 2} :
    Changes(Sets(m.sym, IF TriInRange(K, c, m.sym, v) THEN v ELSE 2), Repaint(m.sym), Lost)

\* renderer_edited: whatever the view, the tree is brought up to date as if it
\* were the full one.
Edited ==
  \E m \in {x \in Clicked : x.sym \in IntSyms} : \E v \in Numbers :
    Changes(Sets(m.sym, v),
            /\ Update(Gui(view, show_all, c'), Marked(c', m.sym), MenuOf(Root))
            /\ UNCHANGED <<view, show_all, current, browsed, back, tree1>>, FALSE)

------------------------------------------------------------------------------
\* What changes nothing but the view.
Views ==
  /\ prog = "tree"
  /\ Stays /\ UNCHANGED <<prog, file, auto, touched, user, c, sticky, changed, edits>>

\* on_single_clicked, on_split_clicked, on_full_clicked
Single ==
  /\ Views
  /\ view' = "single" /\ current' = Root /\ Fill(Gui("single", show_all, c), MenuOf(Root))
  /\ UNCHANGED <<show_all, browsed, back, tree1>>
Split ==
  /\ Views
  /\ view' = "split" /\ List(Gui("split", show_all, c))
  /\ tree2' = <<>> /\ src' = Root /\ pane' = "made" /\ back' = FALSE
  /\ UNCHANGED <<show_all, browsed>>
Full ==
  /\ Views
  /\ view' = "full" /\ current' = Root /\ back' = FALSE
  /\ Fill(Gui("full", show_all, c), MenuOf(Root))
  /\ UNCHANGED <<show_all, browsed, tree1>>

\* on_show_all_options1_activate, on_show_debug_info1_activate
ShowAll ==
  /\ Views
  /\ show_all' = ~show_all /\ current' = Root
  /\ Fill(Gui(view, ~show_all, c), MenuOf(Root))
  /\ UNCHANGED <<view, browsed, back, tree1>>
ShowDebug ==
  /\ Views
  /\ Update(Now, {}, MenuOf(Root))
  /\ UNCHANGED <<view, show_all, current, browsed, back, tree1>>

\* display_tree_part; on_treeview2_button_press_event: a double click on a menu
\* goes down into it.
FillPart(cur) ==
  IF Lost THEN prog' = "crashed" /\ UNCHANGED <<tree2, src, pane>>
  ELSE Fill(Now, MenuOf(IF view = "split" THEN browsed ELSE cur)) /\ UNCHANGED prog
Moves ==
  /\ prog = "tree"
  /\ Stays /\ UNCHANGED <<file, auto, touched, user, c, sticky, changed, edits>>
  /\ UNCHANGED <<view, show_all, browsed, tree1>>
GoDown ==
  /\ Moves /\ view # "full"
  /\ \E m \in {x \in Clicked : x.kind = "menu"} : current' = m.id /\ FillPart(m.id)
  /\ back' = TRUE

\* on_back_clicked: to the entry above, or the one above that if it is not a
\* menu; there is nothing above the root.
Back ==
  /\ Moves /\ back
  /\ IF current = Root THEN prog' = "crashed" /\ UNCHANGED <<current, back, tree2, src, pane>>
     ELSE LET up == Parent(current)
              to == IF MenuOf(up).kind = "menu" THEN up ELSE Parent(up)
          IN  current' = to /\ FillPart(to) /\ back' = (to # Root)

\* on_treeview1_button_press_event: a click shows the menu on the right; the
\* second of a double click toggles it as well.
Browse ==
  /\ Views /\ view = "split"
  /\ \E id \in tree1 : browsed' = id /\ Fill(Now, MenuOf(id))
  /\ UNCHANGED <<view, show_all, current, back, tree1>>
BrowseTwice ==
  /\ view = "split" /\ browsed \in tree1
  /\ LET m == MenuOf(browsed) IN
     /\ IsSymbol(m)
     /\ Changes(Toggles(m.sym), /\ Fill(Gui(view, show_all, c'), m)
                                /\ tree1' = Listed(Gui(view, show_all, c')) /\ current' = m.id
                                /\ UNCHANGED <<view, show_all, browsed, back>>, FALSE)

------------------------------------------------------------------------------
\* load_filename: the tree is filled again without having been emptied.  If
\* the file is not there, nothing counts as changed any more.
LoadTree ==
  \E f \in Files \cup {NoFile} :
    Changes(Loads(f),
            /\ IF f = NoFile THEN UNCHANGED <<tree2, src, pane, current>>
               ELSE /\ current' = Root
                    /\ IF tree2 = <<>> /\ pane # "spoilt" THEN Fill(Gui(view, show_all, c'), MenuOf(Root))
                       ELSE tree2' = <<>> /\ pane' = "spoilt" /\ UNCHANGED src
            /\ UNCHANGED <<view, show_all, browsed, back, tree1>>, FALSE)

\* on_save_activate; on_window1_delete_event, which asks only when there is
\* something to save, and writes no auto.conf
SaveTree ==
  /\ prog = "tree" /\ changed /\ edits < MaxEdits /\ edits' = edits + 1
  /\ file' = Lines(K, c, Written) /\ sticky' = {} /\ changed' = FALSE
  /\ Stays /\ UNCHANGED <<prog, auto, touched, user, c, treeVars>>
QuitTree ==
  /\ prog = "tree" /\ Idle /\ TreeIdle
  /\ file' \in {file} \cup IF changed THEN {Lines(K, c, Written)} ELSE {}
  /\ UNCHANGED <<kc, K, auto, touched>>

TreeNext ==
  \/ StartTree \/ Toggle \/ Change \/ Edited
  \/ Single \/ Split \/ Full \/ ShowAll \/ ShowDebug
  \/ GoDown \/ Back \/ Browse \/ BrowseTwice
  \/ LoadTree \/ SaveTree \/ QuitTree
  \/ prog = "crashed" /\ Kill /\ TreeIdle

------------------------------------------------------------------------------
\* What update_tree leaves is what display_tree would have made of all that
\* can be seen below the same entry: no row is missing unless it was cut
\* short, and no row has a value that is no longer true.
RECURSIVE Kept(_, _)
Kept(rows, ids) ==
  LET some == SelectSeq(rows, LAMBDA x : x.menu \in ids)
  IN  [n \in DOMAIN some |-> [some[n] EXCEPT !.rows = Kept(@, ids)]]
PaneIsRight ==
  prog = "tree" /\ pane # "spoilt" =>
    LET g == IF pane = "made" THEN Now ELSE [Now EXCEPT !.view = "full"]
        all == Displayed(g, MenuOf(src), 2)
    IN  tree2 = IF pane = "cut" THEN Kept(all, RowIds(tree2)) ELSE all
=============================================================================
