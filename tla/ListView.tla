------------------------------- MODULE ListView -------------------------------
(***************************************************************************)
(* qconf (make xconfig): the entries of one menu or of all of them in a     *)
(* list (configList), the menus in a second one (menuList), and what was    *)
(* last searched for in a third.  A change goes through the lists in turn;  *)
(* MENU_CHANGED, which an entry has once for all of them, says what rows    *)
(* have to be written again.                                               *)
(***************************************************************************)
EXTENDS Kconfig
LOCAL S == INSTANCE SequencesExt

CONSTANTS Results             \* what sym_re_search may find

VARIABLES
  mode_list,    \* mode of configList: "single", "symbol" (split view), "full"
  rootEntry,    \* of configList
  showAll,      \* of configList
  hasMenus,     \* has menuList been set to show the menus?
  lists         \* the rows [menu, value, rows] of the three, in the order in
                \*   which they are gone through: found, config and menus

listVars == <<mode_list, rootEntry, showAll, hasMenus, lists>>
None3 == [found |-> <<>>, config |-> <<>>, menus |-> <<>>]
Win(m, root, all, has, d) == [mode |-> m, root |-> root, all |-> all, has |-> has, d |-> d]

\* ConfigItem::updateMenu: the value, and those that could be set; nothing
\* where it cannot be changed
RowValue(d, all, m) ==
  CASE ~IsSymbol(m) -> <<0, {}>>
    [] IsSymbol(m) /\ m.sym \in IntSyms -> <<d.cur[m.sym], {}>>
    [] IsSymbol(m) /\ m.sym \notin IntSyms /\ ~Changable(d, m.sym) /\ ~all -> <<Empty, {}>>
    [] OTHER -> <<d.cur[m.sym], {v \in {0, 2} : v # d.cur[m.sym] /\ TriInRange(K, d, m.sym, v)}>>
AllOf3(w, l) == l = "config" /\ w.all
ModeOf(w, l) == IF l = "menus" THEN "menu" ELSE w.mode

\* ConfigList::updateMenuList: goes through the entries of m, each with the row
\* after the last one; rows are put in and taken out, the others are kept.
RECURSIVE Arranged(_, _, _, _, _)
Arranged(w, l, ms, last, items) ==
  IF ms = <<>> THEN last \o items ELSE
  LET m == Head(ms)
      root == m.id \in K.roots
      hidden == \/ ModeOf(w, l) = "menu" /\ ~root
                \/ ModeOf(w, l) = "symbol" /\ root
                \/ ~MenuVisible(K, w.d, m) /\ ~AllOf3(w, l)
      there == items # <<>> /\ items[1].menu = m.id
      rest == IF there THEN Tail(items) ELSE items
      row == IF there THEN items[1] ELSE [menu |-> m.id, value |-> RowValue(w.d, AllOf3(w, l), m), rows |-> <<>>]
      below == IF ModeOf(w, l) \in {"full", "menu"} \/ m.kind # "menu"
               THEN Arranged(w, l, m.list, <<>>, row.rows) ELSE <<>>
  IN  IF hidden THEN Arranged(w, l, Tail(ms), last, rest)
      ELSE Arranged(w, l, Tail(ms), Append(last, [row EXCEPT !.rows = below]), rest)

\* The rows of the entries ids are written again.
RECURSIVE Rewritten(_, _, _, _)
Rewritten(w, l, rows, ids) ==
  [n \in DOMAIN rows |->
     [rows[n] EXCEPT !.rows = Rewritten(w, l, @, ids),
                     !.value = IF rows[n].menu \in ids
                               THEN RowValue(w.d, AllOf3(w, l), MenuOf(rows[n].menu)) ELSE @]]
RECURSIVE Ids(_)
Ids(rows) == UNION {{rows[n].menu} \cup Ids(rows[n].rows) : n \in DOMAIN rows}

\* ConfigList::updateList
ArrangedAll(w, l, rows) ==
  CASE l = "found" -> rows
    [] l = "menus" -> IF w.has THEN Arranged(w, l, MenuOf(Root).list, <<>>, rows) ELSE <<>>
    [] l = "config" -> Arranged(w, l, MenuOf(w.root).list, <<>>, rows)

\* Mutant: only the row at hand is written again.
ListUpdatedAlone(w, ls, l, all, flagged) ==
  LET new == [ls EXCEPT ![l] = ArrangedAll(w, l, @)]
      ids == IF all THEN Ids(new[l]) ELSE Ids(ls[l]) \cap Ids(new[l]) \cap flagged
  IN  [lists |-> [new EXCEPT ![l] = Rewritten(w, l, @, ids)], flagged |-> flagged \ ids]

\* ConfigList::updateList, ConfigItem::testUpdateMenu: the rows of l; where an
\* entry is flagged its rows in all lists are written again, or, with
\* updateAll, every row of this one.
ListUpdated(w, ls, l, all, flagged) ==
  LET new == [ls EXCEPT ![l] = ArrangedAll(w, l, @)]
      ids == Ids(ls[l]) \cap Ids(new[l]) \cap flagged
      fresh == [x \in DOMAIN new |-> Rewritten(w, x, new[x], ids)]
  IN  [lists |-> IF all THEN [fresh EXCEPT ![l] = Rewritten(w, l, @, Ids(@))] ELSE fresh,
       flagged |-> flagged \ ids]

\* ConfigView::updateList, updateListAll: the lists of order, one by one
Everything == <<"found", "config", "menus">>
AllUpdated(w, ls, order, all, flagged) ==
  S!FoldLeft(LAMBDA r, l : ListUpdated(w, r.lists, l, all, r.flagged), [lists |-> ls, flagged |-> flagged], order).lists

ListIdle == mode_list' = "single" /\ rootEntry' = Root /\ showAll' = FALSE /\ hasMenus' = FALSE /\ lists' = None3
ListInit == mode_list = "single" /\ rootEntry = Root /\ showAll = FALSE /\ hasMenus = FALSE /\ lists = None3

------------------------------------------------------------------------------
Window(d) == Win(mode_list, rootEntry, showAll, hasMenus, d)
Kept3 == UNCHANGED <<kc, K, mode, todo, top, again, runs, auto, touched>>
SameValues == UNCHANGED <<prog, file, user, c, sticky, changed, edits>>

\* ConfigMainWindow::showSingleView, showSplitView, showFullView: back to the
\* top; the list of the menus, once there is one, is never emptied.
Shown(m, old, d) ==
  LET w == Win(m, Root, showAll, hasMenus \/ m = "symbol", d)
      ls == IF old.root = Root THEN old.lists ELSE [old.lists EXCEPT !.config = <<>>]
  IN  /\ mode_list' = m /\ rootEntry' = Root /\ hasMenus' = w.has
      /\ lists' = AllUpdated(w, ls, <<"config">> \o IF w.has /\ ~hasMenus THEN <<"menus">> ELSE <<>>, TRUE, {})
Show ==
  /\ prog = "list" /\ Kept3 /\ SameValues /\ UNCHANGED showAll
  /\ \E m \in {"single", "symbol", "full"} : Shown(m, [root |-> rootEntry, lists |-> lists], c)

\* main: the view of the last time
StartList ==
  /\ Starts("list", "list") /\ ReadConfig /\ todo' = <<>>
  /\ \E m \in {"single", "symbol", "full"} : Shown(m, [root |-> Root, lists |-> None3], c')
  /\ UNCHANGED showAll

\* sym_set_changed (MENU_CHANGED): the entries of the symbols of which anything
\* is calculated anew, of the members of such a choice, and of what was set
Flagged(d, s) ==
  LET new == {x \in K.syms : \/ d.vis[x] # c.vis[x] \/ d.rev[x] # c.rev[x]
                             \/ d.cur[x] # c.cur[x] \/ d.pick[x] # c.pick[x]}
  IN  {K.entry[x].id : x \in new \cup Members(new \cap K.choices) \cup {s}}

Changing == prog = "list" /\ edits < MaxEdits /\ edits' = edits + 1 /\ Kept3 /\ UNCHANGED <<prog, file>>
Listed3 == {MenuOf(id) : id \in Ids(lists.found) \cup Ids(lists.config) \cup
                              IF mode_list = "symbol" THEN Ids(lists.menus) ELSE {}}
Passes(order, s) == lists' = AllUpdated(Window(c'), lists, order, FALSE, Flagged(c', s))

\* ConfigList::setValue, changeValue: the keys, and clicks in the columns; only
\* what is refused, or toggled to what it was, calls for no update.
SetValue ==
  /\ Changing /\ UNCHANGED <<mode_list, rootEntry, showAll, hasMenus>>
  /\ \E m \in {x \in Listed3 : IsSymbol(x) /\ x.sym \notin IntSyms} : \E v \in {0, 2} :
       Settable(K, c, m.sym, v) /\ Put1(m.sym, v) /\ Passes(Everything, m.sym)
ChangeValue ==
  /\ Changing /\ UNCHANGED <<mode_list, rootEntry, showAll, hasMenus>>
  /\ \E m \in {x \in Listed3 : IsSymbol(x) /\ x.sym \notin IntSyms} :
       /\ Sets(m.sym, Toggled(m.sym))
       /\ IF c' # c THEN Passes(Everything, m.sym) ELSE UNCHANGED lists

\* ConfigLineEdit::keyPressEvent, ConfigItem::okRename: a number; when it is
\* typed into the list itself the other lists are not gone through (no
\* condition reads a number, so its own rows are all that is flagged).
TypeValue ==
  /\ Changing /\ UNCHANGED <<mode_list, rootEntry, showAll, hasMenus>>
  /\ \E m \in {x \in Listed3 : x.sym \in IntSyms}, v \in Numbers :
       /\ Sets(m.sym, v)
       /\ \E order \in {Everything} \cup {<<l>> : l \in {x \in DOMAIN lists : m.id \in Ids(lists[x])}} :
            Passes(order, m.sym)

\* ConfigList::setRootMenu
SetRootMenu(id) ==
  IF id = rootEntry \/ MenuOf(id).kind # "menu" THEN UNCHANGED <<rootEntry, lists>>
  ELSE /\ rootEntry' = id
       /\ lists' = AllUpdated([Window(c) EXCEPT !.root = id], [lists EXCEPT !.config = <<>>], <<"config">>, TRUE, {})

\* ConfigMainWindow::changeMenu: a menu is opened, or chosen in the list of menus.
ChangeMenu ==
  /\ prog = "list" /\ Kept3 /\ SameValues /\ UNCHANGED <<mode_list, showAll, hasMenus>>
  /\ mode_list # "full"
  /\ \E m \in {x \in Listed3 : x.kind = "menu"} : SetRootMenu(m.id)

\* ConfigMainWindow::goBack, ConfigList::setParentMenu
GoBack ==
  /\ prog = "list" /\ Kept3 /\ SameValues /\ UNCHANGED <<mode_list, showAll, hasMenus>>
  /\ rootEntry # Root
  /\ SetRootMenu(ParentMenu(Parent(rootEntry)))

\* ConfigMainWindow::setMenuLink: what was found is chosen, or a link in the
\* help; nothing of what cannot be seen.
SetMenuLink ==
  /\ prog = "list" /\ Kept3 /\ SameValues /\ UNCHANGED <<mode_list, showAll, hasMenus>>
  /\ \E n \in DOMAIN K.menus :
       LET m == K.menus[n]
       IN  /\ m.id # Root /\ (MenuVisible(K, c, m) \/ showAll)
           /\ SetRootMenu(CASE mode_list = "single" -> ParentMenu(m.id)
                            [] mode_list = "symbol" /\ m.id \in K.roots -> m.id
                            [] mode_list = "symbol" /\ m.id \notin K.roots -> ParentMenu(Parent(m.id))
                            [] mode_list = "full" -> rootEntry)

\* ConfigView::setShowAll
SetShowAll ==
  /\ prog = "list" /\ Kept3 /\ SameValues /\ UNCHANGED <<mode_list, rootEntry, hasMenus>>
  /\ showAll' = ~showAll
  /\ lists' = AllUpdated([Window(c) EXCEPT !.all = ~showAll], lists, <<"config">>, TRUE, {})

\* ConfigSearchWindow::search
Search ==
  /\ prog = "list" /\ Kept3 /\ SameValues /\ UNCHANGED <<mode_list, rootEntry, showAll, hasMenus>>
  /\ \E r \in Results :
       lists' = [lists EXCEPT !.found =
         [n \in DOMAIN r |-> [menu |-> K.entry[r[n]].id, value |-> RowValue(c, FALSE, K.entry[r[n]]), rows |-> <<>>]]]

------------------------------------------------------------------------------
\* ConfigMainWindow::loadConfig: if the file is not there, nothing counts as
\* changed any more.
LoadConfig ==
  /\ Changing /\ UNCHANGED <<mode_list, rootEntry, showAll, hasMenus>>
  /\ \E f \in Files \cup {NoFile} : Loads(f)
  /\ lists' = AllUpdated(Window(c'), lists, Everything, TRUE, {})

\* saveConfig; closeEvent: auto.conf is written unless changes are discarded.
SaveConfig ==
  /\ prog = "list" /\ changed /\ edits < MaxEdits /\ edits' = edits + 1
  /\ file' = Lines(K, c, Written) /\ sticky' = {} /\ changed' = FALSE
  /\ Kept3 /\ UNCHANGED <<prog, user, c, listVars>>
Close ==
  /\ prog = "list"
  /\ \/ prog' = (IF changed THEN "write" ELSE "left")
        /\ Kept3 /\ UNCHANGED <<file, user, c, sticky, changed, edits>>
     \/ changed /\ Idle /\ UNCHANGED <<kc, K, file, auto, touched>>
  /\ ListIdle

ListNext ==
  \/ StartList \/ Show \/ SetValue \/ ChangeValue \/ TypeValue
  \/ ChangeMenu \/ GoBack \/ SetMenuLink \/ SetShowAll \/ Search
  \/ LoadConfig \/ SaveConfig \/ Close
  \/ (Save \/ WriteAuto) /\ UNCHANGED listVars

------------------------------------------------------------------------------
\* Every list has the rows, and every row the value, that it would have were
\* it filled now: what one list changes reaches the rows of the others, and an
\* entry that comes to be seen gets its row where the files have it.
ListsAreRight ==
  prog = "list" =>
    LET w == Window(c)
        Anew(l) == ArrangedAll(w, l, IF l = "found" THEN Rewritten(w, l, lists.found, Ids(lists.found)) ELSE <<>>)
    IN  \A l \in DOMAIN lists : lists[l] = Anew(l)
=============================================================================
