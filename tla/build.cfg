SPECIFICATION MCSpec
CONSTANTS
  BoolSyms = {"A", "B", "C", "D", "E", "X1", "X2", "X3"}
  TriSyms = {"T"}
  IntSyms = {"N"}
  Trees <- MCTrees
  conf_parse <- Parse
  sym_check_deps <- CheckDeps
  expr_calc_value <- Val
  sym_calc_value <- Settled
  menu_is_visible <- MenuVisible
  Successors <- MCSuccessors
  Files <- MCFiles
  Numbers <- MCNumbers
  Rolls <- MCRolls
  MaxEdits = 2
  MaxRuns = 2
  Results <- MCResults
  Items <- MCItems
  Letter <- MCLetter
  Heights = {1, 3, 4, 6}
  Blank = Blank
  None = None
  NoItem = NoItem
  Texts <- MCTexts
  Width = 3
  Inits <- MCInits
  Chars = {"a", "b"}
  MAX_LEN = 4
  Nul = Nul
  Space = Space
  Top = "Config.in"
  Sourced = {"f", "g"}
  Words = {"config", "menu", "endmenu", "choice", "endchoice", "if", "endif", "depends", "help"}
  TextWords = {"config", "endmenu"}
  MaxLines = 5
VIEW Told
INVARIANTS
  ConditionsKept VisibleIsAsked SavedIsReread AllAnswered  ReadAsWritten
PROPERTIES
  TouchedIfChanged ConfEnds NothingLost
CHECK_DEADLOCK FALSE
