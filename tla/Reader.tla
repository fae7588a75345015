------------------------------- MODULE Reader -------------------------------
\* conf_parse reads Config.in and the files that it sources (zconf.tab.c,
\* lex.zconf.c): one step is one line, or the end of a file.  A line is its
\* first word, and for "source" the name of the file; the rest of it is right.
EXTENDS Naturals, FiniteSets, SequencesExt

CONSTANTS
  Top,       \* the file that is read first
  Sourced,    \* those that it may source
  Words,      \* the statements and options that are tried
  TextWords,  \* the words with which a line of a help text may begin
  MaxLines    \* bound: lines in all

VARIABLES
  reading,    \* current_buf and its parents: the open files, the current one last
  flags,      \* struct file's flags: "unread", "busy" (FILE_BUSY), "scanned" (FILE_SCANNED)
  entries,    \* the entries of the menu, in the order in which they were added
  open,       \* current_menu and its parents, as numbers of entries
  takes,      \* the statement whose options may follow
  waits,      \* an "if" has been read, and not yet what follows it
  helping,    \* "no", "begun" (after the line of "help"), "text"
  first_ts,   \* the indentation of the text, 0 while it has none
  result,     \* "reading", "accepted", "refused", "crashed"
  log         \* the lines that were read (for the properties)

readVars == <<reading, flags, entries, open, takes, waits, helping, first_ts, result, log>>

AllFiles == Sourced \cup {Top}
Ends == [endmenu |-> "menu", endchoice |-> "choice", endif |-> "if"]
Blocks == {"menu", "choice", "if"}
Options == [
  none |-> {}, if |-> {}, menu |-> {"depends"}, comment |-> {"depends"},
  config |-> {"depends", "prompt", "type", "default", "select", "range", "help"},
  choice |-> {"depends", "prompt", "type", "default", "optional", "help"}]

\* current_file: there is none before and after the reading.
CurrentFile == IF reading = <<>> THEN "none" ELSE Last(reading)
Entry(word, menus) ==
  [kind |-> word, up |-> IF menus = <<>> THEN 0 ELSE Last(menus), file |-> CurrentFile, opts |-> <<>>]

\* zconf_initscan
ReadInit ==
  /\ reading = <<Top>> /\ flags = [f \in AllFiles |-> IF f = Top THEN "busy" ELSE "unread"]
  /\ entries = <<>> /\ open = <<>> /\ takes = "none" /\ waits = FALSE
  /\ helping = "no" /\ first_ts = 0 /\ result = "reading" /\ log = <<>>

------------------------------------------------------------------------------
(* The statements (the actions of the grammar).                               *)

\* if_entry: nl takes every T_EOL, that of the end of a file too, so the entry is
\* added when the parser has seen the token after them.
Added == IF waits THEN Append(entries, Entry("if", open)) ELSE entries
Opened == IF waits THEN Append(open, Len(entries) + 1) ELSE open
InnerKind == IF Opened = <<>> THEN "none" ELSE Added[Last(Opened)].kind

\* A menu or a choice stands in an "if" or a menu, but not directly in a choice.
MayBegin(word) ==
  word \in {"config", "comment", "if"} \/ (word \in {"menu", "choice"} /\ InnerKind # "choice")

\* zconf_endtoken
EndTokenAnywhere(word) == InnerKind = Ends[word]
EndToken(word) == InnerKind = Ends[word] /\ Added[Last(Opened)].file = CurrentFile
MayEnd(word) == word \in DOMAIN Ends /\ EndToken(word)

\* zconf_nextfile
MaySource(word) == word \in AllFiles /\ flags[word] = "unread"
MayTake(word) == word \in Options[takes]

Begin(word) ==
  /\ MayBegin(word) /\ word # "if"
  /\ entries' = Append(Added, Entry(word, Opened))
  /\ open' = IF word \in Blocks THEN Append(Opened, Len(Added) + 1) ELSE Opened
  /\ takes' = word /\ waits' = FALSE
  /\ UNCHANGED <<reading, flags>>

If(word) ==
  /\ word = "if"
  /\ entries' = Added /\ open' = Opened /\ takes' = "if" /\ waits' = TRUE
  /\ UNCHANGED <<reading, flags>>

End(word) ==
  /\ MayEnd(word)
  /\ entries' = Added /\ open' = Front(Opened) /\ takes' = "none" /\ waits' = FALSE
  /\ UNCHANGED <<reading, flags>>

\* The line of "source" has been read to its end when the file is opened.
Source(word) ==
  /\ MaySource(word)
  /\ reading' = Append(reading, word) /\ flags' = [flags EXCEPT ![word] = "busy"]
  /\ entries' = Added /\ open' = Opened /\ takes' = "none" /\ waits' = FALSE

\* An option belongs to current_entry, the last one that was added.
WithOption(e, word) == [e EXCEPT !.opts = Append(@, word)]
Option(word) ==
  /\ MayTake(word)
  /\ entries' = [entries EXCEPT ![Len(entries)] = WithOption(@, word)]
  /\ UNCHANGED <<reading, flags, open, takes, waits>>

\* An error is counted, and what is read after it only brings more messages:
\* conf_parse exits (at once, when it is a file that cannot be sourced).
Refused(word) ==
  /\ ~MayBegin(word) /\ ~MayEnd(word) /\ ~MaySource(word) /\ ~MayTake(word)
  /\ result' = "refused" /\ log' = <<>> /\ helping' = "no" /\ first_ts' = 0
  /\ reading' = <<>> /\ entries' = <<>> /\ open' = <<>> /\ takes' = "none" /\ waits' = FALSE
  /\ flags' = [f \in AllFiles |-> "unread"]

Logged(word, ts) == log' = Append(log, [word |-> word, ts |-> ts, file |-> CurrentFile])

\* help_start: zconf_starthelp
Statement(word, ts) ==
  \/ /\ Begin(word) \/ If(word) \/ End(word) \/ Source(word) \/ Option(word)
     /\ helping' = IF word = "help" THEN "begun" ELSE "no"
     /\ first_ts' = 0 /\ Logged(word, ts) /\ UNCHANGED result
  \/ Refused(word)

Reads == result = "reading" /\ reading # <<>> /\ Len(log) < MaxLines

\* A line outside a help text.  (How far it is indented does not matter there.)
ReadLine == Reads /\ helping = "no" /\ \E word \in Words \cup AllFiles : Statement(word, 0)

------------------------------------------------------------------------------
(* Help: everything up to a line that is indented less than the first.        *)

\* The first line is text wherever it begins, and one that is not indented sets
\* no first_ts.
IsText(ts) == helping = "begun" \/ (ts > 0 /\ ts >= first_ts)

HelpText(word, ts) ==
  /\ helping' = "text" /\ first_ts' = IF first_ts = 0 THEN ts ELSE first_ts
  /\ Logged(word, ts)
  /\ UNCHANGED <<reading, flags, entries, open, takes, waits, result>>

\* zconf_endhelp: the text is the entry's, and the line is read as any other.
ReadInHelp ==
  /\ Reads /\ helping # "no"
  /\ \E word \in TextWords, ts \in 0..2 :
       IF IsText(ts) THEN HelpText(word, ts) ELSE Statement(word, ts)

\* An empty line is text, and one that is not indented may end the text then.
ReadBlank == Reads /\ helping # "no" /\ HelpText("blank", 0)

------------------------------------------------------------------------------
(* The ends of the files.                                                     *)

\* zconf_endfile: the parent goes on after "source", with current_entry as it is.
EndFile ==
  /\ result = "reading" /\ Len(reading) > 1
  /\ reading' = Front(reading) /\ flags' = [flags EXCEPT ![CurrentFile] = "scanned"]
  /\ helping' = "no" /\ first_ts' = 0
  /\ UNCHANGED <<entries, open, takes, waits, result, log>>

\* After the root file there is no current_file: the entry of an "if" that still
\* waits has none, and the message that its end is missing follows that pointer.
EndRoot ==
  /\ result = "reading" /\ Len(reading) = 1
  /\ reading' = <<>> /\ flags' = [flags EXCEPT ![Top] = "scanned"]
  /\ helping' = "no" /\ first_ts' = 0 /\ takes' = "none"
  /\ result' = CASE waits -> "crashed" [] ~waits /\ open = <<>> -> "accepted" [] OTHER -> "refused"
  /\ UNCHANGED <<entries, open, waits, log>>

ReadNext == ReadLine \/ ReadInHelp \/ ReadBlank \/ EndFile \/ EndRoot
ReadSpec == ReadInit /\ [][ReadNext]_readVars

------------------------------------------------------------------------------
(* What the lines say, found by counting.                                     *)

\* The help text after line h ends at line k: the first that is not indented, but
\* for the one after "help", or less than the first indented one of the text.
EndsText(lines, h, k) ==
  /\ lines[k].word # "blank"
  /\ IF lines[k].ts = 0 THEN k > h + 1
     ELSE \E m \in h+1..k-1 : lines[m].ts > lines[k].ts /\ \A n \in h+1..m-1 : lines[n].ts = 0
\* A text that begins after line h goes on to line k.
LastsTo(lines, h, k) ==
  lines[h].word = "help" /\ \A m \in h+1..k : lines[m].file = lines[h].file /\ ~EndsText(lines, h, m)
\* The lines that are said are those in no help text.
AreSaid(lines, said) ==
  \A k \in DOMAIN lines : k \in said <=> ~\E h \in said : h < k /\ LastsTo(lines, h, k)

Starters == Blocks \cup {"config", "comment"}
Count(lines, said, i, j, words) == Cardinality({m \in said : m \in i..j /\ lines[m].word \in words})
\* The number of the entry that line k begins.
Number(lines, said, k) == Count(lines, said, 1, k, Starters)

\* A block ends where as many blocks have ended as have begun.
Deep(lines, said, b, n) == Count(lines, said, b, n, Blocks) > Count(lines, said, b, n, DOMAIN Ends)
IsEnd(lines, said, b, n) ==
  /\ Count(lines, said, b, n, Blocks) = Count(lines, said, b, n, DOMAIN Ends)
  /\ \A m \in b..n-1 : Deep(lines, said, b, m)
\* The blocks that line k is in.
Around(lines, said, k) ==
  {b \in said : b < k /\ lines[b].word \in Blocks /\ \A n \in b+1..k : ~IsEnd(lines, said, b, n)}
\* The options of line k: those before the next statement.
Under(lines, said, k) ==
  {m \in said : m > k /\ \A n \in said : n \in k+1..m => lines[n].word \notin Starters \cup DOMAIN Ends \cup AllFiles}

\* An entry stands under the innermost of the menus, and its list of options is
\* the lines of opts in their order.
StandsIn(lines, said, menus, up) ==
  IF menus = {} THEN up = 0 ELSE \E b \in menus : up = Number(lines, said, b) /\ \A m \in menus : m <= b
Lists(lines, opts, list) ==
  Len(list) = Cardinality(opts) /\ \A m \in opts : list[Cardinality({n \in opts : n <= m})] = lines[m].word
\* Entry e is what line k says, apart from its file.
Says(lines, said, k, e) ==
  /\ e.kind = lines[k].word
  /\ StandsIn(lines, said, Around(lines, said, k), e.up)
  /\ Lists(lines, Under(lines, said, k), e.opts)

\* The file in which the end of a block has to stand: that of its first line or,
\* for an "if", of the statement after it.
EndsIn(lines, said, k, f) ==
  IF lines[k].word = "if" THEN \E n \in said : n > k /\ lines[n].file = f /\ \A m \in said : m > k => n <= m
  ELSE lines[k].file = f
IsEnded(lines, said, k) ==
  \E n \in said :
    /\ n > k /\ IsEnd(lines, said, k, n)
    /\ lines[n].word \in DOMAIN Ends /\ Ends[lines[n].word] = lines[k].word
    /\ EndsIn(lines, said, k, lines[n].file)

\* Every entry is where the blocks put it and has the options that stand under it;
\* a block is ended by the end of its kind, and in the file in which it begins; no
\* file is read twice.
Written(lines, list) ==
  \E said \in SUBSET DOMAIN lines :
    /\ AreSaid(lines, said)
    /\ Len(list) = Number(lines, said, Len(lines))
    /\ \A k \in said : lines[k].word \in Starters => Says(lines, said, k, list[Number(lines, said, k)])
    /\ \A k \in said : lines[k].word \in Blocks => IsEnded(lines, said, k)
    /\ \A k, n \in said :
         lines[k].word \in AllFiles => lines[k].word # Top /\ (lines[n].word = lines[k].word => n = k)

\* conf_parse: what is accepted is what the lines say.
ReadAsWritten == result = "accepted" => Written(log, entries)
=============================================================================
