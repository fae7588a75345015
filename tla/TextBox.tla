------------------------------- MODULE TextBox -------------------------------
(***************************************************************************)
(* The windows of lxdialog for text: dialog_textbox shows one and scrolls   *)
(* it with a pointer to the next line and flags for both ends, and          *)
(* dialog_inputbox lets the user edit a value at its end, in a field that   *)
(* may be shorter than it.                                                  *)
(***************************************************************************)
EXTENDS SequencesExt, Integers

CONSTANTS
  Texts,      \* [lines |-> how many, ended |-> whether the last ends with \n]
  Heights,    \* boxh: lines of the window for the text
  Width,      \* box_width: columns of the field
  Inits,      \* values to be edited
  Chars,      \* what may be typed
  MAX_LEN,    \* of a value
  None, Nul, Space

VARIABLES
  box,        \* "text", "input" or None
  text, boxh,
  page,       \* the line that get_line returns next, one behind the last at \0
  begin_reached, end_reached, page_length,
  shown,      \* [row -> line on it]
  instr,      \* [0..MAX_LEN -> Chars or Nul]
  input_x, scroll, button,
  field,      \* [column -> what is on it]
  shifted     \* a resize has left scroll of a longer value

textVars == <<text, boxh, page, begin_reached, end_reached, page_length, shown>>
inputVars == <<instr, input_x, scroll, button, field, shifted>>
vars == <<box, textVars, inputVars>>

Least(a, b) == IF a < b THEN a ELSE b
Most(a, b) == IF a > b THEN a ELSE b

------------------------------------------------------------------------------
(* dialog_textbox                                                           *)

Nowhere(t) == t.lines + 1                            \* the line of \0
LastLine(t) == IF t.ended THEN Nowhere(t) ELSE t.lines   \* get_line reaches the end with it

\* back_lines: n lines back from p; at the end, the \0 itself counts for one.
Backward(t, p, atEnd, n) ==
  LET m == IF p = Nowhere(t) /\ atEnd THEN n - 1 ELSE n
  IN  [page |-> Most(1, p - m), begin |-> m > 0 /\ p - m <= 1]

\* get_line, n times: the lines, and what it leaves.
Gets(t, p, n) == [i \in 1..n |-> Least(p + i - 1, Nowhere(t))]
Got(p, n) ==
  /\ page' = Least(p + n, Nowhere(text')) /\ end_reached' = (p + n - 1 >= LastLine(text'))
  /\ page_length' = Most(1, Least(n, LastLine(text') - p + 1))

\* print_page, back_lines and it, and what is seen of it.
PrintPage(p, h) == boxh' = h /\ Got(p, h) /\ shown' = Gets(text', p, h)
Rewind(p, atEnd, n, h) ==
  LET b == Backward(text', p, atEnd, n) IN PrintPage(b.page, h) /\ begin_reached' = b.begin

Read == box = "text" /\ UNCHANGED <<box, text, inputVars>>

OpenText ==
  /\ box = None /\ box' = "text"
  /\ text' \in Texts /\ \E h \in Heights : PrintPage(1, h)
  /\ begin_reached' = TRUE
  /\ UNCHANGED inputVars

Home == Read /\ ~begin_reached /\ PrintPage(1, boxh) /\ begin_reached' = TRUE
ToEnd == Read /\ Rewind(Nowhere(text), TRUE, boxh, boxh)
PriorPage == Read /\ ~begin_reached /\ Rewind(page, end_reached, page_length + boxh, boxh)
NextPage == Read /\ ~end_reached /\ PrintPage(page, boxh) /\ begin_reached' = FALSE

\* Only the line that scrolls in is printed.
PriorLine ==
  /\ Read /\ ~begin_reached
  /\ LET b == Backward(text, page, end_reached, page_length + 1)
     IN  /\ Got(b.page, boxh) /\ begin_reached' = b.begin
         /\ shown' = SubSeq(Gets(text, b.page, 1) \o shown, 1, boxh)
  /\ UNCHANGED boxh
NextLine ==
  /\ Read /\ ~end_reached
  /\ page' = Least(page + 1, Nowhere(text)) /\ end_reached' = (page >= LastLine(text)) /\ begin_reached' = FALSE
  /\ shown' = Tail(shown) \o Gets(text, page, 1)
  /\ UNCHANGED <<boxh, page_length>>

\* To the left or right, and in a window drawn anew: a resize goes back
\* the lines of the dialog, four more than those of the text.
Sideways == Read /\ Rewind(page, end_reached, page_length, boxh)
ResizeText == Read /\ \E h \in Heights : Rewind(page, end_reached, boxh + 4, h)

NoText ==
  /\ text' = <<>> /\ boxh' = 0 /\ page' = 0 /\ begin_reached' = FALSE /\ end_reached' = FALSE
  /\ page_length' = 0 /\ shown' = <<>>
CloseText == box = "text" /\ box' = None /\ NoText /\ UNCHANGED inputVars

------------------------------------------------------------------------------
(* dialog_inputbox                                                          *)

Strlen(s) == CHOOSE n \in 0..MAX_LEN : s[n] = Nul /\ \A i \in 0..n - 1 : s[i] # Nul   \* strlen
Columns == 0..Width - 1
Seen(s, off, n) == [c \in Columns |-> IF c < n /\ s[off + c] # Nul THEN s[off + c] ELSE Space]

\* do_resize: scroll stays as it was when the value fits.
Layout(s, old) ==
  LET len == Strlen(s)
  IN  /\ scroll' = IF len >= Width THEN len - Width + 1 ELSE old
      /\ input_x' = Least(len, Width - 1)
      /\ field' = IF len >= Width THEN Seen(s, len - Width + 1, Width - 1) ELSE Seen(s, 0, len)

Edit == box = "input" /\ UNCHANGED <<box, textVars>>

OpenInput ==
  /\ box = None /\ box' = "input" /\ button' = -1 /\ shifted' = FALSE
  /\ \E v \in Inits :
       instr' = [i \in 0..MAX_LEN |-> IF i < Len(v) THEN v[i + 1] ELSE IF i = Len(v) THEN Nul ELSE instr[i]]
  /\ Layout(instr', 0)
  /\ UNCHANGED textVars

Written(at, ch) == [i \in 0..MAX_LEN |-> IF i = at THEN ch ELSE IF i = at + 1 THEN Nul ELSE instr[i]]
Type(ch) ==
  /\ Edit /\ button = -1 /\ scroll + input_x < MAX_LEN
  /\ instr' = Written(scroll + input_x, ch)
  /\ IF input_x = Width - 1
     THEN /\ scroll' = scroll + 1 /\ UNCHANGED input_x
          /\ field' = [c \in Columns |-> IF c < Width - 1 THEN instr'[scroll' + c] ELSE field[c]]
     ELSE input_x' = input_x + 1 /\ field' = [field EXCEPT ![input_x] = ch] /\ UNCHANGED scroll
  /\ UNCHANGED <<button, shifted>>

\* At the left edge the field only scrolls back: nothing is deleted.
Backspace ==
  /\ Edit /\ button = -1
  /\ \/ /\ input_x > 0 /\ input_x' = input_x - 1
        /\ instr' = [instr EXCEPT ![scroll + input_x'] = Nul]
        /\ field' = [field EXCEPT ![input_x'] = Space] /\ UNCHANGED scroll
     \/ /\ input_x = 0 /\ scroll > 0
        /\ scroll' = Most(0, scroll - (Width - 1)) /\ input_x' = Strlen(instr) - scroll'
        /\ field' = [c \in Columns |-> IF c # input_x' /\ instr[scroll' + c] # Nul THEN instr[scroll' + c] ELSE Space]
        /\ UNCHANGED instr
  /\ UNCHANGED <<button, shifted>>

\* -1 is the field, 0 and 1 are the buttons.
Turn ==
  /\ Edit /\ button' \in {-1, 0, 1} \ {button}
  /\ UNCHANGED <<instr, input_x, scroll, field, shifted>>

ResizeInput ==
  /\ Edit /\ Layout(instr, scroll)
  /\ shifted' = (shifted \/ (scroll > 0 /\ Strlen(instr) < Width))
  /\ UNCHANGED <<instr, button>>

NoInput == UNCHANGED instr /\ input_x' = 0 /\ scroll' = 0 /\ button' = -1 /\ field' = <<>> /\ shifted' = FALSE
CloseInput == box = "input" /\ box' = None /\ NoInput /\ UNCHANGED textVars

Init ==
  /\ box = None
  /\ text = <<>> /\ boxh = 0 /\ page = 0 /\ begin_reached = FALSE /\ end_reached = FALSE
  /\ page_length = 0 /\ shown = <<>>
  /\ instr = [i \in 0..MAX_LEN |-> Nul] /\ input_x = 0 /\ scroll = 0 /\ button = -1 /\ field = <<>> /\ shifted = FALSE

Next ==
  \/ OpenText \/ Home \/ ToEnd \/ PriorPage \/ NextPage \/ PriorLine \/ NextLine \/ Sideways \/ ResizeText \/ CloseText
  \/ OpenInput \/ (\E ch \in Chars : Type(ch)) \/ Backspace \/ Turn \/ ResizeInput \/ CloseInput

Spec == Init /\ [][Next]_vars

------------------------------------------------------------------------------
\* A text that ends with \n: whatever keys were pressed, the rows show lines that
\* follow one another, and the flags that stop the keys are set at the ends of the
\* text and nowhere else, so that every line can be reached.
TextAsWritten ==
  /\ shown = Gets(text, shown[1], boxh)
  /\ begin_reached = (shown[1] = 1)
  /\ end_reached = (shown[boxh] = LastLine(text))

\* A value: the cursor is behind it, so that keys go to its end, and the field
\* shows what is before the cursor.
FieldAsTyped ==
  /\ scroll + input_x = Strlen(instr)
  /\ field = [c \in Columns |-> IF c < input_x THEN instr[scroll + c] ELSE Space]

\* What the windows show is what is there (textbox.c: "refresh window content").
\* Not so for a text that ends without \n, where the keys at its end go one line
\* less back than they should, and for a field that was resized when a value that
\* had been longer than it had become shorter.
ShowsWhatIsThere ==
  /\ box = "text" /\ text.ended => TextAsWritten
  /\ box = "input" /\ ~shifted => FieldAsTyped
=============================================================================
