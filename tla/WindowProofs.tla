---------------------------- MODULE WindowProofs ----------------------------
(***************************************************************************)
(* What lxdialog's windows show is what is there, after any keys and        *)
(* resizes, for any menus, texts and values and windows of any size.  What  *)
(* is on the screen was put there piece by piece; the invariants say which  *)
(* piece of the menu, text or value that is at any time.  And what the      *)
(* reader accepts is what the lines say, for any files and number of lines: *)
(* the invariant says so of the lines that have been read.                  *)
(***************************************************************************)
EXTENDS Windows, SequenceTheorems, FiniteSetTheorems, WellFoundedInduction, TLAPS

------------------------------------------------------------------------------
(* dialog_textbox                                                           *)

\* From a text that ends with \n, the lines from p on are shown; the pointer is
\* behind them, or at the \0, and what get_line counted is what there were.
PageFrom(p) ==
  /\ shown = Papers!Gets(text, p, boxh)
  /\ begin_reached = (p = 1)
  /\ end_reached = (p + boxh - 1 >= Papers!Nowhere(text))
  /\ page = Papers!Least(p + boxh, Papers!Nowhere(text))
  /\ page_length = Papers!Least(boxh, Papers!Nowhere(text) - p + 1)

\* What is kept from key to key; a text without \n at its end is left out, as the
\* keys there go one line too few back.
TextInv ==
  /\ paper = "text" => text \in Texts /\ boxh \in Heights
  /\ paper = "text" /\ text.ended => \E p \in 1..Papers!Nowhere(text) : PageFrom(p)

LEMMA Sizes ==
  /\ \A t \in Texts : t.lines \in Nat \ {0}
  /\ \A h \in Heights : h \in Nat \ {0}
  /\ Width \in Nat \ {0} /\ MAX_LEN \in Nat
BY TextAssumption DEF TextAssumption

\* What a page printed anew is like.
LEMMA PrintedPage ==
  ASSUME text' \in Texts, text'.ended, NEW h \in Heights, NEW p \in 1..Papers!Nowhere(text'),
         Papers!PrintPage(p, h), begin_reached' = (p = 1)
  PROVE  boxh' \in Heights /\ p \in 1..Papers!Nowhere(text') /\ PageFrom(p)'
<1> DEFINE last == Papers!Nowhere(text')
<1>1. /\ last \in Nat \ {0, 1} /\ h \in Nat \ {0} /\ p \in Nat \ {0} /\ p <= last
      /\ Papers!LastLine(text') = last
  BY Sizes DEF Papers!Nowhere, Papers!LastLine
<1>2. /\ boxh' = h /\ shown' = Papers!Gets(text', p, h)
      /\ page' = Papers!Least(p + h, last) /\ end_reached' = (p + h - 1 >= last)
      /\ page_length' = Papers!Most(1, Papers!Least(h, last - p + 1))
  BY <1>1 DEF Papers!PrintPage, Papers!Got
<1>3. Papers!Most(1, Papers!Least(h, last - p + 1)) = Papers!Least(h, last - p + 1)
  <2> HIDE DEF last
  <2> QED BY <1>1 DEF Papers!Most, Papers!Least
<1>4. QED
  BY <1>2, <1>3 DEF PageFrom

\* Going back counts lines from the pointer: it ends at a line of the text, and
\* knows that this is the first one.
LEMMA Rewound ==
  ASSUME text' \in Texts, text'.ended, NEW h \in Heights, NEW p0 \in 1..Papers!Nowhere(text'),
         NEW atEnd \in BOOLEAN, NEW n \in Nat \ {0}, Papers!Rewind(p0, atEnd, n, h),
         p0 # 1
  PROVE  /\ boxh' \in Heights
         /\ \E p \in 1..Papers!Nowhere(text') : PageFrom(p)'
<1> DEFINE m == IF p0 = Papers!Nowhere(text') /\ atEnd THEN n - 1 ELSE n
           b == Papers!Backward(text', p0, atEnd, n)
<1>1. m \in Nat /\ p0 \in Nat /\ p0 > 1 /\ p0 <= Papers!Nowhere(text') /\ Papers!Nowhere(text') \in Nat
  BY Sizes DEF Papers!Nowhere
<1>2. b.page = Papers!Most(1, p0 - m) /\ b.begin = (m > 0 /\ p0 - m <= 1)
  BY DEF Papers!Backward
<1>3. PICK p \in 1..Papers!Nowhere(text') : p = Papers!Most(1, p0 - m) /\ (p = 1 <=> m > 0 /\ p0 - m <= 1)
  <2> HIDE DEF m
  <2> QED BY <1>1 DEF Papers!Most
<1>4. Papers!PrintPage(p, h) /\ begin_reached' = (p = 1)
  BY <1>2, <1>3 DEF Papers!Rewind
<1>5. QED
  BY <1>3, <1>4, PrintedPage

LEMMA TextOpens == ASSUME Papers!OpenText PROVE TextInv'
<1>1. /\ paper' = "text" /\ text' \in Texts /\ begin_reached' = TRUE
      /\ \E h \in Heights : Papers!PrintPage(1, h)
  BY DEF Papers!OpenText
<1>2. PICK h \in Heights : Papers!PrintPage(1, h)
  BY <1>1
<1>3. boxh' \in Heights
  BY <1>2 DEF Papers!PrintPage
<1>4. ASSUME text'.ended PROVE \E p \in 1..Papers!Nowhere(text') : PageFrom(p)'
  <2>1. 1 \in 1..Papers!Nowhere(text')
    BY <1>1, Sizes DEF Papers!Nowhere
  <2>2. begin_reached' = (1 = 1)
    BY <1>1
  <2>3. PageFrom(1)'
    BY <1>1, <1>2, <1>4, <2>1, <2>2, PrintedPage
  <2>4. QED
    BY <2>1, <2>3
<1>5. QED
  BY <1>1, <1>3, <1>4 DEF TextInv

\* A key in a text.
LEMMA TextMoves ==
  ASSUME TextInv, paper = "text",
         \/ Papers!Home \/ Papers!ToEnd \/ Papers!PriorPage \/ Papers!NextPage
         \/ Papers!PriorLine \/ Papers!NextLine \/ Papers!Sideways \/ Papers!ResizeText
  PROVE  TextInv'
<1>1. paper' = "text" /\ text' = text /\ text' \in Texts /\ boxh \in Heights
  BY DEF TextInv, Papers!Home, Papers!ToEnd, Papers!PriorPage, Papers!NextPage, Papers!PriorLine,
         Papers!NextLine, Papers!Sideways, Papers!ResizeText, Papers!Read
<1>2. boxh' \in Heights
  BY <1>1 DEF Papers!Home, Papers!ToEnd, Papers!PriorPage, Papers!NextPage, Papers!PriorLine,
         Papers!NextLine, Papers!Sideways, Papers!ResizeText, Papers!Rewind, Papers!PrintPage
<1>3. ASSUME text.ended PROVE \E p \in 1..Papers!Nowhere(text') : PageFrom(p)'
  <2>1. PICK p \in 1..Papers!Nowhere(text) : PageFrom(p)
    BY <1>3 DEF TextInv
  <2>2. PICK last : last = Papers!Nowhere(text)
    OBVIOUS
  <2>3. PICK h \in Heights : h = boxh
    BY <1>1
  <2>4. /\ last \in Nat \ {0, 1} /\ h \in Nat \ {0} /\ p \in Nat \ {0} /\ p <= last
        /\ Papers!Nowhere(text') = last /\ Papers!LastLine(text) = last /\ Papers!LastLine(text') = last
    BY <1>1, <1>3, <2>2, <2>3, Sizes DEF Papers!Nowhere, Papers!LastLine
  <2>5. /\ shown = Papers!Gets(text, p, h) /\ begin_reached = (p = 1) /\ end_reached = (p + h - 1 >= last)
        /\ page = Papers!Least(p + h, last) /\ page_length = Papers!Least(h, last - p + 1)
    BY <2>1, <2>2, <2>3 DEF PageFrom
  <2>6. PICK p0 : p0 = page
    OBVIOUS
  <2>7. PICK n0 : n0 = page_length
    OBVIOUS
  <2>19. (begin_reached <=> p = 1) /\ (end_reached <=> p + h - 1 >= last)
    BY <2>5, Zenon
  <2>8. PICK atEnd \in BOOLEAN : atEnd = end_reached
    <3>1. (p + h - 1 >= last) \in BOOLEAN
      OBVIOUS
    <3>2. end_reached \in BOOLEAN
      BY <2>5, <3>1, Zenon
    <3>3. QED
      BY <3>2
  <2>9. p0 \in 1..last /\ p0 # 1 /\ n0 \in Nat \ {0}
    BY <2>4, <2>5, <2>6, <2>7 DEF Papers!Least
  <2>10. CASE Papers!Home
    <3>1. Papers!PrintPage(1, h) /\ begin_reached' = TRUE
      BY <2>3, <2>10 DEF Papers!Home
    <3>2. (1 = 1) = TRUE
      OBVIOUS
    <3>4. begin_reached' = (1 = 1)
      BY <3>1, <3>2, Zenon
    <3>5. 1 \in 1..Papers!Nowhere(text')
      BY <2>4
    <3>3. QED
      BY <1>1, <1>3, <3>1, <3>4, <3>5, PrintedPage
  <2>11. CASE Papers!ToEnd
    <3>1. Papers!Rewind(last, TRUE, h, h)
      BY <2>2, <2>3, <2>11 DEF Papers!ToEnd
    <3>2. last \in 1..Papers!Nowhere(text') /\ last # 1 /\ h \in Nat \ {0}
      BY <2>4
    <3>3. QED
      BY <1>1, <1>3, <3>1, <3>2, Rewound
  <2>12. CASE Papers!PriorPage
    <3>1. PICK n : n = n0 + h
      OBVIOUS
    <3>2. Papers!Rewind(p0, atEnd, n, h)
      BY <2>3, <2>6, <2>7, <2>8, <2>12, <3>1 DEF Papers!PriorPage
    <3>3. n \in Nat \ {0}
      BY <2>4, <2>9, <3>1
    <3>4. QED
      BY <1>1, <1>3, <2>4, <2>9, <3>2, <3>3, Rewound
  <2>13. CASE Papers!NextPage
    <3>1. Papers!PrintPage(p0, h) /\ begin_reached' = (p0 = 1)
      BY <2>3, <2>6, <2>9, <2>13 DEF Papers!NextPage
    <3>2. QED
      BY <1>1, <1>3, <2>4, <2>9, <3>1, PrintedPage
  <2>14. CASE Papers!Sideways
    <3>1. Papers!Rewind(p0, atEnd, n0, h)
      BY <2>3, <2>6, <2>7, <2>8, <2>14 DEF Papers!Sideways
    <3>2. QED
      BY <1>1, <1>3, <2>4, <2>9, <3>1, Rewound
  <2>15. CASE Papers!ResizeText
    <3>1. PICK n : n = h + 4
      OBVIOUS
    <3>2. PICK g \in Heights : Papers!Rewind(p0, atEnd, n, g)
      BY <2>3, <2>6, <2>8, <2>15, <3>1 DEF Papers!ResizeText
    <3>3. n \in Nat \ {0}
      BY <2>4, <3>1
    <3>4. QED
      BY <1>1, <1>3, <2>4, <2>9, <3>2, <3>3, Rewound
  <2>16. CASE Papers!PriorLine
    <3>0. ~begin_reached
      BY <2>16 DEF Papers!PriorLine
    <3>1. PICK q \in 1..last : q = p - 1
      BY <2>4, <2>19, <3>0
    <3>2. PICK m \in Nat \ {0} : m = IF p0 = last /\ atEnd THEN n0 ELSE n0 + 1
      BY <2>9
    <3>9. atEnd <=> p + h - 1 >= last
      BY <2>8, <2>19
    <3>10. p0 - m = q
      BY <2>4, <2>5, <2>6, <2>7, <3>1, <3>2, <3>9 DEF Papers!Least
    <3>3. Papers!Most(1, p0 - m) = q /\ (m > 0 /\ p0 - m <= 1) = (q = 1)
      BY <2>4, <3>1, <3>2, <3>10 DEF Papers!Most
    <3>4. /\ Papers!Backward(text, page, end_reached, page_length + 1).page = q
          /\ Papers!Backward(text, page, end_reached, page_length + 1).begin = (q = 1)
      BY <2>2, <2>6, <2>7, <2>8, <2>9, <3>2, <3>3 DEF Papers!Backward
    <3>5. /\ Papers!Got(q, h) /\ begin_reached' = (q = 1) /\ boxh' = h
          /\ shown' = SubSeq(Papers!Gets(text, q, 1) \o shown, 1, h)
      BY <2>3, <2>16, <3>4 DEF Papers!PriorLine
    <3>6. shown' = Papers!Gets(text, q, h)
      BY <2>2, <2>4, <2>5, <3>1, <3>5 DEF Papers!Gets, Papers!Least
    <3>7. Papers!PrintPage(q, h)
      BY <1>1, <3>5, <3>6 DEF Papers!PrintPage
    <3>8. QED
      BY <1>1, <1>3, <2>4, <3>5, <3>7, PrintedPage
  <2>17. CASE Papers!NextLine
    <3>0. ~end_reached
      BY <2>17 DEF Papers!NextLine
    <3>7. p + h <= last
      BY <2>4, <2>19, <3>0
    <3>1. PICK q \in 1..last : q = p + 1
      BY <2>4, <3>7
    <3>2. page = p + h /\ page_length = h
      BY <2>4, <2>5, <3>7 DEF Papers!Least
    <3>3. /\ page' = Papers!Least(page + 1, last) /\ end_reached' = (page >= last) /\ begin_reached' = FALSE
          /\ shown' = Tail(shown) \o Papers!Gets(text, page, 1) /\ boxh' = h /\ page_length' = page_length
      BY <2>2, <2>3, <2>4, <2>17 DEF Papers!NextLine
    <3>8. shown = [i \in 1..h |-> Papers!Least(p + i - 1, last)]
      BY <2>2, <2>5 DEF Papers!Gets
    <3>9. Papers!Gets(text, page, 1) = <<p + h>>
      BY <2>2, <2>4, <3>2, <3>7 DEF Papers!Gets, Papers!Least
    <3>10. \A i \in 1..h : shown[i] = p + i - 1
      BY <2>4, <3>7, <3>8 DEF Papers!Least
    <3>11. shown = [i \in 1..h |-> p + i - 1]
      BY <3>8, <3>10
    <3>12. Tail(shown) = [i \in 1..h - 1 |-> p + i]
      <4>1. shown \in Seq(Int) /\ Len(shown) = h
        BY <2>4, <3>11
      <4>2. QED
        BY <2>4, <3>11, <4>1
    <3>13. shown' = [i \in 1..h |-> p + i]
      <4>1. [i \in 1..h - 1 |-> p + i] \in Seq(Int) /\ Len([i \in 1..h - 1 |-> p + i]) = h - 1
        BY <2>4
      <4>2. PICK t \in Seq(Int) : t = [i \in 1..h - 1 |-> p + i]
        BY <4>1
      <4>3. Len(t) = h - 1 /\ \A i \in 1..h - 1 : t[i] = p + i
        BY <4>1, <4>2
      <4>4. shown' = t \o <<p + h>>
        BY <3>3, <3>9, <3>12, <4>2
      <4>5. t \o <<p + h>> = [i \in 1..h |-> p + i]
        <5>1. PICK e \in Seq(Int) : e = <<p + h>> /\ Len(e) = 1 /\ e[1] = p + h
          <6>1. PICK x \in Int : x = p + h
            BY <2>4
          <6>2. <<x>> \in Seq(Int) /\ Len(<<x>>) = 1 /\ <<x>>[1] = x
            OBVIOUS
          <6>3. QED
            BY <6>1, <6>2
        <5>2. PICK u \in Seq(Int) : /\ u = t \o e /\ Len(u) = h
                                    /\ \A i \in 1..h : u[i] = IF i <= h - 1 THEN t[i] ELSE e[i - (h - 1)]
          <6>1. /\ t \o e \in Seq(Int) /\ Len(t \o e) = h - 1 + 1
                /\ \A i \in 1..h - 1 + 1 : (t \o e)[i] = IF i <= h - 1 THEN t[i] ELSE e[i - (h - 1)]
            BY <4>3, <5>1, ConcatProperties
          <6>2. h - 1 + 1 = h
            BY <2>4
          <6>3. QED
            BY <6>1, <6>2
        <5>3. \A i \in 1..h : u[i] = p + i
          <6>1. SUFFICES ASSUME NEW i \in 1..h PROVE u[i] = p + i
            OBVIOUS
          <6>2. CASE i <= h - 1
            BY <2>4, <4>3, <5>2, <6>2
          <6>3. CASE i = h
            BY <2>4, <5>1, <5>2, <6>3
          <6>4. QED
            BY <2>4, <6>2, <6>3
        <5>4. QED
          <6>1. u = [i \in 1..h |-> u[i]]
            <7>1. DOMAIN u = 1..Len(u) /\ u \in [1..Len(u) -> Int]
              BY <5>2, LenProperties
            <7>2. QED
              BY <5>2, <7>1
          <6>2. QED
            BY <5>1, <5>2, <5>3, <6>1
      <4>6. QED
        BY <4>4, <4>5
    <3>4. shown' = Papers!Gets(text, q, h)
      BY <2>2, <2>4, <3>1, <3>7, <3>13 DEF Papers!Gets, Papers!Least
    <3>14. /\ page' = Papers!Least(q + h, last) /\ end_reached' = (q + h - 1 >= last)
           /\ page_length' = Papers!Least(h, last - q + 1)
      BY <2>4, <3>1, <3>2, <3>3, <3>7 DEF Papers!Least
    <3>15. begin_reached' = (q = 1)
      <4>1. (q = 1) = FALSE
        BY <2>4, <3>1
      <4>2. QED
        BY <3>3, <4>1, Zenon
    <3>5. PageFrom(q)'
      BY <1>1, <2>2, <2>4, <3>3, <3>4, <3>14, <3>15 DEF PageFrom
    <3>6. QED
      BY <2>4, <3>5
  <2>18. QED
    BY <2>10, <2>11, <2>12, <2>13, <2>14, <2>15, <2>16, <2>17
<1>4. QED
  BY <1>1, <1>2, <1>3 DEF TextInv

LEMMA TextIsWritten == ASSUME TextInv, paper = "text", text.ended PROVE Papers!TextAsWritten
<1>1. PICK p \in 1..Papers!Nowhere(text) : PageFrom(p)
  BY DEF TextInv
<1>2. PICK last : last = Papers!Nowhere(text)
  OBVIOUS
<1>3. PICK h \in Heights : h = boxh
  BY DEF TextInv
<1>4. last \in Nat \ {0, 1} /\ h \in Nat \ {0} /\ p \in 1..last /\ Papers!LastLine(text) = last
  BY <1>2, <1>3, Sizes DEF TextInv, Papers!Nowhere, Papers!LastLine
<1>5. shown = Papers!Gets(text, p, h) /\ begin_reached = (p = 1) /\ end_reached = (p + h - 1 >= last)
  BY <1>1, <1>2, <1>3 DEF PageFrom
<1>6. shown[1] = p /\ shown[h] = Papers!Least(p + h - 1, last)
  BY <1>2, <1>4, <1>5 DEF Papers!Gets, Papers!Least
<1>7. end_reached = (shown[h] = last)
  BY <1>4, <1>5, <1>6 DEF Papers!Least
<1>8. QED
  BY <1>3, <1>4, <1>5, <1>6, <1>7 DEF Papers!TextAsWritten

------------------------------------------------------------------------------
(* dialog_inputbox                                                          *)

\* The value is n long, with its end before the cursor; a field that has scrolled
\* has nothing but \0 left behind the value, up to its right edge: that is what
\* going back shows.
EndsAt(n) == instr[n] = Nul /\ \A i \in 0..n - 1 : instr[i] # Nul
ValueOf(n) ==
  /\ EndsAt(n)
  /\ offset \in Nat /\ input_x \in 0..Width - 1 /\ offset + input_x = n
  /\ offset > 0 => offset + Width - 1 <= MAX_LEN /\ \A i \in n..offset + Width - 1 : instr[i] = Nul
  /\ field = [j \in 0..Width - 1 |-> IF j < input_x THEN instr[offset + j] ELSE Space]

\* A field whose scroll a resize left is out of it until the next value.
InputInv ==
  /\ instr = [i \in 0..MAX_LEN |-> instr[i]]
  /\ paper = "input" /\ ~shifted => \E n \in 0..MAX_LEN : ValueOf(n)

LEMMA Length ==
  ASSUME NEW s, NEW n \in 0..MAX_LEN, s[n] = Nul, \A i \in 0..n - 1 : s[i] # Nul
  PROVE  Papers!Strlen(s) = n
<1>1. \A k \in 0..MAX_LEN : s[k] = Nul /\ (\A i \in 0..k - 1 : s[i] # Nul) => k = n
  <2>1. SUFFICES ASSUME NEW k \in 0..MAX_LEN, s[k] = Nul, \A i \in 0..k - 1 : s[i] # Nul, k # n PROVE FALSE
    OBVIOUS
  <2>2. k \in 0..n - 1 \/ n \in 0..k - 1
    BY <2>1, Sizes
  <2>3. QED
    BY <2>1, <2>2
<1>2. QED
  BY <1>1 DEF Papers!Strlen

\* The field as it is drawn, with the value in the buffer.
LEMMA Laid ==
  ASSUME NEW n \in 0..MAX_LEN, EndsAt(n)', NEW old, Papers!Layout(instr', old), old = 0 \/ n >= Width
  PROVE  ValueOf(n)'
<1>1. Papers!Strlen(instr') = n
  BY Length DEF EndsAt
<1>2. /\ offset' = IF n >= Width THEN n - Width + 1 ELSE old
      /\ input_x' = Papers!Least(n, Width - 1)
      /\ field' = IF n >= Width THEN Papers!Seen(instr', n - Width + 1, Width - 1)
                   ELSE Papers!Seen(instr', 0, n)
  BY <1>1 DEF Papers!Layout
<1>3. /\ instr'[n] = Nul /\ (\A i \in 0..n - 1 : instr'[i] # Nul)
      /\ n \in Nat /\ Width \in Nat \ {0} /\ n <= MAX_LEN
  BY Sizes DEF EndsAt
<1>4. CASE n >= Width
  <2>1. /\ offset' = n - Width + 1 /\ input_x' = Width - 1
        /\ field' = Papers!Seen(instr', n - Width + 1, Width - 1)
    BY <1>2, <1>3, <1>4 DEF Papers!Least
  <2>2. field' = [j \in 0..Width - 1 |-> IF j < input_x' THEN instr'[offset' + j] ELSE Space]
    BY <1>3, <1>4, <2>1 DEF Papers!Seen, Papers!Columns
  <2>3. /\ offset' \in Nat /\ input_x' \in 0..Width - 1 /\ offset' + input_x' = n
        /\ offset' + Width - 1 = n
    BY <1>3, <1>4, <2>1
  <2>4. offset' + Width - 1 <= MAX_LEN /\ \A i \in n..offset' + Width - 1 : instr'[i] = Nul
    <3>1. n <= MAX_LEN /\ \A i \in n..n : instr'[i] = Nul
      BY <1>3
    <3>2. QED
      BY <2>3, <3>1
  <2>5. QED
    BY <2>2, <2>3, <2>4 DEF ValueOf
<1>5. CASE n < Width
  <2>1. offset' = 0 /\ input_x' = n /\ field' = Papers!Seen(instr', 0, n)
    BY <1>2, <1>3, <1>5 DEF Papers!Least
  <2>2. field' = [j \in 0..Width - 1 |-> IF j < input_x' THEN instr'[offset' + j] ELSE Space]
    BY <1>3, <1>5, <2>1 DEF Papers!Seen, Papers!Columns
  <2>3. QED
    BY <1>3, <1>5, <2>1, <2>2 DEF ValueOf
<1>6. QED
  BY <1>3, <1>4, <1>5

LEMMA InputOpens == ASSUME InputInv, Papers!OpenInput PROVE InputInv'
<1>1. PICK v \in Inits :
        /\ instr' = [i \in 0..MAX_LEN |->
                       IF i < Len(v) THEN v[i + 1] ELSE IF i = Len(v) THEN Nul ELSE instr[i]]
        /\ Papers!Layout(instr', 0)
  BY DEF Papers!OpenInput
<1>2. PICK n \in 0..MAX_LEN : n = Len(v) /\ \A i \in 1..n : v[i] # Nul
  BY TextAssumption DEF TextAssumption
<1>3. EndsAt(n)'
  BY <1>1, <1>2, Sizes DEF EndsAt
<1>4. ValueOf(n)'
  BY <1>1, <1>3, Laid
<1>5. QED
  BY <1>1, <1>4 DEF InputInv

LEMMA InputResizes ==
  ASSUME InputInv, Papers!ResizeInput PROVE InputInv'
<1>1. /\ paper = "input" /\ instr' = instr /\ Papers!Layout(instr', offset)
      /\ shifted' = (shifted \/ (offset > 0 /\ Papers!Strlen(instr) < Width))
  BY DEF Papers!ResizeInput, Papers!Edit
<1>2. ASSUME ~shifted' PROVE \E n \in 0..MAX_LEN : ValueOf(n)'
  <2>1. ~shifted /\ ~(offset > 0 /\ Papers!Strlen(instr) < Width)
    BY <1>1, <1>2
  <2>2. PICK n \in 0..MAX_LEN : ValueOf(n)
    BY <1>1, <2>1 DEF InputInv
  <2>3. EndsAt(n)' /\ offset \in Nat /\ Papers!Strlen(instr) = n
    BY <1>1, <2>2, Length DEF ValueOf, EndsAt
  <2>4. PICK old : old = offset
    OBVIOUS
  <2>5. old = 0 \/ n >= Width
    BY <2>1, <2>3, <2>4, Sizes
  <2>6. QED
    BY <1>1, <2>3, <2>4, <2>5, Laid
<1>3. QED
  BY <1>1, <1>2 DEF InputInv

LEMMA InputTypes ==
  ASSUME InputInv, NEW ch \in Chars, Papers!Type(ch) PROVE InputInv'
<1>1. /\ paper = "input" /\ shifted' = shifted /\ offset + input_x < MAX_LEN
      /\ instr' = Papers!Written(offset + input_x, ch)
  BY DEF Papers!Type, Papers!Edit
<1>2. instr' = [i \in 0..MAX_LEN |-> instr'[i]]
  BY <1>1 DEF Papers!Written
<1>3. ASSUME ~shifted PROVE \E n \in 0..MAX_LEN : ValueOf(n)'
  <2>1. PICK n \in 0..MAX_LEN : ValueOf(n)
    BY <1>1, <1>3 DEF InputInv
  <2>2. PICK o \in Nat, x \in 0..Width - 1 : o = offset /\ x = input_x /\ o + x = n
    BY <2>1 DEF ValueOf
  <2>3. n \in Nat /\ n < MAX_LEN /\ MAX_LEN \in Nat /\ Width \in Nat \ {0} /\ x \in Nat /\ x <= Width - 1
    BY <1>1, <2>2, Sizes
  <2>4. /\ \A i \in 0..n - 1 : instr[i] # Nul
        /\ o > 0 => o + Width - 1 <= MAX_LEN /\ \A i \in n..o + Width - 1 : instr[i] = Nul
        /\ field = [j \in 0..Width - 1 |-> IF j < x THEN instr[o + j] ELSE Space]
    BY <2>1, <2>2 DEF ValueOf, EndsAt
  <2>5. instr' = [i \in 0..MAX_LEN |-> IF i = n THEN ch ELSE IF i = n + 1 THEN Nul ELSE instr[i]]
    BY <1>1, <2>2 DEF Papers!Written
  <2>6. ch # Nul
    BY TextAssumption DEF TextAssumption
  <2>7. /\ n + 1 \in 0..MAX_LEN /\ instr'[n + 1] = Nul
        /\ \A i \in 0..n : instr'[i] = IF i = n THEN ch ELSE instr[i]
    BY <2>3, <2>5
  <2>8. \A i \in 0..n : instr'[i] # Nul
    BY <2>3, <2>4, <2>6, <2>7
  <2>9. EndsAt(n + 1)'
    <3>1. n + 1 - 1 = n
      BY <2>3
    <3>2. QED
      BY <2>7, <2>8, <3>1 DEF EndsAt
  <2>10. CASE x = Width - 1
    <3>1. /\ offset' = o + 1 /\ input_x' = x
          /\ field' = [j \in 0..Width - 1 |-> IF j < Width - 1 THEN instr'[o + 1 + j] ELSE field[j]]
      BY <2>2, <2>10 DEF Papers!Type, Papers!Columns
    <3>2. \A j \in 0..Width - 1 : field'[j] = IF j < x THEN instr'[o + 1 + j] ELSE Space
      BY <2>3, <2>4, <2>10, <3>1
    <3>3. field' = [j \in 0..Width - 1 |-> IF j < input_x' THEN instr'[offset' + j] ELSE Space]
      BY <3>1, <3>2
    <3>4. offset' + Width - 1 = n + 1 /\ n + 1 <= MAX_LEN
      BY <2>2, <2>3, <2>10, <3>1
    <3>5. \A i \in n + 1..n + 1 : instr'[i] = Nul
      BY <2>3, <2>7
    <3>6. offset' \in Nat /\ input_x' \in 0..Width - 1 /\ offset' + input_x' = n + 1
      BY <2>2, <2>3, <2>10, <3>1
    <3>7. QED
      BY <2>7, <2>9, <3>3, <3>4, <3>5, <3>6 DEF ValueOf
  <2>11. CASE x # Width - 1
    <3>1. offset' = o /\ input_x' = x + 1 /\ field' = [field EXCEPT ![x] = ch]
      BY <2>2, <2>11 DEF Papers!Type
    <3>2. \A j \in 0..Width - 1 : field'[j] = IF j = x THEN ch ELSE IF j < x THEN instr[o + j] ELSE Space
      BY <2>4, <3>1
    <3>3. \A j \in 0..Width - 1 : j < x + 1 => instr'[o + j] = IF j = x THEN ch ELSE instr[o + j]
      BY <2>2, <2>3, <2>7
    <3>4. \A j \in 0..Width - 1 : field'[j] = IF j < x + 1 THEN instr'[o + j] ELSE Space
      BY <2>3, <3>2, <3>3
    <3>5. field' = [j \in 0..Width - 1 |-> field'[j]]
      BY <2>4, <3>1
    <3>6. field' = [j \in 0..Width - 1 |-> IF j < input_x' THEN instr'[offset' + j] ELSE Space]
      BY <3>1, <3>4, <3>5
    <3>7. offset' \in Nat /\ input_x' \in 0..Width - 1 /\ offset' + input_x' = n + 1
      BY <2>2, <2>3, <2>11, <3>1
    <3>8. ASSUME o > 0 PROVE \A i \in n + 1..o + Width - 1 : instr'[i] = Nul
      BY <2>2, <2>3, <2>4, <2>5, <3>8
    <3>9. offset' > 0 =>
            offset' + Width - 1 <= MAX_LEN /\ \A i \in n + 1..offset' + Width - 1 : instr'[i] = Nul
      BY <2>4, <3>1, <3>8
    <3>10. QED
      BY <2>7, <2>9, <3>6, <3>7, <3>9 DEF ValueOf
  <2>12. QED
    BY <2>10, <2>11
<1>4. QED
  BY <1>1, <1>2, <1>3 DEF InputInv

LEMMA InputBacks == ASSUME InputInv, Papers!Backspace PROVE InputInv'
<1>1. paper = "input" /\ shifted' = shifted
  BY DEF Papers!Backspace, Papers!Edit
<1>2. instr' = [i \in 0..MAX_LEN |-> instr'[i]]
  BY DEF InputInv, Papers!Backspace
<1>3. ASSUME ~shifted PROVE \E n \in 0..MAX_LEN : ValueOf(n)'
  <2>1. PICK n \in 0..MAX_LEN : ValueOf(n)
    BY <1>1, <1>3 DEF InputInv
  <2>2. PICK o \in Nat, x \in 0..Width - 1 : o = offset /\ x = input_x /\ o + x = n
    BY <2>1 DEF ValueOf
  <2>3. n \in Nat /\ n <= MAX_LEN /\ MAX_LEN \in Nat /\ Width \in Nat \ {0} /\ x \in Nat /\ x <= Width - 1
    BY <2>2, Sizes
  <2>4. /\ instr[n] = Nul /\ \A i \in 0..n - 1 : instr[i] # Nul
        /\ o > 0 => o + Width - 1 <= MAX_LEN /\ \A i \in n..o + Width - 1 : instr[i] = Nul
        /\ field = [j \in 0..Width - 1 |-> IF j < x THEN instr[o + j] ELSE Space]
    BY <2>1, <2>2 DEF ValueOf, EndsAt
  <2>5. CASE x > 0
    <3>1. /\ input_x' = x - 1 /\ instr' = [instr EXCEPT ![o + (x - 1)] = Nul]
          /\ field' = [field EXCEPT ![x - 1] = Space] /\ offset' = o
      BY <2>2, <2>3, <2>5 DEF Papers!Backspace
    <3>2. PICK k \in 0..MAX_LEN : k = n - 1 /\ o + (x - 1) = k
      BY <2>2, <2>3, <2>5
    <3>3. /\ instr'[k] = Nul /\ \A i \in 0..MAX_LEN : i # k => instr'[i] = instr[i]
      BY <3>1, <3>2 DEF InputInv
    <3>4. EndsAt(k)'
      <4>1. \A i \in 0..k - 1 : i \in 0..n - 1 /\ i \in 0..MAX_LEN /\ i # k
        BY <2>3, <3>2
      <4>2. QED
        BY <2>4, <3>3, <4>1 DEF EndsAt
    <3>5. \A j \in 0..Width - 1 : field'[j] = IF j < x - 1 THEN instr[o + j] ELSE Space
      BY <2>3, <2>4, <3>1
    <3>6. \A j \in 0..Width - 1 : j < x - 1 => instr'[o + j] = instr[o + j]
      BY <2>2, <2>3, <3>2, <3>3
    <3>7. field' = [j \in 0..Width - 1 |-> field'[j]]
      BY <2>4, <3>1
    <3>8. field' = [j \in 0..Width - 1 |-> IF j < input_x' THEN instr'[offset' + j] ELSE Space]
      BY <3>1, <3>5, <3>6, <3>7
    <3>9. offset' \in Nat /\ input_x' \in 0..Width - 1 /\ offset' + input_x' = k
      BY <2>2, <2>3, <2>5, <3>1, <3>2
    <3>10. ASSUME o > 0 PROVE \A i \in k..o + Width - 1 : instr'[i] = Nul
      BY <2>2, <2>3, <2>4, <3>2, <3>3, <3>10
    <3>11. offset' > 0 => offset' + Width - 1 <= MAX_LEN /\ \A i \in k..offset' + Width - 1 : instr'[i] = Nul
      BY <2>4, <3>1, <3>10
    <3>12. QED
      BY <3>4, <3>8, <3>9, <3>11 DEF ValueOf
  <2>6. CASE x = 0
    <3>1. /\ o > 0 /\ offset' = Papers!Most(0, o - (Width - 1)) /\ input_x' = Papers!Strlen(instr) - offset'
          /\ field' = [j \in 0..Width - 1 |-> IF j # input_x' /\ instr[offset' + j] # Nul
                                              THEN instr[offset' + j] ELSE Space]
          /\ instr' = instr
      BY <2>2, <2>3, <2>6 DEF Papers!Backspace, Papers!Columns
    <3>2. n = o /\ Papers!Strlen(instr) = n
      BY <2>2, <2>3, <2>4, <2>6, Length
    <3>3. PICK o2 : o2 = offset'
      OBVIOUS
    <3>4. o2 = Papers!Most(0, o - (Width - 1)) /\ input_x' = n - o2
      BY <3>1, <3>2, <3>3
    <3>5. o2 \in Nat /\ o2 <= o /\ o - o2 <= Width - 1 /\ (o2 > 0 => o2 + Width - 1 = o)
      BY <2>2, <2>3, <3>4 DEF Papers!Most
    <3>6. input_x' = o - o2 /\ input_x' \in 0..Width - 1 /\ o2 + input_x' = n
      BY <2>2, <2>3, <3>2, <3>4, <3>5
    <3>7. \A i \in 0..o + Width - 1 : instr[i] # Nul <=> i < n
      BY <2>2, <2>3, <2>4, <3>1, <3>2
    <3>8. SUFFICES \A j \in 0..Width - 1 : field'[j] = IF j < o - o2 THEN instr[o2 + j] ELSE Space
      <4>1. field' = [j \in 0..Width - 1 |-> field'[j]]
        BY <3>1
      <4>2. o2 > 0 => o2 + Width - 1 <= MAX_LEN /\ \A i \in n..o2 + Width - 1 : instr[i] = Nul
        BY <2>2, <2>3, <2>4, <3>2, <3>5
      <4>3. EndsAt(n)'
        BY <2>4, <3>1 DEF EndsAt
      <4>4. ASSUME \A j \in 0..Width - 1 : field'[j] = IF j < o - o2 THEN instr[o2 + j] ELSE Space
            PROVE  ValueOf(n)'
        BY <3>1, <3>3, <3>5, <3>6, <4>1, <4>2, <4>3, <4>4 DEF ValueOf
      <4>5. QED
        BY <4>4
    <3>9. SUFFICES ASSUME NEW j \in 0..Width - 1
                   PROVE  field'[j] = IF j < o - o2 THEN instr[o2 + j] ELSE Space
      OBVIOUS
    <3>10. o2 + j \in 0..o + Width - 1 /\ (o2 + j < n <=> j < o - o2)
      BY <2>2, <2>3, <3>2, <3>5
    <3>11. instr[o2 + j] # Nul <=> j < o - o2
      BY <3>7, <3>10
    <3>12. field'[j] = IF j # o - o2 /\ instr[o2 + j] # Nul THEN instr[o2 + j] ELSE Space
      BY <3>1, <3>3, <3>6
    <3>13. QED
      BY <2>2, <2>3, <3>5, <3>11, <3>12
  <2>7. QED
    BY <2>2, <2>3, <2>5, <2>6
<1>4. QED
  BY <1>1, <1>2, <1>3 DEF InputInv

LEMMA ValueIsTyped == ASSUME InputInv, paper = "input", ~shifted PROVE Papers!FieldAsTyped
<1>1. PICK n \in 0..MAX_LEN : ValueOf(n)
  BY DEF InputInv
<1>2. Papers!Strlen(instr) = n
  BY <1>1, Length DEF ValueOf, EndsAt
<1>3. QED
  BY <1>1, <1>2 DEF ValueOf, Papers!FieldAsTyped, Papers!Columns

\* The lines that a text box shows follow one another and the keys are stopped at
\* the ends of the text, whatever keys were pressed in a window of whatever size
\* (dialog_textbox); the field of an input box shows what was typed, with the
\* cursor behind it (dialog_inputbox).
THEOREM TextIsShown == Papers!Spec => []Papers!ShowsWhatIsThere
<1>1. Papers!Init => TextInv /\ InputInv
  BY TextAssumption DEF TextAssumption, Papers!Init, TextInv, InputInv
<1>2. TextInv /\ InputInv /\ [Papers!Next]_(Papers!vars) => TextInv' /\ InputInv'
  <2>1. SUFFICES ASSUME TextInv, InputInv, [Papers!Next]_(Papers!vars) PROVE TextInv' /\ InputInv'
    OBVIOUS
  <2>2. CASE Papers!OpenText
    <3>1. InputInv'
      BY <2>1, <2>2 DEF InputInv, ValueOf, EndsAt, Papers!OpenText, Papers!inputVars
    <3>2. QED
      BY <2>2, <3>1, TextOpens
  <2>3. CASE \/ Papers!Home \/ Papers!ToEnd \/ Papers!PriorPage \/ Papers!NextPage
             \/ Papers!PriorLine \/ Papers!NextLine \/ Papers!Sideways \/ Papers!ResizeText
    <3>1. paper = "text" /\ paper' = paper /\ UNCHANGED Papers!inputVars
      BY <2>3 DEF Papers!Home, Papers!ToEnd, Papers!PriorPage, Papers!NextPage, Papers!PriorLine,
                  Papers!NextLine, Papers!Sideways, Papers!ResizeText, Papers!Read
    <3>2. InputInv'
      BY <2>1, <3>1 DEF InputInv, ValueOf, EndsAt, Papers!inputVars
    <3>3. QED
      BY <2>1, <2>3, <3>1, <3>2, TextMoves
  <2>4. CASE Papers!CloseText
    BY <2>1, <2>4, TextAssumption DEF TextAssumption, InputInv, TextInv, Papers!CloseText, Papers!inputVars
  <2>5. CASE Papers!OpenInput
    <3>1. TextInv'
      BY <2>5 DEF TextInv, Papers!OpenInput
    <3>2. QED
      BY <2>1, <2>5, <3>1, InputOpens
  <2>6. CASE (\E ch \in Chars : Papers!Type(ch)) \/ Papers!Backspace \/ Papers!ResizeInput
    <3>1. paper' = "input"
      BY <2>6 DEF Papers!Type, Papers!Backspace, Papers!ResizeInput, Papers!Edit
    <3>2. TextInv'
      BY <3>1 DEF TextInv
    <3>3. QED
      BY <2>1, <2>6, <3>2, InputTypes, InputBacks, InputResizes
  <2>7. CASE Papers!Turn
    BY <2>1, <2>7 DEF InputInv, TextInv, ValueOf, EndsAt, Papers!Turn, Papers!Edit
  <2>8. CASE Papers!CloseInput
    BY <2>1, <2>8, TextAssumption DEF TextAssumption, InputInv, TextInv, Papers!CloseInput, Papers!NoInput
  <2>9. CASE UNCHANGED Papers!vars
    BY <2>1, <2>9 DEF InputInv, TextInv, PageFrom, ValueOf, EndsAt,
                      Papers!vars, Papers!textVars, Papers!inputVars
  <2>10. QED
    BY <2>1, <2>2, <2>3, <2>4, <2>5, <2>6, <2>7, <2>8, <2>9 DEF Papers!Next
<1>3. TextInv /\ InputInv => Papers!ShowsWhatIsThere
  BY TextIsWritten, ValueIsTyped DEF Papers!ShowsWhatIsThere
<1>4. QED
  BY <1>1, <1>2, <1>3, PTL DEF Papers!Spec

------------------------------------------------------------------------------
(* dialog_menu and dialog_checklist                                         *)

Count == Len(items)
View == Boxes!max_choice

\* Whether an entry is highlighted.
Dim == FALSE
Bright == TRUE

\* The window over the entries from s on: with the one on line r highlighted, and
\* with none.
Page(s, r) == [l \in Boxes!Lines |-> IF l < View THEN <<items[s + l + 1], l = r>> ELSE Blank]
Dark(s) == [l \in Boxes!Lines |-> IF l < View THEN <<items[s + l + 1], Dim>> ELSE Blank]
Win(s, r, f) == [scroll |-> s, choice |-> r, screen |-> f]

Open == items \in Items /\ height \in Heights
Placed(s, r) == r \in 0..View - 1 /\ s \in 0..Count - View

\* Keys find the window as Page says, and leave it so, but behind a resize that left
\* first_item.
MenuInv ==
  /\ kept \in Nat
  /\ box \in {"menu", "list"} => Open /\ Placed(scroll, choice) /\ (~stale => screen = Page(scroll, choice))

LEMMA Lengths ==
  ASSUME Open
  PROVE  /\ height \in Nat \ {0} /\ Count \in Nat \ {0} /\ View \in Nat \ {0} /\ Boxes!Lines = 0..height - 1
         /\ View <= height /\ View <= Count /\ (View < Count => View = height)
<1>1. height \in Nat \ {0} /\ Count \in Nat \ {0}
  BY MenuAssumption DEF MenuAssumption, Open, Count
<1>2. QED
  BY <1>1 DEF View, Count, Boxes!max_choice, Boxes!Least, Boxes!Lines

LEMMA Puts ==
  \A s, r, f, l, lit :
    Boxes!Put(Win(s, r, f), l, lit) = Win(s, r, [f EXCEPT ![l] = <<items[s + l + 1], lit>>])
BY DEF Boxes!Put, Win

LEMMA Fields ==
  ASSUME NEW s, NEW r, NEW f
  PROVE  Win(s, r, f).scroll = s /\ Win(s, r, f).choice = r /\ Win(s, r, f).screen = f
BY DEF Win

LEMMA Chooses ==
  ASSUME NEW s, NEW r, NEW f, NEW e
  PROVE  [Win(s, r, f) EXCEPT !.choice = e] = Win(s, e, f)
BY DEF Win

LEMMA Scrolls ==
  ASSUME NEW s, NEW r, NEW g, NEW n
  PROVE  Boxes!Scrolled(Win(s, r, g), n)
           = Win(s + n, r, [l \in Boxes!Lines |-> IF l + n \in Boxes!Lines THEN g[l + n] ELSE Blank])
BY DEF Boxes!Scrolled, Win

LEMMA Prints ==
  ASSUME NEW s, NEW r, NEW g, NEW ls
  PROVE  Boxes!Printed(Win(s, r, g), ls)
           = Win(s, r, [l \in Boxes!Lines |-> IF l \in ls THEN <<items[s + l + 1], Dim>> ELSE g[l]])
<1> DEFINE f == [l \in Boxes!Lines |-> IF l \in ls THEN <<items[s + l + 1], Dim>> ELSE g[l]]
<1>1. Boxes!Printed(Win(s, r, g), ls) = [Win(s, r, g) EXCEPT !.screen = f]
  BY DEF Boxes!Printed, Win, Dim
<1>2. [Win(s, r, g) EXCEPT !.screen = f] = Win(s, r, f)
  <2> HIDE DEF f
  <2> QED BY DEF Win
<1>3. QED
  BY <1>1, <1>2

\* A line is printed again, highlighted or not: do_print_item.
LEMMA Unlights ==
  ASSUME NEW s, NEW r, NEW f
  PROVE  Boxes!Unlit(Win(s, r, f)) = Win(s, r, [f EXCEPT ![r] = <<items[s + r + 1], Dim>>])
<1>1. Boxes!Put(Win(s, r, f), r, Dim) = Win(s, r, [f EXCEPT ![r] = <<items[s + r + 1], Dim>>])
  BY Puts
<1>2. Win(s, r, f).choice = r
  BY Fields
<1>3. Boxes!Unlit(Win(s, r, f)) = Boxes!Put(Win(s, r, f), r, FALSE)
  BY <1>2 DEF Boxes!Unlit
<1>4. Dim = FALSE
  BY DEF Dim
<1>5. QED
  BY <1>1, <1>3, <1>4, Zenon

LEMMA LightsUp ==
  ASSUME NEW s, NEW r, NEW g
  PROVE  Boxes!Lit(Win(s, r, g)) = Win(s, r, [g EXCEPT ![r] = <<items[s + r + 1], Bright>>])
<1>1. Boxes!Put(Win(s, r, g), r, Bright) = Win(s, r, [g EXCEPT ![r] = <<items[s + r + 1], Bright>>])
  BY Puts
<1>2. Win(s, r, g).choice = r
  BY Fields
<1>3. Boxes!Lit(Win(s, r, g)) = Boxes!Put(Win(s, r, g), r, TRUE)
  BY <1>2 DEF Boxes!Lit
<1>4. Bright = TRUE
  BY DEF Bright
<1>5. QED
  BY <1>1, <1>3, <1>4, Zenon

LEMMA Darkens ==
  ASSUME Open, NEW s, NEW r, NEW f
  PROVE  \E g : /\ Boxes!Unlit(Win(s, r, f)) = Win(s, r, g)
                /\ Placed(s, r) /\ f = Page(s, r) => g = Dark(s)
<1> DEFINE g == [f EXCEPT ![r] = <<items[s + r + 1], Dim>>]
<1>1. Boxes!Unlit(Win(s, r, f)) = Win(s, r, g)
  BY Unlights
<1>2. ASSUME Placed(s, r), f = Page(s, r) PROVE g = Dark(s)
  <2>1. \A l \in Boxes!Lines : g[l] = Dark(s)[l]
    <3>1. SUFFICES ASSUME NEW l \in Boxes!Lines PROVE g[l] = Dark(s)[l]
      OBVIOUS
    <3>2. CASE l = r
      <4>1. g[l] = <<items[s + l + 1], Dim>>
        BY <1>2, <3>2 DEF Page
      <4>2. l < View
        BY <1>2, <3>2, Lengths DEF Placed
      <4>3. QED
        BY <4>1, <4>2 DEF Dark
    <3>3. CASE l # r
      <4>1. g[l] = IF l < View THEN <<items[s + l + 1], l = r>> ELSE Blank
        BY <1>2, <3>3 DEF Page
      <4>2. (l = r) = Dim
        BY <3>3 DEF Dim
      <4>3. QED
        BY <4>1, <4>2, Zenon DEF Dark
    <3>4. QED
      BY <3>2, <3>3
  <2>2. g = [l \in Boxes!Lines |-> g[l]]
    BY <1>2 DEF Page
  <2>3. QED
    BY <2>1, <2>2 DEF Dark
<1>3. QED
  BY <1>1, <1>2

LEMMA Lights ==
  ASSUME Open, NEW s, NEW r, NEW g
  PROVE  \E f : /\ Boxes!Lit(Win(s, r, g)) = Win(s, r, f)
                /\ Placed(s, r) /\ g = Dark(s) => f = Page(s, r)
<1> DEFINE f == [g EXCEPT ![r] = <<items[s + r + 1], Bright>>]
<1>1. Boxes!Lit(Win(s, r, g)) = Win(s, r, f)
  BY LightsUp
<1>2. ASSUME Placed(s, r), g = Dark(s) PROVE f = Page(s, r)
  <2>1. \A l \in Boxes!Lines : f[l] = Page(s, r)[l]
    <3>1. SUFFICES ASSUME NEW l \in Boxes!Lines PROVE f[l] = Page(s, r)[l]
      OBVIOUS
    <3>2. CASE l = r
      <4>1. f[l] = <<items[s + l + 1], Bright>>
        BY <1>2, <3>2 DEF Dark
      <4>4. l < View
        BY <1>2, <3>2, Lengths DEF Placed
      <4>2. (l = r) = Bright
        BY <3>2 DEF Bright
      <4>3. QED
        BY <4>1, <4>2, <4>4, Zenon DEF Page
    <3>3. CASE l # r
      <4>1. f[l] = IF l < View THEN <<items[s + l + 1], Dim>> ELSE Blank
        BY <1>2, <3>3 DEF Dark
      <4>2. (l = r) = Dim
        BY <3>3 DEF Dim
      <4>3. QED
        BY <4>1, <4>2, Zenon DEF Page
    <3>4. QED
      BY <3>2, <3>3
  <2>2. f = [l \in Boxes!Lines |-> f[l]]
    BY <1>2 DEF Dark
  <2>3. QED
    BY <2>1, <2>2 DEF Page
<1>3. QED
  BY <1>1, <1>2

\* do_scroll n lines, and the lines that come in.
LEMMA ScrollsBack ==
  ASSUME Open, NEW s \in Nat, NEW r, NEW g, NEW n \in 0..s, n <= View, s <= Count - View
  PROVE  \E f : Boxes!Back(Win(s, r, g), n) = Win(s - n, r, f) /\ (g = Dark(s) => f = Dark(s - n))
<1> DEFINE f == [l \in Boxes!Lines |-> IF l \in 0..n - 1 THEN <<items[s - n + l + 1], Dim>>
                                       ELSE IF l - n \in Boxes!Lines THEN g[l - n] ELSE Blank]
<1>1. s + -n = s - n /\ \A l \in Boxes!Lines : l + -n = l - n
  BY Lengths
<1>2. Boxes!Back(Win(s, r, g), n) = Win(s - n, r, f)
  <2> DEFINE h == [l \in Boxes!Lines |-> IF l - n \in Boxes!Lines THEN g[l - n] ELSE Blank]
  <2>1. Boxes!Scrolled(Win(s, r, g), -n) = Win(s - n, r, h)
    <3>1. PICK m : m = -n
      OBVIOUS
    <3>2. Boxes!Scrolled(Win(s, r, g), m)
            = Win(s + m, r, [l \in Boxes!Lines |-> IF l + m \in Boxes!Lines THEN g[l + m] ELSE Blank])
      BY Scrolls
    <3>3. s + m = s - n /\ \A l \in Boxes!Lines : l + m = l - n
      BY <1>1, <3>1
    <3>4. [l \in Boxes!Lines |-> IF l + m \in Boxes!Lines THEN g[l + m] ELSE Blank] = h
      BY <3>3
    <3>5. QED
      BY <3>1, <3>2, <3>3, <3>4
  <2>2. Boxes!Back(Win(s, r, g), n) = Boxes!Printed(Win(s - n, r, h), 0..n - 1)
    BY <2>1 DEF Boxes!Back
  <2>3. Boxes!Printed(Win(s - n, r, h), 0..n - 1)
          = Win(s - n, r,
                [l \in Boxes!Lines |-> IF l \in 0..n - 1 THEN <<items[s - n + l + 1], Dim>> ELSE h[l]])
    BY Prints
  <2>4. [l \in Boxes!Lines |-> IF l \in 0..n - 1 THEN <<items[s - n + l + 1], Dim>> ELSE h[l]] = f
    OBVIOUS
  <2>5. QED
    BY <2>2, <2>3, <2>4
<1>3. ASSUME g = Dark(s) PROVE f = Dark(s - n)
  <2>1. SUFFICES ASSUME NEW l \in Boxes!Lines PROVE f[l] = Dark(s - n)[l]
    BY DEF Dark
  <2>2. l \in Nat /\ l < height /\ n \in Nat
    BY Lengths
  <2>3. CASE l < n
    BY <2>2, <2>3, Lengths DEF Dark
  <2>4. CASE l >= n
    <3>1. l - n \in Boxes!Lines
      BY <2>2, <2>4, Lengths
    <3>2. f[l] = IF l - n < View THEN <<items[s + (l - n) + 1], Dim>> ELSE Blank
      BY <1>3, <2>2, <2>4, <3>1 DEF Dark
    <3>3. s + (l - n) + 1 = s - n + l + 1
      BY <2>2
    <3>4. n > 0 => View = height
      BY <2>2, Lengths
    <3>5. l - n < View <=> l < View
      BY <2>2, <3>4, Lengths
    <3>6. QED
      BY <3>2, <3>3, <3>5 DEF Dark
  <2>5. QED
    BY <2>2, <2>3, <2>4
<1>4. QED
  BY <1>2, <1>3

LEMMA ScrollsOn ==
  ASSUME Open, NEW s \in Nat, NEW r, NEW g, NEW n \in Nat, n <= View, s + n <= Count - View
  PROVE  \E f : Boxes!On(Win(s, r, g), n) = Win(s + n, r, f) /\ (g = Dark(s) => f = Dark(s + n))
<1> DEFINE f == [l \in Boxes!Lines |-> IF l \in View - n..View - 1 THEN <<items[s + n + l + 1], Dim>>
                                       ELSE IF l + n \in Boxes!Lines THEN g[l + n] ELSE Blank]
<1>1. Boxes!On(Win(s, r, g), n) = Win(s + n, r, f)
  <2> DEFINE h == [l \in Boxes!Lines |-> IF l + n \in Boxes!Lines THEN g[l + n] ELSE Blank]
  <2>1. Boxes!Scrolled(Win(s, r, g), n) = Win(s + n, r, h)
    BY Scrolls
  <2>2. Boxes!On(Win(s, r, g), n) = Boxes!Printed(Win(s + n, r, h), View - n..View - 1)
    BY <2>1 DEF Boxes!On, View
  <2>3. PICK s2, ls : s2 = s + n /\ ls = View - n..View - 1
    OBVIOUS
  <2>4. Boxes!Printed(Win(s2, r, h), ls)
          = Win(s2, r, [l \in Boxes!Lines |-> IF l \in ls THEN <<items[s2 + l + 1], Dim>> ELSE h[l]])
    BY Prints
  <2>5. [l \in Boxes!Lines |-> IF l \in ls THEN <<items[s2 + l + 1], Dim>> ELSE h[l]] = f
    BY <2>3
  <2>6. QED
    BY <2>2, <2>3, <2>4, <2>5
<1>2. ASSUME g = Dark(s) PROVE f = Dark(s + n)
  <2>1. SUFFICES ASSUME NEW l \in Boxes!Lines PROVE f[l] = Dark(s + n)[l]
    BY DEF Dark
  <2>2. l \in Nat /\ l < height
    BY Lengths
  <2>3. n > 0 => View = height
    BY Lengths
  <2>4. CASE l \in View - n..View - 1
    <3>1. f[l] = <<items[s + n + l + 1], Dim>>
      BY <2>4
    <3>3. l < View
      BY <2>2, <2>4, Lengths
    <3>2. QED
      BY <3>1, <3>3 DEF Dark
  <2>5. CASE l \notin View - n..View - 1
    <3>1. n > 0 => l + n \in Boxes!Lines /\ l + n < View /\ l < View
      BY <2>2, <2>3, <2>5, Lengths
    <3>2. n = 0 => l + n = l
      BY <2>2
    <3>3. l + n \in Boxes!Lines /\ (l + n < View <=> l < View)
      BY <3>1, <3>2
    <3>4. f[l] = IF l + n < View THEN <<items[s + (l + n) + 1], Dim>> ELSE Blank
      BY <1>2, <2>5, <3>3 DEF Dark
    <3>5. s + (l + n) + 1 = s + n + l + 1
      BY <2>2
    <3>6. QED
      BY <3>3, <3>4, <3>5 DEF Dark
  <2>6. QED
    BY <2>4, <2>5
<1>3. QED
  BY <1>1, <1>2

\* Keys in a menu: without its highlight, the window is moved to another place.
Moved(w, g, s) ==
  \E s2, c2, g2 : w = Win(s2, c2, g2) /\ Placed(s2, c2) /\ (g = Dark(s) => g2 = Dark(s2))

LEMMA PlacedNumbers ==
  ASSUME Open, NEW s, NEW r, Placed(s, r)
  PROVE  s \in Nat /\ r \in Nat /\ r < View /\ s + View <= Count /\ View \in Nat /\ Count \in Nat
BY Lengths DEF Placed

LEMMA UpMoves ==
  ASSUME Open, NEW s, NEW r, NEW g, Placed(s, r) PROVE Moved(Boxes!UpKey(Win(s, r, g)), g, s)
<1>1. s \in Nat /\ r \in Nat /\ r < View /\ s + View <= Count /\ View \in Nat /\ Count \in Nat
  BY PlacedNumbers
<1>2. CASE r < 2 /\ s > 0
  <2>1. Boxes!UpKey(Win(s, r, g)) = Boxes!Back(Win(s, r, g), 1)
    BY <1>2, Fields DEF Boxes!UpKey
  <2>2. 1 \in 0..s /\ 1 <= View /\ s <= Count - View
    BY <1>1, <1>2, Lengths
  <2>3. PICK f : Boxes!Back(Win(s, r, g), 1) = Win(s - 1, r, f) /\ (g = Dark(s) => f = Dark(s - 1))
    BY <1>1, <2>2, ScrollsBack
  <2>4. Placed(s - 1, r)
    BY <1>1, <1>2, Lengths DEF Placed
  <2>5. QED
    BY <2>1, <2>3, <2>4 DEF Moved
<1>3. CASE ~(r < 2 /\ s > 0)
  <2>1. Boxes!UpKey(Win(s, r, g)) = Win(s, Boxes!Most(r - 1, 0), g)
    BY <1>3 DEF Boxes!UpKey, Win
  <2>2. Placed(s, Boxes!Most(r - 1, 0))
    BY <1>1 DEF Placed, Boxes!Most
  <2>3. QED
    BY <2>1, <2>2 DEF Moved
<1>4. QED
  BY <1>2, <1>3

LEMMA DownMoves ==
  ASSUME Open, NEW s, NEW r, NEW g, Placed(s, r) PROVE Moved(Boxes!DownKey(Win(s, r, g)), g, s)
<1>1. s \in Nat /\ r \in Nat /\ r < View /\ s + View <= Count /\ View \in Nat /\ Count \in Nat
  BY PlacedNumbers
<1>2. CASE r > View - 3 /\ s + View < Count
  <2>1. Boxes!DownKey(Win(s, r, g)) = Boxes!On(Win(s, r, g), 1)
    BY <1>2, Fields DEF Boxes!DownKey, Boxes!More, View, Count
  <2>2. PICK n \in Nat : n = 1 /\ n <= View /\ s + n <= Count - View
    BY <1>1, <1>2, Lengths
  <2>3. PICK f : Boxes!On(Win(s, r, g), n) = Win(s + n, r, f) /\ (g = Dark(s) => f = Dark(s + n))
    BY <1>1, <2>2, ScrollsOn
  <2>4. Boxes!On(Win(s, r, g), 1) = Win(s + 1, r, f) /\ (g = Dark(s) => f = Dark(s + 1))
    BY <2>2, <2>3
  <2>5. Placed(s + 1, r)
    BY <1>1, <1>2, Lengths DEF Placed
  <2>6. QED
    BY <2>1, <2>4, <2>5 DEF Moved
<1>3. CASE ~(r > View - 3 /\ s + View < Count)
  <2>1. Boxes!DownKey(Win(s, r, g)) = Win(s, Boxes!Least(r + 1, View - 1), g)
    BY <1>3 DEF Boxes!DownKey, Boxes!More, Win, View, Count
  <2>2. Placed(s, Boxes!Least(r + 1, View - 1))
    BY <1>1 DEF Placed, Boxes!Least
  <2>3. QED
    BY <2>1, <2>2 DEF Moved
<1>4. QED
  BY <1>2, <1>3

LEMMA PageUpMoves ==
  ASSUME Open, NEW s, NEW r, NEW g, Placed(s, r) PROVE Moved(Boxes!PageUp(Win(s, r, g)), g, s)
<1>1. s \in Nat /\ r \in Nat /\ r < View /\ s + View <= Count /\ View \in Nat /\ Count \in Nat
  BY PlacedNumbers
<1>2. PICK n : n = Boxes!Least(s, View)
  OBVIOUS
<1>3. n \in 0..s /\ n <= View /\ s <= Count - View
  BY <1>1, <1>2 DEF Boxes!Least
<1>4. PICK f : Boxes!Back(Win(s, r, g), n) = Win(s - n, r, f) /\ (g = Dark(s) => f = Dark(s - n))
  <2>1. Open /\ s \in Nat /\ n \in 0..s /\ n <= View /\ s <= Count - View
    BY <1>1, <1>3
  <2>2. QED
    BY <2>1, ScrollsBack, Zenon
<1>5. Boxes!PageUp(Win(s, r, g))
        = [Boxes!Back(Win(s, r, g), n) EXCEPT !.choice = Boxes!Most(@ - (View - n), 0)]
  BY <1>2, Fields DEF Boxes!PageUp, View
<1>6. [Win(s - n, r, f) EXCEPT !.choice = Boxes!Most(@ - (View - n), 0)]
        = Win(s - n, Boxes!Most(r - (View - n), 0), f)
  BY DEF Win
<1>7. Placed(s - n, Boxes!Most(r - (View - n), 0))
  BY <1>1, <1>3 DEF Placed, Boxes!Most
<1>8. QED
  BY <1>4, <1>5, <1>6, <1>7 DEF Moved

LEMMA PageDownMoves ==
  ASSUME Open, NEW s, NEW r, NEW g, Placed(s, r) PROVE Moved(Boxes!PageDown(Win(s, r, g)), g, s)
<1>1. s \in Nat /\ r \in Nat /\ r < View /\ s + View <= Count /\ View \in Nat /\ Count \in Nat
  BY PlacedNumbers
<1>2. PICK n : n = Boxes!Least(Count - View - s, View)
  OBVIOUS
<1>3. n \in Nat /\ n <= View /\ s + n <= Count - View
  BY <1>1, <1>2 DEF Boxes!Least
<1>4. PICK f : Boxes!On(Win(s, r, g), n) = Win(s + n, r, f) /\ (g = Dark(s) => f = Dark(s + n))
  BY <1>1, <1>3, ScrollsOn
<1>5. Boxes!PageDown(Win(s, r, g))
        = [Boxes!On(Win(s, r, g), n) EXCEPT !.choice = Boxes!Least(@ + (View - n), View - 1)]
  BY <1>2, Fields DEF Boxes!PageDown, View, Count
<1>6. [Win(s + n, r, f) EXCEPT !.choice = Boxes!Least(@ + (View - n), View - 1)]
        = Win(s + n, Boxes!Least(r + (View - n), View - 1), f)
  BY DEF Win
<1>7. Placed(s + n, Boxes!Least(r + (View - n), View - 1))
  BY <1>1, <1>3 DEF Placed, Boxes!Least
<1>8. QED
  BY <1>4, <1>5, <1>6, <1>7 DEF Moved

LEMMA Lowest ==
  ASSUME NEW S, S # {}, S \subseteq Nat
  PROVE  \E m \in S : \A k \in S : m <= k
<1>1. PICK m \in S : \A k \in S : <<k, m>> \notin OpToRel(<, Nat)
  BY NatLessThanWellFounded, WFMin
<1>2. \A k, n \in Nat : <<k, n>> \in OpToRel(<, Nat) <=> k < n
  BY DEF OpToRel
<1>3. ASSUME NEW k \in S PROVE m <= k
  <2>1. k \in Nat /\ m \in Nat
    OBVIOUS
  <2>2. ~(k < m)
    BY <1>1, <1>2, <2>1
  <2>3. QED
    BY <2>1, <2>2
<1>4. QED
  BY <1>3

\* A letter that an entry in view begins with leads to one in view.
LEMMA JumpsInView ==
  ASSUME Open, NEW from, NEW l \in 0..View - 1
  PROVE  Boxes!Jumps(from, Letter[items[scroll + l + 1]]) \in 0..View - 1
<1> DEFINE named == {k \in 0..View - 1 : Letter[items[scroll + k + 1]] = Letter[items[scroll + l + 1]]}
           after == {k \in named : k > from}
<1>1. Boxes!Jumps(from, Letter[items[scroll + l + 1]])
        = IF after # {} THEN Boxes!Min(after) ELSE Boxes!Min(named)
  BY DEF Boxes!Jumps, View
<1>2. l \in named /\ named \subseteq 0..View - 1 /\ after \subseteq 0..View - 1 /\ 0..View - 1 \subseteq Nat
  BY Lengths
<1>3. ASSUME NEW S, S # {}, S \subseteq 0..View - 1 PROVE Boxes!Min(S) \in 0..View - 1
  <2>1. \E m \in S : \A k \in S : m <= k
    BY <1>2, <1>3, Lowest
  <2>2. Boxes!Min(S) \in S
    BY <2>1 DEF Boxes!Min
  <2>3. QED
    BY <1>3, <2>2
<1>4. QED
  <2> HIDE DEF named, after
  <2> QED BY <1>1, <1>2, <1>3

\* A window that is highlighted again at its cursor is right when it was right
\* before the key.
LEMMA Becoming ==
  ASSUME Open, UNCHANGED <<items, height, kept, stale, box>>, kept \in Nat,
         NEW w, NEW s, NEW r, NEW f, w = Win(s, r, f), Boxes!Becomes(w),
         Placed(s, r), ~stale => f = Page(s, r)
  PROVE  MenuInv'
<1>1. scroll' = s /\ choice' = r /\ screen' = f
  BY Fields DEF Boxes!Becomes
<1>2. View' = View /\ Count' = Count /\ Boxes!Lines' = Boxes!Lines /\ Open'
  BY DEF View, Boxes!max_choice, Count, Boxes!Lines, Open
<1>3. Placed(scroll, choice)'
  BY <1>1, <1>2 DEF Placed
<1>4. ~stale' => screen' = Page(scroll, choice)'
  BY <1>1, <1>2 DEF Page
<1>5. QED
  BY <1>2, <1>3, <1>4 DEF MenuInv

LEMMA MenuMoves ==
  ASSUME MenuInv, Boxes!Move PROVE MenuInv'
<1>1. /\ box = "menu" /\ UNCHANGED <<items, height, kept, stale, box>> /\ kept \in Nat
      /\ Open /\ Placed(scroll, choice) /\ (~stale => screen = Page(scroll, choice))
  BY DEF MenuInv, Boxes!Move
<1>2. PICK s, r, h : s = scroll /\ r = choice /\ h = screen
  OBVIOUS
<1>3. Boxes!Window = Win(s, r, h)
  BY <1>2 DEF Boxes!Window, Win
<1>4. PICK g : Boxes!Unlit(Boxes!Window) = Win(s, r, g) /\ (Placed(s, r) /\ h = Page(s, r) => g = Dark(s))
  BY <1>1, <1>3, Darkens
<1>5. Placed(s, r) /\ (~stale => g = Dark(s))
  BY <1>1, <1>2, <1>4
<1>6. ASSUME NEW w, Moved(w, g, s), Boxes!Becomes(Boxes!Lit(w)) PROVE MenuInv'
  <2>1. PICK s2, c2, g2 : w = Win(s2, c2, g2) /\ Placed(s2, c2) /\ (g = Dark(s) => g2 = Dark(s2))
    BY <1>6 DEF Moved
  <2>2. PICK f : Boxes!Lit(w) = Win(s2, c2, f) /\ (Placed(s2, c2) /\ g2 = Dark(s2) => f = Page(s2, c2))
    BY <1>1, <2>1, Lights
  <2>3. ~stale => f = Page(s2, c2)
    BY <1>5, <2>1, <2>2
  <2>4. QED
    BY <1>1, <1>6, <2>1, <2>2, <2>3, Becoming
<1>7. CASE Boxes!Becomes(Boxes!Lit(Boxes!UpKey(Boxes!Unlit(Boxes!Window))))
  BY <1>1, <1>4, <1>5, <1>6, <1>7, UpMoves
<1>8. CASE Boxes!Becomes(Boxes!Lit(Boxes!DownKey(Boxes!Unlit(Boxes!Window))))
  BY <1>1, <1>4, <1>5, <1>6, <1>8, DownMoves
<1>9. CASE Boxes!Becomes(Boxes!Lit(Boxes!PageUp(Boxes!Unlit(Boxes!Window))))
  BY <1>1, <1>4, <1>5, <1>6, <1>9, PageUpMoves
<1>10. CASE Boxes!Becomes(Boxes!Lit(Boxes!PageDown(Boxes!Unlit(Boxes!Window))))
  BY <1>1, <1>4, <1>5, <1>6, <1>10, PageDownMoves
<1>11. CASE \E l \in 0..View - 1 :
              Boxes!Becomes(Boxes!Lit([Boxes!Unlit(Boxes!Window)
                EXCEPT !.choice = Boxes!Jumps(choice, Letter[items[scroll + l + 1]])]))
  <2>1. PICK l \in 0..View - 1 :
              Boxes!Becomes(Boxes!Lit([Boxes!Unlit(Boxes!Window)
                EXCEPT !.choice = Boxes!Jumps(choice, Letter[items[scroll + l + 1]])]))
    BY <1>11
  <2>2. PICK c2 : c2 = Boxes!Jumps(choice, Letter[items[scroll + l + 1]])
    OBVIOUS
  <2>3. c2 \in 0..View - 1
    BY <1>1, <1>2, <2>2, JumpsInView
  <2>4. [Boxes!Unlit(Boxes!Window) EXCEPT !.choice = c2] = Win(s, c2, g)
    BY <1>4, Chooses
  <2>5. Placed(s, c2)
    BY <1>5, <2>3 DEF Placed
  <2>6. Moved(Win(s, c2, g), g, s)
    BY <2>5 DEF Moved
  <2>7. QED
    BY <1>6, <2>1, <2>2, <2>4, <2>6
<1>12. QED
  BY <1>7, <1>8, <1>9, <1>10, <1>11 DEF Boxes!Move, View

\* Keys in a list, that scrolls at its edges only.
Rolls(w, f, s, r) ==
  \E s2, c2, f2 : w = Win(s2, c2, f2) /\ Placed(s2, c2) /\ (f = Page(s, r) => f2 = Page(s2, c2))

\* The line under the cursor changes while the lines scroll by one.
LEMMA EdgeScrolls ==
  ASSUME Open, NEW s, NEW r, NEW f, Placed(s, r), NEW n \in Int, NEW d, d = s + n, Placed(d, r),
         View = height, \/ n = -1 /\ r = 0
                        \/ n = 1 /\ r = View - 1
  PROVE  \E f2 : /\ Boxes!Put(Boxes!Rolled(Win(s, r, f), n), r, Bright) = Win(d, r, f2)
                 /\ f = Page(s, r) => f2 = Page(d, r)
<1>1. /\ s \in Nat /\ r \in Nat /\ r < View /\ d \in Nat
      /\ View \in Nat /\ height \in Nat \ {0} /\ Boxes!Lines = 0..View - 1
  BY PlacedNumbers, Lengths
<1>2. PICK g : Boxes!Unlit(Win(s, r, f)) = Win(s, r, g) /\ (f = Page(s, r) => g = Dark(s))
  BY Darkens
<1>3. PICK h : /\ Boxes!Rolled(Win(s, r, f), n) = Win(d, r, h)
               /\ f = Page(s, r) =>
                    /\ h = [l \in Boxes!Lines |-> h[l]]
                    /\ \A l \in Boxes!Lines : l # r => h[l] = <<items[d + l + 1], Dim>>
  <2>1. CASE height > 1
    <3> DEFINE h == [l \in Boxes!Lines |-> IF l + n \in Boxes!Lines THEN g[l + n] ELSE Blank]
    <3>1. Boxes!Rolled(Win(s, r, f), n) = Boxes!Scrolled(Win(s, r, g), n)
      BY <1>2, <2>1 DEF Boxes!Rolled
    <3>2. Boxes!Scrolled(Win(s, r, g), n) = Win(d, r, h)
      BY Scrolls
    <3>3. ASSUME f = Page(s, r), NEW l \in Boxes!Lines, l # r PROVE h[l] = <<items[d + l + 1], Dim>>
      <4>1. l + n \in Boxes!Lines /\ l + n < View /\ s + (l + n) + 1 = d + l + 1
        BY <1>1, <3>3
      <4>2. h[l] = g[l + n]
        BY <3>3, <4>1
      <4>3. g = Dark(s)
        BY <1>2, <3>3
      <4>4. g[l + n] = <<items[s + (l + n) + 1], Dim>>
        BY <4>1, <4>3 DEF Dark
      <4>5. QED
        BY <4>1, <4>2, <4>4
    <3>4. QED
      BY <3>1, <3>2, <3>3
  <2>2. CASE ~(height > 1)
    <3>1. Boxes!Rolled(Win(s, r, f), n) = Win(d, r, f)
      BY <2>2 DEF Boxes!Rolled, Win
    <3>2. \A l \in Boxes!Lines : l = r
      BY <1>1, <2>2
    <3>3. f = Page(s, r) => f = [l \in Boxes!Lines |-> f[l]]
      BY DEF Page
    <3>4. QED
      BY <3>1, <3>2, <3>3
  <2>3. QED
    BY <2>1, <2>2
<1>4. Boxes!Put(Win(d, r, h), r, Bright) = Win(d, r, [h EXCEPT ![r] = <<items[d + r + 1], Bright>>])
  BY Puts
<1>5. PICK f2 : f2 = [h EXCEPT ![r] = <<items[d + r + 1], Bright>>]
  OBVIOUS
<1>6. ASSUME f = Page(s, r) PROVE f2 = Page(d, r)
  <2>1. f2 = [l \in Boxes!Lines |-> f2[l]] /\ r \in Boxes!Lines
    <3>1. h = [l \in Boxes!Lines |-> h[l]]
      BY <1>3, <1>6
    <3>2. f2 = [l \in Boxes!Lines |-> f2[l]]
      BY <1>5, <3>1
    <3>3. QED
      BY <1>1, <3>2
  <2>2. ASSUME NEW l \in Boxes!Lines PROVE f2[l] = <<items[d + l + 1], l = r>>
    <3>1. CASE l = r
      <4>1. f2[l] = <<items[d + l + 1], Bright>>
        BY <1>3, <1>5, <1>6, <3>1
      <4>2. (l = r) = Bright
        BY <3>1 DEF Bright
      <4>3. QED
        BY <4>1, <4>2, Zenon
    <3>2. CASE l # r
      <4>1. f2[l] = <<items[d + l + 1], Dim>>
        BY <1>3, <1>5, <1>6, <3>2
      <4>2. (l = r) = Dim
        BY <3>2 DEF Dim
      <4>3. QED
        BY <4>1, <4>2, Zenon
    <3>3. QED
      BY <3>1, <3>2
  <2>3. \A l \in Boxes!Lines : l < View
    BY <1>1
  <2>4. \A l \in Boxes!Lines : f2[l] = Page(d, r)[l]
    BY <2>2, <2>3, Zenon DEF Page
  <2>5. QED
    BY <2>1, <2>4 DEF Page
<1>7. QED
  BY <1>3, <1>4, <1>5, <1>6

LEMMA ListUpMoves ==
  ASSUME Open, NEW s, NEW r, NEW f, Placed(s, r) PROVE Rolls(Boxes!ListUp(Win(s, r, f)), f, s, r)
<1>1. s \in Nat /\ r \in Nat /\ r < View /\ s + View <= Count /\ View \in Nat /\ Count \in Nat
  BY PlacedNumbers
<1>2. CASE r > 0
  <2>1. PICK g : Boxes!Unlit(Win(s, r, f)) = Win(s, r, g) /\ (f = Page(s, r) => g = Dark(s))
    BY Darkens
  <2>2. PICK c2 : c2 = r - 1
    OBVIOUS
  <2>3. [Boxes!Unlit(Win(s, r, f)) EXCEPT !.choice = @ - 1] = Win(s, c2, g)
    BY <2>1, <2>2 DEF Win
  <2>4. Boxes!ListUp(Win(s, r, f)) = Boxes!Lit(Win(s, c2, g))
    <3>1. Win(s, r, f).choice > 0
      BY <1>2, Fields
    <3>2. Boxes!ListUp(Win(s, r, f)) = Boxes!Lit([Boxes!Unlit(Win(s, r, f)) EXCEPT !.choice = @ - 1])
      BY <3>1, Zenon DEF Boxes!ListUp
    <3>3. QED
      BY <2>3, <3>2
  <2>5. Placed(s, c2)
    BY <1>1, <1>2, <2>2 DEF Placed
  <2>6. PICK f2 : Boxes!Lit(Win(s, c2, g)) = Win(s, c2, f2) /\ (g = Dark(s) => f2 = Page(s, c2))
    BY <2>5, Lights
  <2>7. QED
    BY <2>1, <2>4, <2>5, <2>6 DEF Rolls
<1>3. CASE r = 0 /\ s = 0
  <2>1. Boxes!ListUp(Win(s, r, f)) = Win(s, r, f)
    <3>1. ~(Win(s, r, f).choice > 0) /\ Win(s, r, f).scroll = 0
      BY <1>3, Fields
    <3>2. QED
      BY <3>1, Zenon DEF Boxes!ListUp
  <2>2. QED
    BY <2>1 DEF Rolls
<1>4. CASE r = 0 /\ s > 0
  <2>1. PICK n \in Int : n = -1
    OBVIOUS
  <2>2. Boxes!ListUp(Win(s, r, f)) = Boxes!Put(Boxes!Rolled(Win(s, r, f), n), r, Bright)
    <3>1. ~(Win(s, r, f).choice > 0) /\ Win(s, r, f).scroll # 0
      BY <1>4, Fields
    <3>2. Boxes!ListUp(Win(s, r, f)) = Boxes!Put(Boxes!Rolled(Win(s, r, f), -1), 0, TRUE)
      BY <3>1, Zenon DEF Boxes!ListUp
    <3>3. n = -1 /\ r = 0
      BY <1>4, <2>1
    <3>4. QED
      BY <3>2, <3>3, Zenon DEF Bright
  <2>3. PICK d : d = s + n
    OBVIOUS
  <2>4. Placed(d, r) /\ View = height
    BY <1>1, <1>4, <2>1, <2>3, Lengths DEF Placed
  <2>5. PICK f2 : /\ Boxes!Put(Boxes!Rolled(Win(s, r, f), n), r, Bright) = Win(d, r, f2)
                  /\ f = Page(s, r) => f2 = Page(d, r)
    <3>1. n = -1 /\ r = 0
      BY <1>4, <2>1
    <3>2. QED
      BY <2>1, <2>3, <2>4, <3>1, EdgeScrolls
  <2>6. QED
    BY <2>2, <2>4, <2>5 DEF Rolls
<1>5. QED
  BY <1>1, <1>2, <1>3, <1>4

LEMMA ListDownMoves ==
  ASSUME Open, NEW s, NEW r, NEW f, Placed(s, r) PROVE Rolls(Boxes!ListDown(Win(s, r, f)), f, s, r)
<1>1. s \in Nat /\ r \in Nat /\ r < View /\ s + View <= Count /\ View \in Nat /\ Count \in Nat
  BY PlacedNumbers
<1>2. CASE r < View - 1
  <2>1. PICK g : Boxes!Unlit(Win(s, r, f)) = Win(s, r, g) /\ (f = Page(s, r) => g = Dark(s))
    BY Darkens
  <2>2. PICK c2 : c2 = r + 1
    OBVIOUS
  <2>3. [Boxes!Unlit(Win(s, r, f)) EXCEPT !.choice = @ + 1] = Win(s, c2, g)
    BY <2>1, <2>2 DEF Win
  <2>4. Boxes!ListDown(Win(s, r, f)) = Boxes!Lit(Win(s, c2, g))
    <3>1. Win(s, r, f).choice < Boxes!max_choice - 1
      BY <1>2, Fields DEF View
    <3>2. Boxes!ListDown(Win(s, r, f)) = Boxes!Lit([Boxes!Unlit(Win(s, r, f)) EXCEPT !.choice = @ + 1])
      BY <3>1, Zenon DEF Boxes!ListDown
    <3>3. QED
      BY <2>3, <3>2
  <2>5. Placed(s, c2)
    BY <1>1, <1>2, <2>2 DEF Placed
  <2>6. PICK f2 : Boxes!Lit(Win(s, c2, g)) = Win(s, c2, f2) /\ (g = Dark(s) => f2 = Page(s, c2))
    BY <2>5, Lights
  <2>7. QED
    BY <2>1, <2>4, <2>5, <2>6 DEF Rolls
<1>3. CASE r = View - 1 /\ s + r >= Count - 1
  <2>1. Boxes!ListDown(Win(s, r, f)) = Win(s, r, f)
    <3>1. /\ ~(Win(s, r, f).choice < Boxes!max_choice - 1)
          /\ Win(s, r, f).scroll + Win(s, r, f).choice >= Len(items) - 1
      BY <1>1, <1>3, Fields DEF View, Count
    <3>2. QED
      BY <3>1, Zenon DEF Boxes!ListDown
  <2>2. QED
    BY <2>1 DEF Rolls
<1>4. CASE r = View - 1 /\ ~(s + r >= Count - 1)
  <2>1. PICK n \in Int : n = 1
    OBVIOUS
  <2>2. Boxes!ListDown(Win(s, r, f)) = Boxes!Put(Boxes!Rolled(Win(s, r, f), n), r, Bright)
    <3>1. /\ ~(Win(s, r, f).choice < Boxes!max_choice - 1)
          /\ ~(Win(s, r, f).scroll + Win(s, r, f).choice >= Len(items) - 1)
      BY <1>1, <1>4, Fields DEF View, Count
    <3>2. Boxes!ListDown(Win(s, r, f)) = Boxes!Put(Boxes!Rolled(Win(s, r, f), 1), Boxes!max_choice - 1, TRUE)
      BY <3>1, Zenon DEF Boxes!ListDown
    <3>3. n = 1 /\ r = Boxes!max_choice - 1
      BY <1>4, <2>1 DEF View
    <3>4. QED
      BY <3>2, <3>3, Zenon DEF Bright
  <2>3. PICK d : d = s + n
    OBVIOUS
  <2>4. Placed(d, r) /\ View = height
    BY <1>1, <1>4, <2>1, <2>3, Lengths DEF Placed
  <2>5. PICK f2 : /\ Boxes!Put(Boxes!Rolled(Win(s, r, f), n), r, Bright) = Win(d, r, f2)
                  /\ f = Page(s, r) => f2 = Page(d, r)
    <3>1. n = 1 /\ r = View - 1
      BY <1>4, <2>1
    <3>2. QED
      BY <2>1, <2>3, <2>4, <3>1, EdgeScrolls
  <2>6. QED
    BY <2>2, <2>4, <2>5 DEF Rolls
<1>5. QED
  BY <1>1, <1>2, <1>3, <1>4

LEMMA ListMoves ==
  ASSUME MenuInv, Boxes!MoveInList PROVE MenuInv'
<1>1. /\ box = "list" /\ UNCHANGED <<items, height, kept, stale, box>> /\ kept \in Nat
      /\ Open /\ Placed(scroll, choice) /\ (~stale => screen = Page(scroll, choice))
  BY DEF MenuInv, Boxes!MoveInList
<1>2. PICK s, r, h : s = scroll /\ r = choice /\ h = screen
  OBVIOUS
<1>3. Boxes!Window = Win(s, r, h)
  BY <1>2 DEF Boxes!Window, Win
<1>4. Placed(s, r) /\ (~stale => h = Page(s, r))
  BY <1>1, <1>2
<1>5. ASSUME NEW w, Rolls(w, h, s, r), Boxes!Becomes(w) PROVE MenuInv'
  <2>1. PICK s2, c2, f2 : w = Win(s2, c2, f2) /\ Placed(s2, c2) /\ (h = Page(s, r) => f2 = Page(s2, c2))
    BY <1>5 DEF Rolls
  <2>2. QED
    BY <1>1, <1>4, <1>5, <2>1, Becoming
<1>6. CASE Boxes!Becomes(Boxes!ListUp(Boxes!Window))
  BY <1>1, <1>3, <1>4, <1>5, <1>6, ListUpMoves
<1>7. CASE Boxes!Becomes(Boxes!ListDown(Boxes!Window))
  BY <1>1, <1>3, <1>4, <1>5, <1>7, ListDownMoves
<1>8. CASE \E l \in 0..View - 1 :
              Boxes!Becomes(Boxes!Lit([Boxes!Unlit(Boxes!Window)
                EXCEPT !.choice = Boxes!Jumps(Boxes!max_choice, Letter[items[scroll + l + 1]])]))
  <2>1. PICK l \in 0..View - 1 :
              Boxes!Becomes(Boxes!Lit([Boxes!Unlit(Boxes!Window)
                EXCEPT !.choice = Boxes!Jumps(Boxes!max_choice, Letter[items[scroll + l + 1]])]))
    BY <1>8
  <2>2. PICK c2 : c2 = Boxes!Jumps(Boxes!max_choice, Letter[items[scroll + l + 1]])
    OBVIOUS
  <2>3. c2 \in 0..View - 1
    BY <1>1, <2>2, JumpsInView
  <2>4. PICK g : Boxes!Unlit(Boxes!Window) = Win(s, r, g) /\ (Placed(s, r) /\ h = Page(s, r) => g = Dark(s))
    BY <1>1, <1>3, Darkens
  <2>5. [Boxes!Unlit(Boxes!Window) EXCEPT !.choice = c2] = Win(s, c2, g)
    BY <2>4, Chooses
  <2>6. Placed(s, c2)
    BY <1>4, <2>3 DEF Placed
  <2>7. PICK f : Boxes!Lit(Win(s, c2, g)) = Win(s, c2, f) /\ (Placed(s, c2) /\ g = Dark(s) => f = Page(s, c2))
    BY <1>1, Lights
  <2>8. Rolls(Win(s, c2, f), h, s, r)
    BY <1>4, <2>4, <2>6, <2>7 DEF Rolls
  <2>9. QED
    BY <1>5, <2>1, <2>2, <2>5, <2>7, <2>8
<1>9. QED
  BY <1>6, <1>7, <1>8 DEF Boxes!MoveInList, View

\* Wherever the menu was scrolled to and its cursor was, do_resize finds lines for
\* the window.
LEMMA Arranges ==
  ASSUME NEW n \in Nat, NEW mc \in Nat \ {0}, mc <= n, NEW r \in 0..n - 1, NEW keep \in Nat, NEW first
  PROVE  /\ Boxes!Placed(r, first, keep, mc, n).scroll \in 0..n - mc
         /\ Boxes!Placed(r, first, keep, mc, n).choice \in 0..mc - 1
<1> DEFINE p == Boxes!Placed(r, first, keep, mc, n)
<1>1. PICK half \in Nat : half = mc \div 2 /\ 2 * half <= mc /\ mc <= 2 * half + 1
  OBVIOUS
<1>2. p.choice = r - p.scroll
  BY DEF Boxes!Placed
<1>3. p.scroll = IF keep <= r /\ keep + mc > r /\ keep + mc <= n THEN keep ELSE IF ~(r >= mc) THEN 0
                 ELSE IF r >= n - half THEN n - mc ELSE r - half
  BY <1>1 DEF Boxes!Placed
<1>4. QED
  <2> HIDE DEF p
  <2>1. p.scroll \in 0..n - mc /\ r - p.scroll \in 0..mc - 1
    BY <1>1, <1>3
  <2>2. QED
    BY <1>2, <2>1 DEF p

LEMMA Draws ==
  ASSUME kept \in Nat, kept' = kept, NEW its \in Items, NEW h \in Heights, NEW item,
         NEW default \in 0..Len(its) - 1, NEW first, Boxes!Draw(its, h, item, default, first)
  PROVE  MenuInv'
<1> DEFINE n == Len(its)
           mc == Boxes!Least(h, n)
           r == Boxes!At(its, item, default)
           p == Boxes!Placed(r, first, kept, mc, n)
<1>1. n \in Nat \ {0} /\ h \in Nat \ {0} /\ DOMAIN its = 1..n
  BY MenuAssumption DEF MenuAssumption
<1>2. mc \in Nat \ {0} /\ mc <= n /\ mc <= h
  BY <1>1 DEF Boxes!Least
<1>3. r \in 0..n - 1
  <2>1. CASE item \in Boxes!Range(its)
    <3>1. \E k \in DOMAIN its : its[k] = item
      BY <2>1 DEF Boxes!Range
    <3>2. r = (CHOOSE k \in DOMAIN its : its[k] = item) - 1
      BY <2>1 DEF Boxes!At
    <3>3. (CHOOSE k \in DOMAIN its : its[k] = item) \in 1..n
      BY <1>1, <3>1
    <3>4. QED
      BY <1>1, <3>2, <3>3
  <2>2. CASE item \notin Boxes!Range(its)
    BY <2>2 DEF Boxes!At
  <2>3. QED
    BY <2>1, <2>2
<1>4. /\ box' = IF p.first + mc > n THEN "crashed" ELSE "menu"
      /\ items' = its /\ height' = h /\ scroll' = p.scroll /\ choice' = p.choice
      /\ stale' = (p.first # p.scroll)
      /\ screen' = [l \in 0..h - 1 |->
                      IF l < mc /\ box' = "menu" THEN <<its[p.first + l + 1], l = p.choice>> ELSE Blank]
  BY DEF Boxes!Draw
<1>5. Open' /\ Count' = n /\ View' = mc /\ Boxes!Lines' = 0..h - 1
  BY <1>4 DEF Open, Count, View, Boxes!max_choice, Boxes!Lines
<1>6. p.scroll \in 0..n - mc /\ p.choice \in 0..mc - 1
  <2> HIDE DEF n, mc, r
  <2> QED BY <1>1, <1>2, <1>3, Arranges
<1>7. Placed(scroll, choice)'
  BY <1>4, <1>5, <1>6 DEF Placed
<1>8. ASSUME box' = "menu", ~stale' PROVE screen' = Page(scroll, choice)'
  <2> HIDE DEF n, mc, r, p
  <2>1. p.first = scroll' /\ p.choice = choice'
    BY <1>4, <1>8
  <2>2. screen' = [l \in 0..h - 1 |-> IF l < mc THEN <<its[p.first + l + 1], l = p.choice>> ELSE Blank]
    BY <1>4, <1>8, Zenon
  <2>3. QED
    BY <1>4, <1>5, <2>1, <2>2, Zenon DEF Page
<1>9. box' = "menu" \/ box' = "crashed"
  BY <1>4
<1>10. QED
  BY <1>5, <1>7, <1>8, <1>9 DEF MenuInv

LEMMA Lists ==
  ASSUME kept \in Nat, Boxes!List PROVE MenuInv'
<1>1. PICK its \in Items, h \in Heights : \E r \in 0..Len(its) - 1 :
        LET s == IF r >= h THEN r - h + 1 ELSE 0
        IN  /\ items' = its /\ height' = h /\ scroll' = s /\ choice' = r - s
            /\ screen' = [l \in 0..h - 1 |-> IF l < Len(its) THEN <<its[s + l + 1], l = r - s>> ELSE Blank]
  BY DEF Boxes!List
<1>2. PICK r \in 0..Len(its) - 1 :
        LET s == IF r >= h THEN r - h + 1 ELSE 0
        IN  /\ items' = its /\ height' = h /\ scroll' = s /\ choice' = r - s
            /\ screen' = [l \in 0..h - 1 |-> IF l < Len(its) THEN <<its[s + l + 1], l = r - s>> ELSE Blank]
  BY <1>1
<1>3. PICK s : s = IF r >= h THEN r - h + 1 ELSE 0
  OBVIOUS
<1>4. PICK n : n = Len(its)
  OBVIOUS
<1>5. n \in Nat \ {0} /\ h \in Nat \ {0} /\ r \in 0..n - 1
  BY <1>4, MenuAssumption DEF MenuAssumption
<1>6. /\ items' = its /\ height' = h /\ scroll' = s /\ choice' = r - s
      /\ screen' = [l \in 0..h - 1 |-> IF l < n THEN <<its[s + l + 1], l = r - s>> ELSE Blank]
  BY <1>2, <1>3, <1>4, Zenon
<1>7. PICK mc : mc = Boxes!Least(h, n)
  OBVIOUS
<1>8. Open' /\ Count' = n /\ View' = mc /\ Boxes!Lines' = 0..h - 1
  BY <1>4, <1>6, <1>7 DEF Open, Count, View, Boxes!max_choice, Boxes!Lines
<1>9. Placed(scroll, choice)'
  <2>1. r - s \in 0..mc - 1 /\ s \in 0..n - mc
    BY <1>3, <1>5, <1>7 DEF Boxes!Least
  <2>2. QED
    BY <1>6, <1>8, <2>1 DEF Placed
<1>10. screen' = Page(scroll, choice)'
  <2>1. \A l \in 0..h - 1 : l < n <=> l < mc
    BY <1>5, <1>7 DEF Boxes!Least
  <2>2. screen' = [l \in 0..h - 1 |-> IF l < mc THEN <<its[s + l + 1], l = r - s>> ELSE Blank]
    BY <1>6, <2>1, Zenon
  <2>3. QED
    BY <1>6, <1>8, <2>2, Zenon DEF Page
<1>11. kept' \in Nat
  BY DEF Boxes!List
<1>12. QED
  BY <1>8, <1>9, <1>10, <1>11 DEF MenuInv

\* One line of a menu or list is highlighted and shows the entry that Enter
\* chooses, among those before and after it, whatever keys were pressed in windows
\* of whatever size, over any menus (dialog_menu, dialog_checklist), unless a
\* resize left first_item behind.
THEOREM HighlightIsTrue == Boxes!Spec => []Boxes!HighlightIsChosen
<1>1. Boxes!Init => MenuInv
  BY MenuAssumption DEF MenuAssumption, Boxes!Init, MenuInv
<1>2. MenuInv /\ [Boxes!Next]_(Boxes!vars) => MenuInv'
  <2>1. SUFFICES ASSUME MenuInv, [Boxes!Next]_(Boxes!vars) PROVE MenuInv'
    OBVIOUS
  <2>2. kept \in Nat
    BY <2>1 DEF MenuInv
  <2>3. CASE Boxes!Menu
    <3>1. PICK its \in Items, h \in Heights : Boxes!Draw(its, h, answer, 0, 0)
      BY <2>3 DEF Boxes!Menu
    <3>2. PICK z : z = 0
      OBVIOUS
    <3>3. z \in 0..Len(its) - 1 /\ kept' = kept
      BY <2>3, <3>2, MenuAssumption DEF MenuAssumption, Boxes!Menu
    <3>4. Boxes!Draw(its, h, answer, z, z)
      BY <3>1, <3>2
    <3>5. QED
      BY <2>2, <3>3, <3>4, Draws
  <2>4. CASE Boxes!Resize
    <3>1. box = "menu" /\ kept' = kept
      BY <2>4 DEF Boxes!Resize
    <3>2. PICK h \in Heights : Boxes!Draw(items, h, marked, choice, first_item)
      BY <2>4 DEF Boxes!Resize
    <3>3. PICK its \in Items : its = items
      BY <2>1, <3>1 DEF MenuInv, Open
    <3>4. PICK r, m, f : r = choice /\ m = marked /\ f = first_item
      OBVIOUS
    <3>5. r \in 0..Len(its) - 1
      BY <2>1, <3>1, <3>3, <3>4, Lengths DEF MenuInv, Placed, Count
    <3>6. Boxes!Draw(its, h, m, r, f)
      BY <3>2, <3>3, <3>4
    <3>7. QED
      BY <2>2, <3>1, <3>5, <3>6, Draws
  <2>5. CASE Boxes!Choose
    <3>1. box = "menu" /\ kept' = scroll /\ box' = None
      BY <2>5 DEF Boxes!Choose, Boxes!Closed
    <3>2. scroll \in Nat
      BY <2>1, <3>1, Lengths DEF MenuInv, Placed
    <3>3. QED
      BY <3>1, <3>2, MenuAssumption DEF MenuAssumption, MenuInv
  <2>6. CASE Boxes!ChooseInList \/ Boxes!Leave
    <3>1. kept' = kept /\ box' = None
      BY <2>6 DEF Boxes!ChooseInList, Boxes!Leave, Boxes!Closed
    <3>2. QED
      BY <2>2, <3>1, MenuAssumption DEF MenuAssumption, MenuInv
  <2>7. CASE Boxes!YesNo
    BY <2>2, <2>7 DEF MenuInv, Boxes!YesNo
  <2>8. CASE Boxes!Enter
    BY <2>8, MenuAssumption DEF MenuAssumption, MenuInv, Boxes!Enter
  <2>9. CASE Boxes!Turn \/ UNCHANGED Boxes!vars
    <3>1. UNCHANGED <<box, items, height, kept, scroll, choice, screen, stale>>
      BY <2>9 DEF Boxes!Turn, Boxes!vars
    <3>2. View' = View /\ Count' = Count /\ Boxes!Lines' = Boxes!Lines /\ Open' = Open
      BY <3>1 DEF View, Boxes!max_choice, Count, Boxes!Lines, Open
    <3>3. Placed(scroll, choice)' = Placed(scroll, choice) /\ Page(scroll, choice)' = Page(scroll, choice)
      BY <3>1, <3>2 DEF Placed, Page
    <3>4. QED
      BY <2>1, <3>1, <3>2, <3>3 DEF MenuInv
  <2>10. QED
    BY <2>1, <2>2, <2>3, <2>4, <2>5, <2>6, <2>7, <2>8, <2>9, MenuMoves, ListMoves, Lists DEF Boxes!Next
<1>3. MenuInv => Boxes!HighlightIsChosen
  <2>1. SUFFICES ASSUME MenuInv, box \in {"menu", "list"}, ~stale
                 PROVE  /\ choice \in 0..Boxes!max_choice - 1 /\ scroll + Boxes!max_choice <= Len(items)
                        /\ screen = Page(scroll, choice)
    BY Zenon DEF Boxes!HighlightIsChosen, Page, View
  <2>2. Open /\ Placed(scroll, choice) /\ screen = Page(scroll, choice)
    BY <2>1 DEF MenuInv
  <2>3. choice \in 0..View - 1 /\ scroll + View <= Count
    BY <2>2, Lengths DEF Placed
  <2>4. QED
    BY <2>2, <2>3 DEF View, Count
<1>4. QED
  BY <1>1, <1>2, <1>3, PTL DEF Boxes!Spec


------------------------------------------------------------------------------
(* conf_parse: lines that are read after others                               *)

\* One line more has been read; those before it are as they were.
Grown(L, n, M) ==
  /\ n \in Nat /\ Len(L) = n /\ Len(M) = n + 1 /\ DOMAIN L = 1..n /\ DOMAIN M = 1..n + 1
  /\ \A m \in 1..n : M[m] = L[m]

LEMMA LastsStays ==
  ASSUME NEW L, NEW n, NEW M, Grown(L, n, M), NEW h \in 1..n, NEW k \in 1..n
  PROVE  Reader!LastsTo(M, h, k) <=> Reader!LastsTo(L, h, k)
<1>1. n \in Nat /\ \A m \in 1..n : M[m] = L[m]
  BY DEF Grown
<1>2. ASSUME NEW m \in h + 1..k PROVE Reader!EndsText(M, h, m) <=> Reader!EndsText(L, h, m)
  <2>1. m \in 1..n /\ M[m] = L[m] /\ \A x \in h + 1..m - 1 : M[x] = L[x]
    BY <1>1
  <2>2. \A x \in h + 1..m - 1 : \A y \in h + 1..x - 1 : M[y] = L[y]
    BY <1>1
  <2>3. ASSUME NEW x \in h + 1..m - 1
        PROVE  (\A y \in h + 1..x - 1 : M[y].ts = 0) <=> (\A y \in h + 1..x - 1 : L[y].ts = 0)
    BY <2>2
  <2>4. (\E x \in h + 1..m - 1 : M[x].ts > M[m].ts /\ \A y \in h + 1..x - 1 : M[y].ts = 0)
          <=> (\E x \in h + 1..m - 1 : L[x].ts > L[m].ts /\ \A y \in h + 1..x - 1 : L[y].ts = 0)
    BY <2>1, <2>3
  <2>5. QED
    BY <2>1, <2>4, Zenon DEF Reader!EndsText
<1>3. M[h] = L[h] /\ \A m \in h + 1..k : M[m] = L[m]
  BY <1>1
<1>4. QED
  BY <1>2, <1>3 DEF Reader!LastsTo

\* A text that goes on to the new line went on to the one before it.
LEMMA LastsLonger ==
  ASSUME NEW L, NEW n, NEW M, Grown(L, n, M), NEW h \in 1..n
  PROVE  Reader!LastsTo(M, h, n + 1)
           <=> Reader!LastsTo(L, h, n) /\ M[n + 1].file = L[h].file /\ ~Reader!EndsText(M, h, n + 1)
<1>1. n \in Nat /\ n \in 1..n /\ M[h] = L[h]
  BY DEF Grown
<1>2. Reader!LastsTo(M, h, n) <=> Reader!LastsTo(L, h, n)
  BY <1>1, LastsStays
<1>3. Reader!LastsTo(M, h, n + 1)
        <=> Reader!LastsTo(M, h, n) /\ M[n + 1].file = M[h].file /\ ~Reader!EndsText(M, h, n + 1)
  BY <1>1 DEF Reader!LastsTo
<1>4. QED
  BY <1>1, <1>2, <1>3

LEMMA CountIs ==
  ASSUME NEW L, NEW S, NEW i, NEW j, NEW W
  PROVE  Reader!Count(L, S, i, j, W) = Cardinality({m \in S : m \in i..j /\ L[m].word \in W})
<1>1. \A A : Reader!Cardinality(A) = Cardinality(A)
  BY Zenon DEF Reader!Cardinality, Cardinality
<1>2. QED
  BY <1>1, Zenon DEF Reader!Count

LEMMA LinesFinite ==
  ASSUME NEW n \in Nat, NEW S \in SUBSET (1..n), NEW C \in SUBSET S
  PROVE  IsFiniteSet(C) /\ Cardinality(C) \in Nat
<1>1. IsFiniteSet(1..n) /\ C \subseteq 1..n
  BY FS_Interval
<1>2. IsFiniteSet(C)
  BY <1>1, FS_Subset
<1>3. QED
  BY <1>2, FS_CardinalityType

LEMMA CountType ==
  ASSUME NEW L, NEW n \in Nat, NEW S \in SUBSET (1..n), NEW i, NEW j, NEW W
  PROVE  Reader!Count(L, S, i, j, W) \in Nat
<1>1. PICK C : C = {m \in S : m \in i..j /\ L[m].word \in W}
  OBVIOUS
<1>2. Cardinality(C) \in Nat
  BY <1>1, LinesFinite
<1>3. QED
  BY <1>1, <1>2, CountIs, Zenon

LEMMA CountStays ==
  ASSUME NEW L, NEW n, NEW M, Grown(L, n, M), NEW S \in SUBSET (1..n), NEW T, T = S \/ T = S \cup {n + 1},
         NEW i, NEW j \in Int, j <= n, NEW W
  PROVE  Reader!Count(M, T, i, j, W) = Reader!Count(L, S, i, j, W)
<1>1. {m \in T : m \in i..j /\ M[m].word \in W} = {m \in S : m \in i..j /\ L[m].word \in W}
  <2>1. \A m \in S : m \in T /\ M[m] = L[m]
    BY DEF Grown
  <2>2. \A m \in T : m \in i..j => m \in S
    BY DEF Grown
  <2>3. QED
    BY <2>1, <2>2
<1>2. QED
  BY <1>1 DEF Reader!Count

\* The new line is one that is said.
Joins(S, n, T) == S \in SUBSET (1..n) /\ T = S \cup {n + 1}

LEMMA CountGrows ==
  ASSUME NEW L, NEW n, NEW M, Grown(L, n, M), NEW S, NEW T, Joins(S, n, T), NEW i \in Int, i <= n + 1, NEW W
  PROVE  /\ Reader!Count(L, S, i, n, W) \in Nat
         /\ M[n + 1].word \in W => Reader!Count(M, T, i, n + 1, W) = Reader!Count(L, S, i, n, W) + 1
         /\ M[n + 1].word \notin W => Reader!Count(M, T, i, n + 1, W) = Reader!Count(L, S, i, n, W)
<1>1. n \in Nat /\ S \in SUBSET (1..n) /\ T = S \cup {n + 1} /\ \A m \in 1..n : M[m] = L[m]
  BY DEF Grown, Joins
<1>2. PICK C : C = {m \in S : m \in i..n /\ L[m].word \in W}
  OBVIOUS
<1>3. PICK D : D = {m \in T : m \in i..n + 1 /\ M[m].word \in W}
  OBVIOUS
<1>4. IsFiniteSet(C) /\ n + 1 \notin C
  <2>1. n + 1 \notin C
    BY <1>1, <1>2
  <2>2. QED
    BY <1>1, <1>2, <2>1, LinesFinite
<1>5. Reader!Count(L, S, i, n, W) = Cardinality(C) /\ Reader!Count(M, T, i, n + 1, W) = Cardinality(D)
  BY <1>2, <1>3, CountIs, Zenon
<1>6. Reader!Count(L, S, i, n, W) \in Nat
  BY <1>1, CountType
<1>7. CASE M[n + 1].word \in W
  <2>1. D = C \cup {n + 1}
    BY <1>1, <1>2, <1>3, <1>7
  <2>2. QED
    BY <1>4, <1>5, <1>6, <1>7, <2>1, FS_AddElement
<1>8. CASE M[n + 1].word \notin W
  <2>1. D = C
    BY <1>1, <1>2, <1>3, <1>8
  <2>2. QED
    BY <1>5, <1>6, <1>8, <2>1
<1>9. QED
  BY <1>6, <1>7, <1>8

LEMMA CountSkips ==
  ASSUME NEW L, NEW n, NEW M, Grown(L, n, M), NEW S \in SUBSET (1..n), NEW i \in Int, NEW W
  PROVE  Reader!Count(M, S, i, n + 1, W) = Reader!Count(L, S, i, n, W)
<1>1. {m \in S : m \in i..n + 1 /\ M[m].word \in W} = {m \in S : m \in i..n /\ L[m].word \in W}
  <2>1. \A m \in S : M[m] = L[m]
    BY DEF Grown
  <2>2. \A m \in S : m \in i..n + 1 <=> m \in i..n
    BY DEF Grown
  <2>3. QED
    BY <2>1, <2>2
<1>2. QED
  BY <1>1 DEF Reader!Count

\* What is so of lines before the new one stays so: it is one that is said, or not.
After(S, n, T) == S \in SUBSET (1..n) /\ (T = S \/ T = S \cup {n + 1})

LEMMA EndStays ==
  ASSUME NEW L, NEW n, NEW M, Grown(L, n, M), NEW S, NEW T, After(S, n, T), NEW b \in 1..n, NEW k \in 1..n
  PROVE  /\ Reader!Deep(M, T, b, k) <=> Reader!Deep(L, S, b, k)
         /\ Reader!IsEnd(M, T, b, k) <=> Reader!IsEnd(L, S, b, k)
         /\ Reader!Number(M, T, k) = Reader!Number(L, S, k)
<1>1. \A W : \A j \in 1..n : Reader!Count(M, T, b, j, W) = Reader!Count(L, S, b, j, W)
  BY CountStays DEF After
<1>2. \A j \in 1..n : Reader!Deep(M, T, b, j) <=> Reader!Deep(L, S, b, j)
  BY <1>1 DEF Reader!Deep
<1>3. Reader!IsEnd(M, T, b, k) <=> Reader!IsEnd(L, S, b, k)
  <2>1. \A j \in b..k - 1 : j \in 1..n
    BY DEF Grown
  <2>2. QED
    BY <1>1, <1>2, <2>1 DEF Reader!IsEnd
<1>4. Reader!Number(M, T, k) = Reader!Number(L, S, k)
  BY CountStays DEF After, Reader!Number
<1>5. QED
  BY <1>2, <1>3, <1>4

LEMMA AroundStays ==
  ASSUME NEW L, NEW n, NEW M, Grown(L, n, M), NEW S, NEW T, After(S, n, T), NEW k \in 1..n
  PROVE  Reader!Around(M, T, k) = Reader!Around(L, S, k)
<1>1. ASSUME NEW b \in 1..n, b < k
      PROVE  (\A m \in b + 1..k : ~Reader!IsEnd(M, T, b, m)) <=> (\A m \in b + 1..k : ~Reader!IsEnd(L, S, b, m))
  <2>1. \A m \in b + 1..k : m \in 1..n
    BY DEF Grown
  <2>2. QED
    BY <2>1, EndStays
<1>2. \A b \in T : b < k => b \in S /\ b \in 1..n /\ M[b] = L[b]
  <2>1. n \in Nat /\ T \subseteq S \cup {n + 1} /\ S \subseteq 1..n
    BY DEF After, Grown
  <2>2. ASSUME NEW b \in T, b < k PROVE b \in S
    <3>1. b # n + 1
      BY <2>1, <2>2
    <3>2. QED
      BY <2>1, <3>1
  <2>3. QED
    BY <2>1, <2>2 DEF Grown
<1>3. S \subseteq T /\ \A b \in S : b \in 1..n /\ M[b] = L[b]
  BY DEF After, Grown
<1>4. QED
  BY <1>1, <1>2, <1>3 DEF Reader!Around

Breaks == Reader!Starters \cup DOMAIN Reader!Ends \cup Reader!AllFiles

\* No option is added to line k: the new line is none, or comes after another
\* statement.
LEMMA UnderStays ==
  ASSUME NEW L, NEW n, NEW M, Grown(L, n, M), NEW S, NEW T, After(S, n, T), NEW k \in 1..n,
         \/ T = S
         \/ M[n + 1].word \in Breaks
         \/ \E m \in S : m > k /\ L[m].word \in Breaks
  PROVE  Reader!Under(M, T, k) = Reader!Under(L, S, k)
<1>1. n \in Nat /\ S \subseteq 1..n /\ S \subseteq T /\ n + 1 \notin S /\ \A m \in S : M[m] = L[m]
  BY DEF After, Grown
<1>2. \A m \in S : m \in Reader!Under(M, T, k) <=> m \in Reader!Under(L, S, k)
  <2>1. SUFFICES ASSUME NEW m \in S
                 PROVE  (\A x \in T : x \in k + 1..m => M[x].word \notin Breaks)
                          <=> (\A x \in S : x \in k + 1..m => L[x].word \notin Breaks)
    BY <1>1 DEF Reader!Under, Breaks
  <2>2. \A x \in T : x \in k + 1..m => x \in S
    BY <1>1 DEF After
  <2>3. QED
    BY <1>1, <2>2
<1>3. n + 1 \in T => n + 1 \notin Reader!Under(M, T, k)
  <2>1. SUFFICES ASSUME n + 1 \in T, n + 1 \in Reader!Under(M, T, k) PROVE FALSE
    OBVIOUS
  <2>2. \A x \in T : x \in k + 1..n + 1 => M[x].word \notin Breaks
    BY <2>1 DEF Reader!Under, Breaks
  <2>3. M[n + 1].word \notin Breaks
    BY <1>1, <2>1, <2>2
  <2>4. PICK m \in S : m > k /\ L[m].word \in Breaks
    BY <1>1, <2>1, <2>3
  <2>5. m \in T /\ m \in k + 1..n + 1 /\ M[m] = L[m]
    BY <1>1, <2>4
  <2>6. QED
    BY <2>2, <2>4, <2>5
<1>4. Reader!Under(L, S, k) \subseteq S /\ Reader!Under(M, T, k) \subseteq T /\ T \subseteq S \cup {n + 1}
  BY DEF Reader!Under, After
<1>5. QED
  BY <1>1, <1>2, <1>3, <1>4

LEMMA SaysStays ==
  ASSUME NEW L, NEW n, NEW M, Grown(L, n, M), NEW S, NEW T, After(S, n, T), NEW k \in 1..n, NEW e,
         Reader!Under(M, T, k) = Reader!Under(L, S, k), Reader!Says(L, S, k, e)
  PROVE  Reader!Says(M, T, k, e)
<1>1. Reader!Around(M, T, k) = Reader!Around(L, S, k) /\ Reader!Around(L, S, k) \subseteq 1..n
  <2>1. Reader!Around(L, S, k) \subseteq S
    BY DEF Reader!Around
  <2>2. Reader!Around(M, T, k) = Reader!Around(L, S, k)
    BY AroundStays
  <2>3. QED
    BY <2>1, <2>2 DEF After
<1>2. \A b \in Reader!Around(L, S, k) : Reader!Number(M, T, b) = Reader!Number(L, S, b)
  BY <1>1, EndStays
<1>3. M[k] = L[k] /\ \A m \in Reader!Under(L, S, k) : M[m] = L[m]
  BY DEF Grown, After, Reader!Under
<1>4. Reader!StandsIn(M, T, Reader!Around(L, S, k), e.up)
  <2>1. PICK B : B = Reader!Around(L, S, k)
    OBVIOUS
  <2>2. Reader!StandsIn(L, S, B, e.up)
    BY <2>1 DEF Reader!Says
  <2>3. QED
    BY <1>2, <2>1, <2>2 DEF Reader!StandsIn
<1>5. Reader!Lists(M, Reader!Under(L, S, k), e.opts)
  <2>1. PICK U : U = Reader!Under(L, S, k)
    OBVIOUS
  <2>2. Reader!Lists(L, U, e.opts)
    BY <2>1 DEF Reader!Says
  <2>3. QED
    BY <1>3, <2>1, <2>2 DEF Reader!Lists
<1>6. QED
  BY <1>1, <1>3, <1>4, <1>5 DEF Reader!Says

LEMMA EndsInStays ==
  ASSUME NEW L, NEW n, NEW M, Grown(L, n, M), NEW S, NEW T, After(S, n, T), NEW k \in 1..n, NEW f,
         Reader!EndsIn(L, S, k, f)
  PROVE  Reader!EndsIn(M, T, k, f)
<1>1. /\ n \in Nat /\ S \subseteq 1..n /\ S \subseteq T /\ T \subseteq S \cup {n + 1}
      /\ M[k] = L[k] /\ \A m \in S : M[m] = L[m]
  BY DEF After, Grown
<1>2. CASE L[k].word = "if"
  <2>1. PICK x \in S : x > k /\ L[x].file = f /\ \A m \in S : m > k => x <= m
    BY <1>2 DEF Reader!EndsIn
  <2>2. \A m \in T : m > k => x <= m
    BY <1>1, <2>1
  <2>3. QED
    BY <1>1, <1>2, <2>1, <2>2 DEF Reader!EndsIn
<1>3. CASE L[k].word # "if"
  BY <1>1, <1>3 DEF Reader!EndsIn
<1>4. QED
  BY <1>2, <1>3

LEMMA EndedStays ==
  ASSUME NEW L, NEW n, NEW M, Grown(L, n, M), NEW S, NEW T, After(S, n, T), NEW k \in 1..n, Reader!IsEnded(L, S, k)
  PROVE  Reader!IsEnded(M, T, k)
<1>1. PICK e \in S : /\ e > k /\ Reader!IsEnd(L, S, k, e)
                     /\ L[e].word \in DOMAIN Reader!Ends /\ Reader!Ends[L[e].word] = L[k].word
                     /\ Reader!EndsIn(L, S, k, L[e].file)
  BY DEF Reader!IsEnded
<1>2. n \in Nat /\ S \subseteq 1..n /\ S \subseteq T /\ \A m \in S : M[m] = L[m]
  BY DEF After, Grown
<1>3. M[k] = L[k] /\ M[e] = L[e] /\ e \in 1..n /\ e \in T
  BY <1>1, <1>2 DEF Grown
<1>4. Reader!IsEnd(M, T, k, e)
  BY <1>1, <1>3, EndStays
<1>5. Reader!EndsIn(M, T, k, M[e].file)
  BY <1>1, <1>3, EndsInStays
<1>6. QED
  BY <1>1, <1>3, <1>4, <1>5 DEF Reader!IsEnded

LEMMA CountLonger ==
  ASSUME NEW L, NEW n \in Nat, NEW S \in SUBSET (1..n), NEW i \in Int, NEW j \in Int, NEW k \in Int,
         j <= k, NEW W
  PROVE  /\ Reader!Count(L, S, i, j, W) <= Reader!Count(L, S, i, k, W)
         /\ (\E m \in S : m \in i..k /\ m > j /\ L[m].word \in W)
              => Reader!Count(L, S, i, j, W) < Reader!Count(L, S, i, k, W)
<1>1. PICK C : C = {m \in S : m \in i..j /\ L[m].word \in W}
  OBVIOUS
<1>2. PICK D : D = {m \in S : m \in i..k /\ L[m].word \in W}
  OBVIOUS
<1>3. C \subseteq D
  <2>1. ASSUME NEW m \in S, m \in i..j PROVE m \in i..k
    BY <2>1
  <2>2. QED
    BY <1>1, <1>2, <2>1
<1>4. IsFiniteSet(D) /\ Cardinality(C) \in Nat /\ Cardinality(D) \in Nat
  BY <1>1, <1>2, LinesFinite
<1>5. Cardinality(C) <= Cardinality(D) /\ (Cardinality(C) = Cardinality(D) => C = D)
  BY <1>3, <1>4, FS_Subset
<1>6. (\E m \in S : m \in i..k /\ m > j /\ L[m].word \in W) => C # D
  BY <1>1, <1>2
<1>7. Reader!Count(L, S, i, j, W) = Cardinality(C) /\ Reader!Count(L, S, i, k, W) = Cardinality(D)
  BY <1>1, <1>2, CountIs, Zenon
<1>8. QED
  BY <1>4, <1>5, <1>6, <1>7

\* Entries have the order of their lines.
LEMMA NumberOrder ==
  ASSUME NEW L, NEW n \in Nat, NEW S \in SUBSET (1..n), NEW k \in S, L[k].word \in Reader!Starters
  PROVE  /\ Reader!Number(L, S, k) \in 1..Reader!Number(L, S, n)
         /\ \A j \in S : j < k => Reader!Number(L, S, j) < Reader!Number(L, S, k)
<1>1. PICK one \in Int : one = 1
  OBVIOUS
<1>2. PICK W : W = Reader!Starters
  OBVIOUS
<1>3. 0 \in Int /\ k \in Int /\ k <= n /\ 0 <= k /\ k \in one..k /\ k > 0 /\ n \in Int
  BY <1>1
<1>4. Reader!Count(L, S, one, 0, W) < Reader!Count(L, S, one, k, W)
  BY <1>2, <1>3, CountLonger
<1>5. Reader!Count(L, S, one, k, W) <= Reader!Count(L, S, one, n, W)
  BY <1>3, CountLonger
<1>6. \A j \in Int : Reader!Count(L, S, one, j, W) \in Nat
  BY CountType
<1>7. ASSUME NEW j \in S, j < k PROVE Reader!Count(L, S, one, j, W) < Reader!Count(L, S, one, k, W)
  <2>1. j \in Int /\ j <= k
    BY <1>7
  <2>2. QED
    BY <1>2, <1>3, <1>7, <2>1, CountLonger
<1>8. \A j : Reader!Number(L, S, j) = Reader!Count(L, S, one, j, W)
  BY <1>1, <1>2 DEF Reader!Number
<1>9. QED
  BY <1>3, <1>4, <1>5, <1>6, <1>7, <1>8

------------------------------------------------------------------------------
(* conf_parse: the entries and the blocks that are open                       *)

\* The entries are what the lines say, and as many.
Entered(L, n, S, E) ==
  /\ Len(E) = Reader!Number(L, S, n)
  /\ \A k \in S : L[k].word \in Reader!Starters => Reader!Says(L, S, k, E[Reader!Number(L, S, k)])

\* p are the lines that opened the blocks of open.  As many blocks have begun since
\* line p[i], and not ended, as open has from i on; all others have been ended.
Nested(L, n, S, O, p) ==
  /\ p \in [1..Len(O) -> S]
  /\ \A i \in 1..Len(O) :
       /\ L[p[i]].word \in Reader!Blocks /\ O[i] = Reader!Number(L, S, p[i])
       /\ Reader!Count(L, S, p[i], n, Reader!Blocks)
            = Reader!Count(L, S, p[i], n, DOMAIN Reader!Ends) + Len(O) - i + 1
       /\ \A m \in p[i]..n : Reader!Deep(L, S, p[i], m)
       /\ \A j \in 1..Len(O) : i < j => p[i] < p[j]
  /\ \A b \in S : L[b].word \in Reader!Blocks => (\E i \in 1..Len(O) : p[i] = b) \/ Reader!IsEnded(L, S, b)

\* Every entry has its line's file, but that of an "if" with nothing after it.
Filed(L, S, E) ==
  \A k \in S : L[k].word \in Reader!Starters =>
    \/ Reader!EndsIn(L, S, k, E[Reader!Number(L, S, k)].file)
    \/ L[k].word = "if" /\ \A x \in S : x <= k

\* The words are one thing each.
LEMMA WordsApart ==
  /\ Reader!Blocks \subseteq Reader!Starters /\ Reader!Starters \cap DOMAIN Reader!Ends = {}
  /\ \A w \in Reader!Starters : w \in Breaks /\ w # "help"
  /\ \A w \in DOMAIN Reader!Ends : w \in Breaks /\ w \notin Reader!Starters /\ w # "help"
BY DEF Breaks, Reader!Blocks, Reader!Starters, Reader!Ends

\* A line that is no entry.
LEMMA EnteredStays ==
  ASSUME NEW L, NEW n, NEW M, Grown(L, n, M), NEW S, NEW T, After(S, n, T), NEW E, Entered(L, n, S, E),
         T = S \/ (M[n + 1].word \in Breaks /\ M[n + 1].word \notin Reader!Starters)
  PROVE  Entered(M, n + 1, T, E)
<1>1. n \in Nat /\ S \in SUBSET (1..n) /\ \A k \in S : k \in 1..n /\ M[k] = L[k]
  BY DEF Grown, After
<1>2. Reader!Number(M, T, n + 1) = Reader!Number(L, S, n)
  <2>1. CASE T = S
    BY <1>1, <2>1, CountSkips DEF Reader!Number
  <2>2. CASE T = S \cup {n + 1} /\ M[n + 1].word \notin Reader!Starters
    <3>1. Joins(S, n, T)
      BY <1>1, <2>2 DEF Joins
    <3>2. QED
      BY <1>1, <2>2, <3>1, CountGrows DEF Reader!Number
  <2>3. QED
    BY <2>1, <2>2 DEF After
<1>3. ASSUME NEW k \in T, M[k].word \in Reader!Starters
      PROVE  Reader!Says(M, T, k, E[Reader!Number(M, T, k)])
  <2>1. k \in S
    BY <1>3 DEF After
  <2>2. k \in 1..n /\ L[k].word \in Reader!Starters
    BY <1>1, <1>3, <2>1
  <2>3. Reader!Number(M, T, k) = Reader!Number(L, S, k)
    BY <2>2, EndStays
  <2>4. Reader!Under(M, T, k) = Reader!Under(L, S, k)
    BY <2>2, UnderStays
  <2>5. Reader!Says(L, S, k, E[Reader!Number(L, S, k)])
    BY <2>1, <2>2 DEF Entered
  <2>6. QED
    BY <2>2, <2>3, <2>4, <2>5, SaysStays
<1>4. QED
  BY <1>2, <1>3 DEF Entered

\* A line that begins or ends no block.
LEMMA NestedStays ==
  ASSUME NEW L, NEW n, NEW M, Grown(L, n, M), NEW S, NEW T, After(S, n, T), NEW O \in Seq(Nat), NEW p,
         Nested(L, n, S, O, p),
         T = S \/ M[n + 1].word \notin Reader!Blocks \cup DOMAIN Reader!Ends
  PROVE  Nested(M, n + 1, T, O, p)
<1>1. n \in Nat /\ S \in SUBSET (1..n) /\ S \subseteq T /\ \A k \in S : k \in 1..n /\ M[k] = L[k]
  BY DEF Grown, After
<1>2. Len(O) \in Nat /\ p \in [1..Len(O) -> S]
  BY DEF Nested
<1>3. ASSUME NEW i \in 1..Len(O)
      PROVE  /\ M[p[i]].word \in Reader!Blocks /\ O[i] = Reader!Number(M, T, p[i])
             /\ Reader!Count(M, T, p[i], n + 1, Reader!Blocks)
                  = Reader!Count(M, T, p[i], n + 1, DOMAIN Reader!Ends) + Len(O) - i + 1
             /\ \A m \in p[i]..n + 1 : Reader!Deep(M, T, p[i], m)
  <2>1. PICK b \in S : b = p[i]
    BY <1>2
  <2>2. /\ L[b].word \in Reader!Blocks /\ O[i] = Reader!Number(L, S, b)
        /\ Reader!Count(L, S, b, n, Reader!Blocks) = Reader!Count(L, S, b, n, DOMAIN Reader!Ends) + Len(O) - i + 1
        /\ \A m \in b..n : Reader!Deep(L, S, b, m)
    BY <2>1 DEF Nested
  <2>3. b \in 1..n /\ M[b] = L[b]
    BY <1>1
  <2>4. \A W : T = S \/ M[n + 1].word \notin W => Reader!Count(M, T, b, n + 1, W) = Reader!Count(L, S, b, n, W)
    <3>1. ASSUME NEW W, T = S PROVE Reader!Count(M, T, b, n + 1, W) = Reader!Count(L, S, b, n, W)
      BY <1>1, <2>3, <3>1, CountSkips
    <3>2. ASSUME NEW W, T = S \cup {n + 1}, M[n + 1].word \notin W
          PROVE  Reader!Count(M, T, b, n + 1, W) = Reader!Count(L, S, b, n, W)
      <4>1. Joins(S, n, T)
        BY <1>1, <3>2 DEF Joins
      <4>2. QED
        BY <1>1, <2>3, <3>2, <4>1, CountGrows
    <3>3. QED
      BY <3>1, <3>2 DEF After
  <2>5. /\ Reader!Count(M, T, b, n + 1, Reader!Blocks) = Reader!Count(L, S, b, n, Reader!Blocks)
        /\ Reader!Count(M, T, b, n + 1, DOMAIN Reader!Ends) = Reader!Count(L, S, b, n, DOMAIN Reader!Ends)
    BY <2>4
  <2>6. Reader!Deep(M, T, b, n + 1)
    <3>1. n \in b..n
      BY <1>1, <2>3
    <3>2. Reader!Deep(L, S, b, n)
      BY <2>2, <3>1
    <3>3. QED
      BY <2>5, <3>2 DEF Reader!Deep
  <2>7. \A m \in b..n : Reader!Deep(M, T, b, m)
    <3>1. \A m \in b..n : m \in 1..n
      BY <2>3
    <3>2. QED
      BY <2>2, <2>3, <3>1, EndStays
  <2>8. \A m \in b..n + 1 : m \in b..n \/ m = n + 1
    BY <1>1, <2>3
  <2>9. Reader!Number(M, T, b) = Reader!Number(L, S, b)
    BY <2>3, EndStays
  <2>10. QED
    BY <2>1, <2>2, <2>3, <2>5, <2>6, <2>7, <2>8, <2>9
<1>4. ASSUME NEW b \in T, M[b].word \in Reader!Blocks
      PROVE  (\E i \in 1..Len(O) : p[i] = b) \/ Reader!IsEnded(M, T, b)
  <2>1. b \in S
    BY <1>4 DEF After
  <2>2. b \in 1..n /\ L[b].word \in Reader!Blocks
    BY <1>1, <1>4, <2>1
  <2>3. (\E i \in 1..Len(O) : p[i] = b) \/ Reader!IsEnded(L, S, b)
    BY <2>1, <2>2 DEF Nested
  <2>4. QED
    BY <2>2, <2>3, EndedStays
<1>5. p \in [1..Len(O) -> T]
  BY <1>1, <1>2
<1>6. \A i, j \in 1..Len(O) : i < j => p[i] < p[j]
  BY DEF Nested
<1>7. QED
  BY <1>3, <1>4, <1>5, <1>6 DEF Nested

\* What has not ended does not end where nothing ends.
LEMMA DeepLonger ==
  ASSUME NEW L, NEW n, NEW M, Grown(L, n, M), NEW S, NEW T, Joins(S, n, T), NEW b \in 1..n,
         Reader!Deep(L, S, b, n), M[n + 1].word \notin DOMAIN Reader!Ends
  PROVE  Reader!Deep(M, T, b, n + 1)
<1>1. n \in Nat
  BY DEF Grown
<1>2. /\ Reader!Count(M, T, b, n + 1, DOMAIN Reader!Ends) = Reader!Count(L, S, b, n, DOMAIN Reader!Ends)
      /\ Reader!Count(L, S, b, n, DOMAIN Reader!Ends) \in Nat
  BY <1>1, CountGrows
<1>3. /\ Reader!Count(M, T, b, n + 1, Reader!Blocks) >= Reader!Count(L, S, b, n, Reader!Blocks)
      /\ Reader!Count(M, T, b, n + 1, Reader!Blocks) \in Nat /\ Reader!Count(L, S, b, n, Reader!Blocks) \in Nat
  <2>1. CASE M[n + 1].word \in Reader!Blocks
    <3>1. /\ Reader!Count(M, T, b, n + 1, Reader!Blocks) = Reader!Count(L, S, b, n, Reader!Blocks) + 1
          /\ Reader!Count(L, S, b, n, Reader!Blocks) \in Nat
      BY <1>1, <2>1, CountGrows
    <3>2. QED
      BY <3>1
  <2>2. CASE M[n + 1].word \notin Reader!Blocks
    <3>1. /\ Reader!Count(M, T, b, n + 1, Reader!Blocks) = Reader!Count(L, S, b, n, Reader!Blocks)
          /\ Reader!Count(L, S, b, n, Reader!Blocks) \in Nat
      BY <1>1, <2>2, CountGrows
    <3>2. QED
      BY <3>1
  <2>3. QED
    BY <2>1, <2>2
<1>4. QED
  BY <1>2, <1>3 DEF Reader!Deep

LEMMA DeepIsNoEnd ==
  ASSUME NEW L, NEW n \in Nat, NEW S \in SUBSET (1..n), NEW b, NEW k, Reader!Deep(L, S, b, k)
  PROVE  ~Reader!IsEnd(L, S, b, k)
<1>1. \A W : Reader!Count(L, S, b, k, W) \in Nat
  BY CountType
<1>2. QED
  BY <1>1 DEF Reader!Deep, Reader!IsEnd

\* The blocks around a line that begins an entry are those that are open.
LEMMA AroundNew ==
  ASSUME NEW L, NEW n, NEW M, Grown(L, n, M), NEW S, NEW T, Joins(S, n, T),
         NEW O \in Seq(Nat), NEW p, Nested(L, n, S, O, p), M[n + 1].word \in Reader!Starters
  PROVE  Reader!Around(M, T, n + 1) = {p[i] : i \in 1..Len(O)}
<1>1. /\ n \in Nat /\ n + 1 \in Nat /\ T = S \cup {n + 1} /\ T \in SUBSET (1..n + 1) /\ After(S, n, T)
      /\ \A k \in S : k \in 1..n /\ M[k] = L[k]
  BY DEF Grown, Joins, After
<1>2. M[n + 1].word \notin DOMAIN Reader!Ends
  BY WordsApart
<1>3. p \in [1..Len(O) -> S]
  BY DEF Nested
<1>4. ASSUME NEW i \in 1..Len(O) PROVE p[i] \in Reader!Around(M, T, n + 1)
  <2>1. PICK b \in S : b = p[i]
    BY <1>3
  <2>2. L[b].word \in Reader!Blocks /\ \A m \in b..n : Reader!Deep(L, S, b, m)
    BY <2>1 DEF Nested
  <2>3. b \in 1..n /\ b < n + 1 /\ n \in b..n /\ b \in T /\ M[b].word \in Reader!Blocks
    BY <1>1, <2>2
  <2>4. Reader!Deep(M, T, b, n + 1)
    BY <1>2, <2>2, <2>3, DeepLonger
  <2>5. ASSUME NEW m \in b + 1..n + 1 PROVE ~Reader!IsEnd(M, T, b, m)
    <3>1. CASE m = n + 1
      BY <1>1, <2>4, <3>1, DeepIsNoEnd
    <3>2. CASE m # n + 1
      <4>1. m \in b..n /\ m \in 1..n
        BY <1>1, <2>3, <3>2
      <4>2. Reader!Deep(L, S, b, m) /\ b \in 1..n /\ After(S, n, T)
        BY <1>1, <2>2, <2>3, <4>1
      <4>3. Reader!Deep(M, T, b, m)
        BY <4>1, <4>2, EndStays
      <4>4. QED
        BY <1>1, <4>3, DeepIsNoEnd
    <3>3. QED
      BY <3>1, <3>2
  <2>6. QED
    BY <2>1, <2>3, <2>5 DEF Reader!Around
<1>5. ASSUME NEW b \in Reader!Around(M, T, n + 1) PROVE \E i \in 1..Len(O) : p[i] = b
  <2>1. b \in T /\ b < n + 1 /\ M[b].word \in Reader!Blocks /\ \A m \in b + 1..n + 1 : ~Reader!IsEnd(M, T, b, m)
    BY DEF Reader!Around
  <2>2. b \in S
    BY <1>1, <2>1
  <2>3. b \in 1..n /\ L[b].word \in Reader!Blocks
    BY <1>1, <2>1, <2>2
  <2>4. SUFFICES ASSUME Reader!IsEnded(L, S, b) PROVE FALSE
    BY <2>2, <2>3 DEF Nested
  <2>5. PICK e \in S : e > b /\ Reader!IsEnd(L, S, b, e)
    BY <2>4 DEF Reader!IsEnded
  <2>6. e \in 1..n /\ e \in b + 1..n + 1
    BY <1>1, <2>3, <2>5
  <2>7. Reader!IsEnd(M, T, b, e)
    BY <1>1, <2>3, <2>5, <2>6, EndStays
  <2>8. QED
    BY <2>1, <2>6, <2>7
<1>6. QED
  BY <1>4, <1>5

LEMMA NoOptions ==
  ASSUME NEW M, NEW n \in Nat, NEW T \in SUBSET (1..n)
  PROVE  Reader!Lists(M, Reader!Under(M, T, n), <<>>)
<1>1. Reader!Under(M, T, n) = {}
  <2>1. \A m \in T : ~(m > n)
    OBVIOUS
  <2>2. QED
    BY <2>1 DEF Reader!Under
<1>2. Reader!Cardinality({}) = 0
  <2>1. Reader!Cardinality({}) = Cardinality({})
    BY Zenon DEF Reader!Cardinality, Cardinality
  <2>2. QED
    BY <2>1, FS_EmptySet
<1>3. QED
  BY <1>1, <1>2 DEF Reader!Lists

\* A line that begins an entry.
LEMMA EnteredBegins ==
  ASSUME NEW L, NEW n, NEW M, Grown(L, n, M), NEW S, NEW T, Joins(S, n, T),
         NEW X, NEW E \in Seq(X), Entered(L, n, S, E), NEW O \in Seq(Nat), NEW p, Nested(L, n, S, O, p),
         M[n + 1].word \in Reader!Starters,
         NEW e \in X, e.kind = M[n + 1].word, e.opts = <<>>, e.up = IF O = <<>> THEN 0 ELSE O[Len(O)]
  PROVE  Entered(M, n + 1, T, Append(E, e)) /\ Reader!Number(M, T, n + 1) = Len(E) + 1
<1>1. /\ n \in Nat /\ n + 1 \in Nat /\ T = S \cup {n + 1} /\ T \in SUBSET (1..n + 1) /\ After(S, n, T) /\ n + 1 \in T
      /\ \A k \in S : k \in 1..n /\ M[k] = L[k]
  <2>1. n \in Nat /\ n + 1 \in Nat /\ n + 1 \in T /\ T = S \cup {n + 1} /\ \A k \in S : k \in 1..n /\ M[k] = L[k]
    BY DEF Grown, Joins
  <2>2. T \in SUBSET (1..n + 1)
    <3>1. \A k \in 1..n : k \in 1..n + 1
      BY <2>1
    <3>2. n + 1 \in 1..n + 1
      BY <2>1
    <3>3. S \in SUBSET (1..n)
      BY DEF Joins
    <3>4. QED
      BY <2>1, <3>1, <3>2, <3>3
  <2>3. QED
    BY <2>1, <2>2 DEF After, Joins
<1>2. Reader!Number(M, T, n + 1) = Reader!Number(L, S, n) + 1
  <2>1. PICK one \in Int : one = 1
    OBVIOUS
  <2>2. Reader!Count(M, T, one, n + 1, Reader!Starters) = Reader!Count(L, S, one, n, Reader!Starters) + 1
    <3>1. n \in Nat /\ one <= n + 1
      BY <1>1, <2>1
    <3>2. PICK W : W = Reader!Starters
      OBVIOUS
    <3>3. QED
      BY <3>1, <3>2, CountGrows
  <2>3. QED
    BY <2>1, <2>2 DEF Reader!Number
<1>3. Len(E) = Reader!Number(L, S, n) /\ Len(E) \in Nat /\ Len(Append(E, e)) = Len(E) + 1
  BY DEF Entered
<1>4. ASSUME NEW k \in S, M[k].word \in Reader!Starters
      PROVE  Reader!Says(M, T, k, Append(E, e)[Reader!Number(M, T, k)])
  <2>1. k \in 1..n /\ L[k].word \in Reader!Starters
    BY <1>1, <1>4
  <2>2. Reader!Number(M, T, k) = Reader!Number(L, S, k) /\ Reader!Number(L, S, k) \in 1..Len(E)
    BY <1>1, <1>3, <2>1, EndStays, NumberOrder
  <2>3. Append(E, e)[Reader!Number(M, T, k)] = E[Reader!Number(L, S, k)]
    BY <2>2
  <2>4. Reader!Under(M, T, k) = Reader!Under(L, S, k)
    BY <1>1, <2>1, UnderStays, WordsApart
  <2>5. Reader!Says(L, S, k, E[Reader!Number(L, S, k)])
    BY <2>1 DEF Entered
  <2>6. QED
    BY <1>1, <2>1, <2>3, <2>4, <2>5, SaysStays
<1>5. Reader!Says(M, T, n + 1, Append(E, e)[Reader!Number(M, T, n + 1)])
  <2>1. Append(E, e)[Reader!Number(M, T, n + 1)] = e
    BY <1>2, <1>3
  <2>2. Reader!StandsIn(M, T, Reader!Around(M, T, n + 1), e.up)
    <3>1. Reader!Around(M, T, n + 1) = {p[i] : i \in 1..Len(O)}
      BY AroundNew
    <3>2. CASE O = <<>>
      <4>1. {p[i] : i \in 1..Len(O)} = {}
        BY <3>2
      <4>2. QED
        BY <3>1, <3>2, <4>1 DEF Reader!StandsIn
    <3>3. CASE O # <<>>
      <4>1. Len(O) \in 1..Len(O) /\ p \in [1..Len(O) -> S]
        BY <3>3 DEF Nested
      <4>2. PICK b \in S : b = p[Len(O)]
        BY <4>1
      <4>3. e.up = Reader!Number(M, T, b)
        <5>1. O[Len(O)] = Reader!Number(L, S, b)
          BY <4>1, <4>2 DEF Nested
        <5>2. Reader!Number(M, T, b) = Reader!Number(L, S, b)
          <6>1. b \in 1..n
            BY <1>1
          <6>2. After(S, n, T)
            BY <1>1
          <6>3. QED
            BY <6>1, <6>2, EndStays
        <5>3. QED
          BY <3>3, <5>1, <5>2
      <4>4. \A i \in 1..Len(O) : p[i] <= b
        <5>1. \A i \in 1..Len(O) : i < Len(O) => p[i] < b
          BY <4>1, <4>2 DEF Nested
        <5>2. \A i \in 1..Len(O) : p[i] \in Int
          <6>1. \A i \in 1..Len(O) : p[i] \in S
            BY <4>1
          <6>2. \A x \in S : x \in Int
            BY <1>1
          <6>3. QED
            BY <6>1, <6>2
        <5>3. ASSUME NEW i \in 1..Len(O) PROVE p[i] <= b
          <6>1. CASE i = Len(O)
            BY <4>1, <4>2, <5>2, <6>1
          <6>2. CASE i # Len(O)
            BY <5>1, <5>2, <4>1, <4>2, <6>2
          <6>3. QED
            BY <6>1, <6>2
        <5>4. QED
          BY <5>3
      <4>5. b \in {p[i] : i \in 1..Len(O)} /\ \A m \in {p[i] : i \in 1..Len(O)} : m <= b
        BY <4>1, <4>2, <4>4
      <4>6. QED
        BY <3>1, <4>3, <4>5 DEF Reader!StandsIn
    <3>4. QED
      BY <3>2, <3>3
  <2>3. Reader!Lists(M, Reader!Under(M, T, n + 1), e.opts)
    BY <1>1, NoOptions
  <2>4. QED
    BY <2>1, <2>2, <2>3 DEF Reader!Says
<1>6. ASSUME NEW k \in T, M[k].word \in Reader!Starters
      PROVE  Reader!Says(M, T, k, Append(E, e)[Reader!Number(M, T, k)])
  <2>1. k \in S \/ k = n + 1
    BY <1>1
  <2>2. QED
    BY <1>4, <1>5, <1>6, <2>1
<1>7. QED
  BY <1>2, <1>3, <1>6 DEF Entered

LEMMA NestedBegins ==
  ASSUME NEW L, NEW n, NEW M, Grown(L, n, M), NEW S, NEW T, Joins(S, n, T),
         NEW O \in Seq(Nat), NEW p, Nested(L, n, S, O, p), M[n + 1].word \in Reader!Blocks,
         Reader!Number(M, T, n + 1) \in Nat
  PROVE  \E q : Nested(M, n + 1, T, Append(O, Reader!Number(M, T, n + 1)), q)
<1> DEFINE q == [i \in 1..Len(O) + 1 |-> IF i = Len(O) + 1 THEN n + 1 ELSE p[i]]
<1>0. PICK Q : Q = Append(O, Reader!Number(M, T, n + 1))
  OBVIOUS
<1>1. /\ n \in Nat /\ n + 1 \in Nat /\ T = S \cup {n + 1} /\ T \in SUBSET (1..n + 1) /\ After(S, n, T) /\ n + 1 \in T
      /\ \A k \in S : k \in 1..n /\ M[k] = L[k]
  <2>1. n \in Nat /\ n + 1 \in Nat /\ n + 1 \in T /\ T = S \cup {n + 1} /\ \A k \in S : k \in 1..n /\ M[k] = L[k]
    BY DEF Grown, Joins
  <2>2. T \in SUBSET (1..n + 1)
    <3>1. \A k \in 1..n : k \in 1..n + 1
      BY <2>1
    <3>2. n + 1 \in 1..n + 1
      BY <2>1
    <3>3. S \in SUBSET (1..n)
      BY DEF Joins
    <3>4. QED
      BY <2>1, <3>1, <3>2, <3>3
  <2>3. QED
    BY <2>1, <2>2 DEF After, Joins
<1>2. /\ Len(O) \in Nat /\ Len(Q) = Len(O) + 1 /\ p \in [1..Len(O) -> S] /\ q \in [1..Len(O) + 1 -> T]
      /\ \A i \in 1..Len(O) : Q[i] = O[i] /\ q[i] = p[i] /\ i \in 1..Len(O) + 1
      /\ Q[Len(O) + 1] = Reader!Number(M, T, n + 1) /\ q[Len(O) + 1] = n + 1
  BY <1>0, <1>1 DEF Nested
<1> HIDE DEF q
<1>3. M[n + 1].word \notin DOMAIN Reader!Ends
  BY WordsApart
<1>4. ASSUME NEW b \in 1..n + 1
      PROVE  /\ Reader!Count(M, T, b, n + 1, Reader!Blocks) = Reader!Count(L, S, b, n, Reader!Blocks) + 1
             /\ Reader!Count(M, T, b, n + 1, DOMAIN Reader!Ends) = Reader!Count(L, S, b, n, DOMAIN Reader!Ends)
             /\ Reader!Count(L, S, b, n, Reader!Blocks) \in Nat
             /\ Reader!Count(L, S, b, n, DOMAIN Reader!Ends) \in Nat
  <2>1. b \in Int /\ b <= n + 1
    BY <1>1
  <2>2. /\ Reader!Count(M, T, b, n + 1, Reader!Blocks) = Reader!Count(L, S, b, n, Reader!Blocks) + 1
        /\ Reader!Count(L, S, b, n, Reader!Blocks) \in Nat
    BY <2>1, CountGrows
  <2>3. /\ Reader!Count(M, T, b, n + 1, DOMAIN Reader!Ends) = Reader!Count(L, S, b, n, DOMAIN Reader!Ends)
        /\ Reader!Count(L, S, b, n, DOMAIN Reader!Ends) \in Nat
    BY <1>3, <2>1, CountGrows
  <2>4. QED
    BY <2>2, <2>3
<1>5. \A i \in 1..Len(O) : p[i] \in S /\ p[i] \in 1..n
  BY <1>1, <1>2
<1>6. ASSUME NEW i \in 1..Len(O)
      PROVE  /\ M[q[i]].word \in Reader!Blocks /\ Q[i] = Reader!Number(M, T, q[i])
             /\ Reader!Count(M, T, q[i], n + 1, Reader!Blocks)
                  = Reader!Count(M, T, q[i], n + 1, DOMAIN Reader!Ends) + (Len(O) + 1) - i + 1
             /\ \A m \in q[i]..n + 1 : Reader!Deep(M, T, q[i], m)
  <2>1. PICK b \in S : b = p[i]
    BY <1>2
  <2>2. /\ L[b].word \in Reader!Blocks /\ O[i] = Reader!Number(L, S, b)
        /\ Reader!Count(L, S, b, n, Reader!Blocks) = Reader!Count(L, S, b, n, DOMAIN Reader!Ends) + Len(O) - i + 1
        /\ \A m \in b..n : Reader!Deep(L, S, b, m)
    BY <2>1 DEF Nested
  <2>3. b \in 1..n /\ b \in 1..n + 1 /\ M[b] = L[b] /\ n \in b..n
    BY <1>1
  <2>4. Reader!Count(M, T, b, n + 1, Reader!Blocks)
          = Reader!Count(M, T, b, n + 1, DOMAIN Reader!Ends) + (Len(O) + 1) - i + 1
    <3>1. PICK x \in Nat : x = Reader!Count(L, S, b, n, Reader!Blocks)
      BY <1>4, <2>3
    <3>2. PICK y \in Nat : y = Reader!Count(L, S, b, n, DOMAIN Reader!Ends)
      BY <1>4, <2>3
    <3>3. x = y + Len(O) - i + 1
      BY <2>2, <3>1, <3>2
    <3>4. Reader!Count(M, T, b, n + 1, Reader!Blocks) = x + 1 /\ Reader!Count(M, T, b, n + 1, DOMAIN Reader!Ends) = y
      BY <1>4, <2>3, <3>1, <3>2
    <3>5. QED
      BY <1>2, <3>3, <3>4
  <2>5. Reader!Deep(M, T, b, n + 1)
    BY <1>3, <2>2, <2>3, DeepLonger
  <2>6. \A m \in b..n : Reader!Deep(M, T, b, m)
    <3>1. \A m \in b..n : m \in 1..n
      BY <2>3
    <3>2. QED
      BY <1>1, <2>2, <2>3, <3>1, EndStays
  <2>7. \A m \in b..n + 1 : m \in b..n \/ m = n + 1
    BY <1>1, <2>3
  <2>8. Reader!Number(M, T, b) = Reader!Number(L, S, b)
    BY <1>1, <2>3, EndStays
  <2>9. QED
    BY <1>2, <2>1, <2>2, <2>3, <2>4, <2>5, <2>6, <2>7, <2>8
<1>7. /\ Reader!Count(M, T, n + 1, n + 1, Reader!Blocks) = 1
      /\ Reader!Count(M, T, n + 1, n + 1, DOMAIN Reader!Ends) = 0
  <2>1. ASSUME NEW W PROVE Reader!Count(L, S, n + 1, n, W) = 0
    <3>1. PICK C : C = {m \in S : m \in n + 1..n /\ L[m].word \in W}
      OBVIOUS
    <3>2. C = {}
      <4>1. \A m \in S : m \notin n + 1..n
        BY <1>1
      <4>2. QED
        BY <3>1, <4>1
    <3>3. QED
      BY <3>1, <3>2, CountIs, FS_EmptySet, Zenon
  <2>2. n + 1 \in 1..n + 1
    BY <1>1
  <2>3. QED
    <3>1. /\ Reader!Count(M, T, n + 1, n + 1, Reader!Blocks) = Reader!Count(L, S, n + 1, n, Reader!Blocks) + 1
          /\ Reader!Count(M, T, n + 1, n + 1, DOMAIN Reader!Ends) = Reader!Count(L, S, n + 1, n, DOMAIN Reader!Ends)
      BY <1>4, <2>2
    <3>2. QED
      BY <2>1, <3>1
<1>8. \A m \in n + 1..n + 1 : Reader!Deep(M, T, n + 1, m)
  BY <1>1, <1>7 DEF Reader!Deep
<1>9. ASSUME NEW b \in T, M[b].word \in Reader!Blocks
      PROVE  (\E i \in 1..Len(Q) : q[i] = b) \/ Reader!IsEnded(M, T, b)
  <2>1. CASE b = n + 1
    BY <1>2, <2>1
  <2>2. CASE b # n + 1
    <3>1. b \in S
      BY <1>1, <2>2
    <3>2. b \in 1..n /\ L[b].word \in Reader!Blocks
      BY <1>1, <1>9, <3>1
    <3>3. (\E i \in 1..Len(O) : p[i] = b) \/ Reader!IsEnded(L, S, b)
      BY <3>1, <3>2 DEF Nested
    <3>4. QED
      BY <1>1, <1>2, <3>2, <3>3, EndedStays
  <2>3. QED
    BY <2>1, <2>2
<1>10. \A i, j \in 1..Len(O) + 1 : i < j => q[i] < q[j]
  <2>1. \A i, j \in 1..Len(O) : i < j => p[i] < p[j]
    BY DEF Nested
  <2>2. \A i \in 1..Len(O) : p[i] < n + 1
    BY <1>1, <1>5
  <2>3. \A i, j \in 1..Len(O) + 1 : i < j => i \in 1..Len(O) /\ (j \in 1..Len(O) \/ j = Len(O) + 1)
    <3>1. Len(O) \in Nat
      OBVIOUS
    <3>2. QED
      BY <3>1
  <2>4. ASSUME NEW i \in 1..Len(O) + 1, NEW j \in 1..Len(O) + 1, i < j PROVE q[i] < q[j]
    <3>1. i \in 1..Len(O) /\ (j \in 1..Len(O) \/ j = Len(O) + 1)
      BY <2>3, <2>4
    <3>2. CASE j \in 1..Len(O)
      BY <1>2, <2>1, <2>4, <3>1, <3>2
    <3>3. CASE j = Len(O) + 1
      BY <1>2, <2>2, <3>1, <3>3
    <3>4. QED
      BY <3>1, <3>2, <3>3
  <2>5. QED
    BY <2>4
<1>11. \A i \in 1..Len(O) + 1 : i \in 1..Len(O) \/ i = Len(O) + 1
  BY <1>2
<1>12. Nested(M, n + 1, T, Q, q)
  <2>1. ASSUME NEW i \in 1..Len(Q)
        PROVE  /\ M[q[i]].word \in Reader!Blocks /\ Q[i] = Reader!Number(M, T, q[i])
               /\ Reader!Count(M, T, q[i], n + 1, Reader!Blocks)
                    = Reader!Count(M, T, q[i], n + 1, DOMAIN Reader!Ends) + Len(Q) - i + 1
               /\ \A m \in q[i]..n + 1 : Reader!Deep(M, T, q[i], m)
    <3>1. CASE i \in 1..Len(O)
      BY <1>2, <1>6, <3>1
    <3>2. CASE i = Len(O) + 1
      <4>1. q[i] = n + 1 /\ Q[i] = Reader!Number(M, T, q[i]) /\ Len(Q) = Len(O) + 1
        BY <1>2, <3>2
      <4>2. 1 = 0 + Len(Q) - i + 1
        BY <1>2, <3>2, <4>1
      <4>3. QED
        BY <1>7, <1>8, <4>1, <4>2
    <3>3. QED
      BY <1>2, <1>11, <3>1, <3>2
  <2>2. QED
    BY <1>2, <1>9, <1>10, <2>1 DEF Nested
<1>13. QED
  BY <1>0, <1>12

\* A line that ends a block.
LEMMA NestedEnds ==
  ASSUME NEW L, NEW n, NEW M, Grown(L, n, M), NEW S, NEW T, Joins(S, n, T),
         NEW O \in Seq(Nat), NEW p, Nested(L, n, S, O, p), Len(O) > 0,
         NEW Q \in Seq(Nat), Len(Q) = Len(O) - 1, \A i \in 1..Len(O) - 1 : Q[i] = O[i],
         M[n + 1].word \in DOMAIN Reader!Ends, Reader!Ends[M[n + 1].word] = L[p[Len(O)]].word,
         Reader!EndsIn(M, T, p[Len(O)], M[n + 1].file)
  PROVE  \E q : Nested(M, n + 1, T, Q, q)
<1> DEFINE q == [i \in 1..Len(O) - 1 |-> p[i]]
<1>1. /\ n \in Nat /\ n + 1 \in Nat /\ T = S \cup {n + 1} /\ After(S, n, T) /\ n + 1 \in T /\ S \in SUBSET (1..n)
      /\ \A k \in S : k \in 1..n /\ M[k] = L[k]
  BY DEF Grown, Joins, After
<1>2. Len(O) \in Nat /\ Len(Q) \in Nat /\ p \in [1..Len(O) -> S]
  BY DEF Nested
<1>3. /\ q \in [1..Len(O) - 1 -> T]
      /\ \A i \in 1..Len(O) - 1 : q[i] = p[i] /\ i \in 1..Len(O) /\ i < Len(O)
  BY <1>1, <1>2
<1> HIDE DEF q
<1>4. M[n + 1].word \notin Reader!Blocks
  BY WordsApart
<1>5. ASSUME NEW i \in 1..Len(O)
      PROVE  /\ M[p[i]].word \in Reader!Blocks /\ O[i] = Reader!Number(M, T, p[i])
             /\ Reader!Count(M, T, p[i], n + 1, Reader!Blocks)
                  = Reader!Count(M, T, p[i], n + 1, DOMAIN Reader!Ends) + (Len(O) - 1) - i + 1
             /\ Reader!Count(M, T, p[i], n + 1, DOMAIN Reader!Ends) \in Nat
             /\ \A m \in p[i]..n : Reader!Deep(M, T, p[i], m)
  <2>1. PICK b \in S : b = p[i]
    BY <1>2
  <2>2. /\ L[b].word \in Reader!Blocks /\ O[i] = Reader!Number(L, S, b)
        /\ Reader!Count(L, S, b, n, Reader!Blocks) = Reader!Count(L, S, b, n, DOMAIN Reader!Ends) + Len(O) - i + 1
        /\ \A m \in b..n : Reader!Deep(L, S, b, m)
    BY <2>1 DEF Nested
  <2>3. b \in 1..n /\ M[b] = L[b] /\ b \in Int /\ b <= n + 1
    BY <1>1
  <2>4. /\ Reader!Count(M, T, b, n + 1, Reader!Blocks) = Reader!Count(L, S, b, n, Reader!Blocks)
        /\ Reader!Count(L, S, b, n, Reader!Blocks) \in Nat
    BY <1>4, <2>3, CountGrows
  <2>5. /\ Reader!Count(M, T, b, n + 1, DOMAIN Reader!Ends) = Reader!Count(L, S, b, n, DOMAIN Reader!Ends) + 1
        /\ Reader!Count(L, S, b, n, DOMAIN Reader!Ends) \in Nat
    BY <2>3, CountGrows
  <2>6. \A m \in b..n : Reader!Deep(M, T, b, m)
    <3>1. \A m \in b..n : m \in 1..n
      BY <2>3
    <3>2. QED
      BY <1>1, <2>2, <2>3, <3>1, EndStays
  <2>7. Reader!Number(M, T, b) = Reader!Number(L, S, b)
    BY <1>1, <2>3, EndStays
  <2>8. Reader!Count(M, T, b, n + 1, Reader!Blocks)
          = Reader!Count(M, T, b, n + 1, DOMAIN Reader!Ends) + (Len(O) - 1) - i + 1
    BY <1>2, <2>2, <2>4, <2>5
  <2>9. Reader!Count(M, T, b, n + 1, DOMAIN Reader!Ends) \in Nat
    BY <2>5
  <2>10. M[b].word \in Reader!Blocks /\ O[i] = Reader!Number(M, T, b)
    BY <2>2, <2>3, <2>7
  <2>11. QED
    BY <2>1, <2>6, <2>8, <2>9, <2>10, Zenon
<1>6. ASSUME NEW i \in 1..Len(O) - 1 PROVE \A m \in p[i]..n + 1 : Reader!Deep(M, T, p[i], m)
  <2>1. i \in 1..Len(O) /\ i < Len(O)
    BY <1>3
  <2>2. Reader!Count(M, T, p[i], n + 1, Reader!Blocks) > Reader!Count(M, T, p[i], n + 1, DOMAIN Reader!Ends)
    <3>1. PICK x \in Nat : x = Reader!Count(M, T, p[i], n + 1, DOMAIN Reader!Ends)
      BY <1>5, <2>1
    <3>2. Reader!Count(M, T, p[i], n + 1, Reader!Blocks) = x + (Len(O) - 1) - i + 1
      BY <1>5, <2>1, <3>1
    <3>3. QED
      BY <1>2, <2>1, <3>1, <3>2
  <2>3. Reader!Deep(M, T, p[i], n + 1)
    BY <2>2 DEF Reader!Deep
  <2>4. p[i] \in 1..n
    BY <1>1, <1>2, <2>1
  <2>5. \A m \in p[i]..n + 1 : m \in p[i]..n \/ m = n + 1
    BY <1>1, <2>4
  <2>6. QED
    BY <1>5, <2>1, <2>3, <2>5
<1>7. Reader!IsEnded(M, T, p[Len(O)])
  <2>1. Len(O) \in 1..Len(O)
    BY <1>2
  <2>2. PICK b \in S : b = p[Len(O)]
    BY <1>2, <2>1
  <2>3. b \in 1..n /\ M[b] = L[b] /\ n + 1 > b
    BY <1>1
  <2>4. Reader!IsEnd(M, T, b, n + 1)
    <3>1. /\ Reader!Count(M, T, b, n + 1, Reader!Blocks)
               = Reader!Count(M, T, b, n + 1, DOMAIN Reader!Ends) + (Len(O) - 1) - Len(O) + 1
          /\ Reader!Count(M, T, b, n + 1, DOMAIN Reader!Ends) \in Nat
      BY <1>5, <2>1, <2>2
    <3>2. Reader!Count(M, T, b, n + 1, Reader!Blocks) = Reader!Count(M, T, b, n + 1, DOMAIN Reader!Ends)
      BY <1>2, <3>1
    <3>3. \A m \in b..n : Reader!Deep(M, T, b, m)
      BY <1>5, <2>1, <2>2
    <3>4. \A m \in b..(n + 1) - 1 : m \in b..n
      BY <1>1, <2>3
    <3>5. QED
      BY <3>2, <3>3, <3>4 DEF Reader!IsEnd
  <2>5. Reader!Ends[M[n + 1].word] = M[b].word /\ Reader!EndsIn(M, T, b, M[n + 1].file)
    BY <2>2, <2>3
  <2>6. Reader!IsEnded(M, T, b)
    BY <1>1, <2>3, <2>4, <2>5 DEF Reader!IsEnded
  <2>7. QED
    BY <2>2, <2>6
<1>8. ASSUME NEW b \in T, M[b].word \in Reader!Blocks
      PROVE  (\E i \in 1..Len(O) - 1 : q[i] = b) \/ Reader!IsEnded(M, T, b)
  <2>1. b \in S
    BY <1>1, <1>4, <1>8
  <2>2. b \in 1..n /\ L[b].word \in Reader!Blocks
    BY <1>1, <1>8, <2>1
  <2>3. (\E i \in 1..Len(O) : p[i] = b) \/ Reader!IsEnded(L, S, b)
    BY <2>1, <2>2 DEF Nested
  <2>4. \A i \in 1..Len(O) : i \in 1..Len(O) - 1 \/ i = Len(O)
    BY <1>2
  <2>5. CASE Reader!IsEnded(L, S, b)
    BY <1>1, <2>2, <2>5, EndedStays
  <2>6. CASE \E i \in 1..Len(O) : p[i] = b
    BY <1>3, <1>7, <2>4, <2>6
  <2>7. QED
    BY <2>3, <2>5, <2>6
<1>9. \A i, j \in 1..Len(O) - 1 : i < j => q[i] < q[j]
  <2>1. \A i, j \in 1..Len(O) : i < j => p[i] < p[j]
    BY DEF Nested
  <2>2. QED
    BY <1>3, <2>1
<1>10. Nested(M, n + 1, T, Q, q)
  <2>1. ASSUME NEW i \in 1..Len(Q)
        PROVE  /\ M[q[i]].word \in Reader!Blocks /\ Q[i] = Reader!Number(M, T, q[i])
               /\ Reader!Count(M, T, q[i], n + 1, Reader!Blocks)
                    = Reader!Count(M, T, q[i], n + 1, DOMAIN Reader!Ends) + Len(Q) - i + 1
               /\ \A m \in q[i]..n + 1 : Reader!Deep(M, T, q[i], m)
    <3>1. i \in 1..Len(O) - 1 /\ i \in 1..Len(O) /\ q[i] = p[i] /\ Q[i] = O[i] /\ Len(Q) = Len(O) - 1
      BY <1>3
    <3>2. QED
      BY <1>5, <1>6, <3>1
  <2>2. q \in [1..Len(Q) -> T]
    BY <1>3
  <2>3. \A i, j \in 1..Len(Q) : i < j => q[i] < q[j]
    BY <1>9
  <2>4. \A b \in T : M[b].word \in Reader!Blocks => (\E i \in 1..Len(Q) : q[i] = b) \/ Reader!IsEnded(M, T, b)
    BY <1>8
  <2>5. QED
    BY <2>1, <2>2, <2>3, <2>4 DEF Nested
<1>11. QED
  BY <1>10

\* F has the files of E; a new entry, and an "if" that waited, that of the new line.
Refiled(L, n, M, S, T, E, F) ==
  /\ \A k \in S : L[k].word \in Reader!Starters
       => F[Reader!Number(L, S, k)].file = E[Reader!Number(L, S, k)].file
  /\ \A k \in S : L[k].word = "if" /\ (\A x \in S : x <= k) => E[Reader!Number(L, S, k)].file = M[n + 1].file
  /\ M[n + 1].word \in Reader!Starters => F[Reader!Number(M, T, n + 1)].file = M[n + 1].file

\* The line that is said next decides about the file of an "if" before it.
LEMMA FiledGrows ==
  ASSUME NEW L, NEW n, NEW M, Grown(L, n, M), NEW S, NEW T, Joins(S, n, T), NEW E, NEW F, Filed(L, S, E),
         Refiled(L, n, M, S, T, E, F)
  PROVE  Filed(M, T, F)
<1>1. /\ n \in Nat /\ T = S \cup {n + 1} /\ After(S, n, T) /\ n + 1 \in T
      /\ \A k \in S : k \in 1..n /\ M[k] = L[k]
  BY DEF Grown, Joins, After
<1>2. SUFFICES ASSUME NEW k \in T, M[k].word \in Reader!Starters
               PROVE  \/ Reader!EndsIn(M, T, k, F[Reader!Number(M, T, k)].file)
                      \/ M[k].word = "if" /\ \A x \in T : x <= k
  BY DEF Filed
<1>3. CASE k = n + 1
  <2>1. CASE M[k].word = "if"
    <3>1. \A x \in T : x <= n + 1
      BY <1>1
    <3>2. QED
      BY <1>3, <2>1, <3>1
  <2>2. CASE M[k].word # "if"
    BY <1>2, <1>3, <2>2 DEF Reader!EndsIn, Refiled
  <2>3. QED
    BY <2>1, <2>2
<1>4. CASE k # n + 1
  <2>1. k \in S
    BY <1>1, <1>4
  <2>2. k \in 1..n /\ L[k].word \in Reader!Starters /\ M[k] = L[k]
    BY <1>1, <1>2, <2>1
  <2>3. Reader!Number(M, T, k) = Reader!Number(L, S, k)
    BY <1>1, <2>2, EndStays
  <2>4. F[Reader!Number(M, T, k)].file = E[Reader!Number(L, S, k)].file
    BY <2>1, <2>2, <2>3 DEF Refiled
  <2>5. CASE Reader!EndsIn(L, S, k, E[Reader!Number(L, S, k)].file)
    <3>1. Reader!EndsIn(M, T, k, E[Reader!Number(L, S, k)].file)
      BY <1>1, <2>2, <2>5, EndsInStays
    <3>2. QED
      BY <2>4, <3>1
  <2>6. CASE L[k].word = "if" /\ \A x \in S : x <= k
    <3>1. E[Reader!Number(L, S, k)].file = M[n + 1].file
      BY <2>1, <2>6 DEF Refiled
    <3>2. n + 1 > k /\ \A m \in T : m > k => n + 1 <= m
      BY <1>1, <2>2, <2>6
    <3>3. Reader!EndsIn(M, T, k, M[n + 1].file)
      BY <1>1, <2>2, <2>6, <3>2 DEF Reader!EndsIn
    <3>4. QED
      BY <2>4, <3>1, <3>3
  <2>7. QED
    BY <2>1, <2>2, <2>5, <2>6 DEF Filed
<1>5. QED
  BY <1>3, <1>4

LEMMA ListsLonger ==
  ASSUME NEW L, NEW n, NEW M, Grown(L, n, M), NEW U \in SUBSET (1..n), NEW Y, NEW list \in Seq(Y),
         Reader!Lists(L, U, list), M[n + 1].word \in Y
  PROVE  Reader!Lists(M, U \cup {n + 1}, Append(list, M[n + 1].word))
<1>1. n \in Nat /\ n + 1 \notin U /\ \A m \in U : m \in 1..n /\ M[m] = L[m]
  BY DEF Grown
<1>2. \A A : Reader!Cardinality(A) = Cardinality(A)
  BY Zenon DEF Reader!Cardinality, Cardinality
<1>3. Len(list) = Cardinality(U) /\ \A m \in U : list[Cardinality({x \in U : x <= m})] = L[m].word
  BY <1>2, Zenon DEF Reader!Lists
<1>4. IsFiniteSet(U)
  BY <1>1, LinesFinite
<1>5. Cardinality(U \cup {n + 1}) = Cardinality(U) + 1
  BY <1>1, <1>4, FS_AddElement
<1>6. Len(list) \in Nat /\ Len(Append(list, M[n + 1].word)) = Cardinality(U \cup {n + 1})
  BY <1>3, <1>5
<1>7. ASSUME NEW m \in U \cup {n + 1}
      PROVE  Append(list, M[n + 1].word)[Cardinality({x \in U \cup {n + 1} : x <= m})] = M[m].word
  <2>1. CASE m = n + 1
    <3>1. \A x \in U \cup {n + 1} : x <= m
      BY <1>1, <2>1
    <3>2. {x \in U \cup {n + 1} : x <= m} = U \cup {n + 1}
      BY <3>1
    <3>3. Cardinality(U \cup {n + 1}) = Len(list) + 1
      BY <1>3, <1>5
    <3>4. Append(list, M[n + 1].word)[Len(list) + 1] = M[n + 1].word
      BY <1>6
    <3>5. QED
      BY <2>1, <3>2, <3>3, <3>4
  <2>2. CASE m # n + 1
    <3>1. m \in U
      BY <2>2
    <3>2. PICK C : C = {x \in U : x <= m}
      OBVIOUS
    <3>3. {x \in U \cup {n + 1} : x <= m} = C
      BY <1>1, <3>1, <3>2
    <3>4. C \in SUBSET U /\ m \in C
      BY <1>1, <3>1, <3>2
    <3>5. IsFiniteSet(C) /\ Cardinality(C) \in Nat /\ Cardinality(C) <= Cardinality(U)
      <4>1. Cardinality(C) <= Cardinality(U) /\ IsFiniteSet(C)
        BY <1>4, <3>4, FS_Subset
      <4>2. QED
        BY <4>1, FS_CardinalityType
    <3>6. Cardinality(C) # 0
      BY <3>4, <3>5, FS_EmptySet
    <3>7. list[Cardinality(C)] = L[m].word
      BY <1>3, <3>1, <3>2
    <3>8. Cardinality(C) \in 1..Len(list)
      BY <1>3, <1>6, <3>5, <3>6
    <3>9. Append(list, M[n + 1].word)[Cardinality(C)] = list[Cardinality(C)]
      BY <3>8
    <3>10. QED
      BY <1>1, <3>1, <3>3, <3>7, <3>9
  <2>3. QED
    BY <2>1, <2>2
<1>8. QED
  BY <1>2, <1>6, <1>7, Zenon DEF Reader!Lists

OptionWords == UNION {Reader!Options[s] : s \in DOMAIN Reader!Options}

\* Line k begins the last entry, and no other statement is after it.
IsLast(L, S, E, k) ==
  /\ k \in S /\ L[k].word \in Reader!Starters /\ Reader!Number(L, S, k) = Len(E)
  /\ \A x \in S : x > k => L[x].word \notin Breaks
\* The last entry of F has one option more.
Lengthens(E, F, w) ==
  /\ Len(F) = Len(E) /\ \A i \in 1..Len(E) - 1 : F[i] = E[i]
  /\ F[Len(E)].kind = E[Len(E)].kind /\ F[Len(E)].up = E[Len(E)].up
  /\ E[Len(E)].opts \in Seq(OptionWords) /\ w \in OptionWords /\ w \notin Breaks
  /\ F[Len(E)].opts = Append(E[Len(E)].opts, w)

\* A line that is an option of the last entry, which line k begins.
LEMMA EnteredTakes ==
  ASSUME NEW L, NEW n, NEW M, Grown(L, n, M), NEW S, NEW T, Joins(S, n, T), NEW E, Entered(L, n, S, E),
         NEW k, IsLast(L, S, E, k), NEW F, Lengthens(E, F, M[n + 1].word)
  PROVE  Entered(M, n + 1, T, F)
<1>1. /\ n \in Nat /\ n + 1 \in Nat /\ T = S \cup {n + 1} /\ After(S, n, T) /\ n + 1 \in T /\ S \in SUBSET (1..n)
      /\ \A m \in S : m \in 1..n /\ M[m] = L[m]
  BY DEF Grown, Joins, After
<1>2. M[n + 1].word \notin Reader!Starters /\ M[n + 1].word \notin Breaks
  BY WordsApart DEF Lengthens
<1>3. /\ k \in S /\ L[k].word \in Reader!Starters /\ Reader!Number(L, S, k) = Len(E)
      /\ \A x \in S : x > k => L[x].word \notin Breaks
  BY DEF IsLast
<1>4. /\ Len(F) = Len(E) /\ \A i \in 1..Len(E) - 1 : F[i] = E[i]
      /\ F[Len(E)].kind = E[Len(E)].kind /\ F[Len(E)].up = E[Len(E)].up
      /\ E[Len(E)].opts \in Seq(OptionWords) /\ M[n + 1].word \in OptionWords
      /\ F[Len(E)].opts = Append(E[Len(E)].opts, M[n + 1].word)
  BY DEF Lengthens
<1>5. Reader!Number(M, T, n + 1) = Reader!Number(L, S, n)
  BY <1>1, <1>2, CountGrows DEF Reader!Number
<1>6. ASSUME NEW m \in S, L[m].word \in Reader!Starters, m # k
      PROVE  Reader!Says(M, T, m, F[Reader!Number(M, T, m)])
  <2>1. m \in 1..n /\ k \in 1..n
    BY <1>1, <1>3
  <2>2. m < k
    <3>1. L[m].word \in Breaks
      BY <1>6, WordsApart
    <3>2. ~(m > k)
      BY <1>3, <3>1
    <3>3. QED
      BY <1>6, <2>1, <3>2
  <2>3. Reader!Number(L, S, m) < Len(E) /\ Reader!Number(L, S, m) \in 1..Len(E)
    <3>1. Reader!Number(L, S, m) < Reader!Number(L, S, k)
      BY <1>1, <1>3, <2>2, NumberOrder
    <3>2. Reader!Number(L, S, m) \in 1..Reader!Number(L, S, n)
      BY <1>1, <1>6, NumberOrder
    <3>3. QED
      BY <1>3, <3>1, <3>2 DEF Entered
  <2>4. F[Reader!Number(L, S, m)] = E[Reader!Number(L, S, m)]
    <3>1. PICK i \in Nat : i = Reader!Number(L, S, m)
      BY <2>3
    <3>2. PICK j \in Int : j = Len(E)
      <4>1. Len(E) \in Nat
        BY <1>1, CountType DEF Entered, Reader!Number
      <4>2. QED
        BY <4>1
    <3>3. i \in 1..j - 1
      BY <2>3, <3>1, <3>2
    <3>4. QED
      BY <1>4, <3>1, <3>2, <3>3
  <2>5. Reader!Number(M, T, m) = Reader!Number(L, S, m)
    BY <1>1, <2>1, EndStays
  <2>6. L[k].word \in Breaks /\ k \in S
    BY <1>3, WordsApart
  <2>7. Reader!Under(M, T, m) = Reader!Under(L, S, m)
    BY <1>1, <2>1, <2>2, <2>6, UnderStays
  <2>8. Reader!Says(L, S, m, E[Reader!Number(L, S, m)])
    BY <1>6 DEF Entered
  <2>9. QED
    BY <1>1, <2>1, <2>4, <2>5, <2>7, <2>8, SaysStays
<1>7. Reader!Says(M, T, k, F[Reader!Number(M, T, k)])
  <2>1. k \in 1..n
    BY <1>1, <1>3
  <2>2. Reader!Number(M, T, k) = Len(E)
    BY <1>1, <1>3, <2>1, EndStays
  <2>3. Reader!Says(L, S, k, E[Len(E)])
    BY <1>3 DEF Entered
  <2>4. Reader!StandsIn(M, T, Reader!Around(M, T, k), E[Len(E)].up)
    <3>1. Reader!Around(M, T, k) = Reader!Around(L, S, k)
      BY <1>1, <2>1, AroundStays
    <3>2. PICK B : B = Reader!Around(L, S, k)
      OBVIOUS
    <3>3. Reader!StandsIn(L, S, B, E[Len(E)].up)
      BY <2>3, <3>2 DEF Reader!Says
    <3>4. B \subseteq S
      BY <3>2 DEF Reader!Around
    <3>5. \A b \in B : Reader!Number(M, T, b) = Reader!Number(L, S, b)
      BY <1>1, <3>4, EndStays
    <3>6. QED
      BY <3>1, <3>2, <3>3, <3>5 DEF Reader!StandsIn
  <2>5. PICK U : U = Reader!Under(L, S, k)
    OBVIOUS
  <2>6. U \in SUBSET (1..n) /\ Reader!Lists(L, U, E[Len(E)].opts)
    <3>1. U \subseteq S
      BY <2>5 DEF Reader!Under
    <3>2. QED
      BY <1>1, <2>3, <2>5, <3>1 DEF Reader!Says
  <2>7. Reader!Lists(M, U \cup {n + 1}, F[Len(E)].opts)
    <3>1. PICK list \in Seq(OptionWords) : list = E[Len(E)].opts
      BY <1>4
    <3>2. Reader!Lists(M, U \cup {n + 1}, Append(list, M[n + 1].word))
      BY <1>4, <2>6, <3>1, ListsLonger
    <3>3. QED
      BY <1>4, <3>1, <3>2
  <2>8. Reader!Under(M, T, k) = U \cup {n + 1}
    <3>1. U = {m \in S : m > k}
      <4>1. \A m, x \in S : x \in k + 1..m => L[x].word \notin Breaks
        BY <1>1, <1>3, <2>1
      <4>2. QED
        BY <2>5, <4>1 DEF Reader!Under, Breaks
    <3>2. \A x \in T : x > k => M[x].word \notin Breaks
      BY <1>1, <1>2, <1>3
    <3>3. Reader!Under(M, T, k) = {m \in T : m > k}
      <4>1. \A m, x \in T : x \in k + 1..m => M[x].word \notin Breaks
        BY <1>1, <2>1, <3>2
      <4>2. QED
        BY <4>1 DEF Reader!Under, Breaks
    <3>4. n + 1 > k
      BY <1>1, <2>1
    <3>5. QED
      BY <1>1, <3>1, <3>3, <3>4
  <2>9. F[Len(E)].kind = M[k].word
    BY <1>1, <1>3, <1>4, <2>3 DEF Reader!Says
  <2>10. QED
    BY <1>4, <2>2, <2>4, <2>7, <2>8, <2>9 DEF Reader!Says
<1>8. ASSUME NEW m \in T, M[m].word \in Reader!Starters
      PROVE  Reader!Says(M, T, m, F[Reader!Number(M, T, m)])
  <2>1. m \in S
    BY <1>1, <1>2, <1>8
  <2>2. L[m].word \in Reader!Starters
    BY <1>1, <1>8, <2>1
  <2>3. QED
    BY <1>6, <1>7, <2>1, <2>2
<1>9. QED
  BY <1>5, <1>8, <1>4 DEF Entered

------------------------------------------------------------------------------
(* conf_parse: help                                                           *)

\* Two texts do not overlap: what begins in a text is text.
LEMMA OneText ==
  ASSUME NEW L, NEW n \in Nat, DOMAIN L = 1..n, NEW S \in SUBSET (1..n), Reader!AreSaid(L, S),
         NEW g \in S, NEW h \in S, Reader!LastsTo(L, g, n), g < h
  PROVE  FALSE
<1>1. \A m \in g + 1..h : m \in g + 1..n
  OBVIOUS
<1>2. Reader!LastsTo(L, g, h)
  BY <1>1 DEF Reader!LastsTo
<1>3. QED
  BY <1>2 DEF Reader!AreSaid

\* The new line is text.
LEMMA TextIsNotSaid ==
  ASSUME NEW L, NEW n, NEW M, Grown(L, n, M), NEW S \in SUBSET (1..n), Reader!AreSaid(L, S),
         NEW h \in S, Reader!LastsTo(M, h, n + 1)
  PROVE  Reader!AreSaid(M, S)
<1>1. n \in Nat /\ DOMAIN L = 1..n /\ DOMAIN M = 1..n + 1 /\ \A k \in S : k \in 1..n
  BY DEF Grown
<1>2. ASSUME NEW k \in 1..n PROVE k \in S <=> ~\E x \in S : x < k /\ Reader!LastsTo(M, x, k)
  <2>1. \A x \in S : Reader!LastsTo(M, x, k) <=> Reader!LastsTo(L, x, k)
    BY <1>1, LastsStays
  <2>2. k \in S <=> ~\E x \in S : x < k /\ Reader!LastsTo(L, x, k)
    BY <1>1 DEF Reader!AreSaid
  <2>3. QED
    BY <2>1, <2>2
<1>3. n + 1 \notin S /\ h < n + 1
  BY <1>1
<1>4. \A k \in 1..n + 1 : k \in 1..n \/ k = n + 1
  BY <1>1
<1>5. \A k \in DOMAIN M : k \in S <=> ~\E x \in S : x < k /\ Reader!LastsTo(M, x, k)
  BY <1>1, <1>2, <1>3, <1>4
<1>6. QED
  BY <1>5 DEF Reader!AreSaid

\* The new line is no text.
LEMMA LineIsSaid ==
  ASSUME NEW L, NEW n, NEW M, Grown(L, n, M), NEW S, NEW T, Joins(S, n, T), Reader!AreSaid(L, S),
         \A h \in S : ~Reader!LastsTo(M, h, n + 1)
  PROVE  Reader!AreSaid(M, T)
<1>1. /\ n \in Nat /\ DOMAIN L = 1..n /\ DOMAIN M = 1..n + 1 /\ T = S \cup {n + 1}
      /\ \A k \in S : k \in 1..n
  BY DEF Grown, Joins
<1>2. ASSUME NEW k \in 1..n PROVE k \in T <=> ~\E x \in T : x < k /\ Reader!LastsTo(M, x, k)
  <2>1. \A x \in S : Reader!LastsTo(M, x, k) <=> Reader!LastsTo(L, x, k)
    BY <1>1, LastsStays
  <2>2. k \in S <=> ~\E x \in S : x < k /\ Reader!LastsTo(L, x, k)
    BY <1>1 DEF Reader!AreSaid
  <2>3. k # n + 1 /\ ~(n + 1 < k)
    BY <1>1
  <2>4. QED
    BY <1>1, <2>1, <2>2, <2>3
<1>3. ~\E x \in T : x < n + 1 /\ Reader!LastsTo(M, x, n + 1)
  BY <1>1
<1>4. \A k \in 1..n + 1 : k \in 1..n \/ k = n + 1
  BY <1>1
<1>5. \A k \in DOMAIN M : k \in T <=> ~\E x \in T : x < k /\ Reader!LastsTo(M, x, k)
  BY <1>1, <1>2, <1>3, <1>4
<1>6. QED
  BY <1>5 DEF Reader!AreSaid

\* ts is the indentation of the text after line h, 0 while none of it has any.
Indents(L, h, n, ts) ==
  /\ ts \in Nat
  /\ ts = 0 => \A m \in h + 1..n : L[m].ts = 0
  /\ ts # 0 => \E m \in h + 1..n : L[m].ts = ts /\ \A x \in h + 1..m - 1 : L[x].ts = 0

\* The scanner's first_ts decides what the lines say.
LEMMA TextEnds ==
  ASSUME NEW L, NEW n, NEW M, Grown(L, n, M), NEW h \in 1..n, NEW first, Indents(L, h, n, first),
         NEW ts \in Nat, M[n + 1].ts = ts
  PROVE  Reader!EndsText(M, h, n + 1)
           <=> M[n + 1].word # "blank" /\ ~(h = n \/ (ts > 0 /\ ts >= first))
<1>1. n \in Nat /\ first \in Nat /\ \A m \in h + 1..n : M[m] = L[m]
  BY DEF Grown, Indents
<1>2. (n + 1) - 1 = n
  BY <1>1
<1>3. CASE ts = 0
  <2>1. n + 1 > h + 1 <=> h # n
    BY <1>1
  <2>2. Reader!EndsText(M, h, n + 1) <=> M[n + 1].word # "blank" /\ n + 1 > h + 1
    BY <1>3, Zenon DEF Reader!EndsText
  <2>3. ~(ts > 0)
    BY <1>3
  <2>4. QED
    BY <2>1, <2>2, <2>3, Zenon
<1>4. CASE ts > 0
  <2>1. (\E m \in h + 1..n : M[m].ts > ts /\ \A x \in h + 1..m - 1 : M[x].ts = 0) <=> ~(ts >= first)
    <3>1. CASE first = 0
      <4>1. \A m \in h + 1..n : M[m].ts = 0
        BY <1>1, <3>1 DEF Indents
      <4>2. QED
        BY <1>4, <3>1, <4>1
    <3>2. CASE first # 0
      <4>1. PICK m \in h + 1..n : L[m].ts = first /\ \A x \in h + 1..m - 1 : L[x].ts = 0
        BY <3>2 DEF Indents
      <4>2. M[m].ts = first /\ \A x \in h + 1..m - 1 : x \in h + 1..n /\ M[x].ts = 0
        BY <1>1, <4>1
      <4>3. ASSUME NEW x \in h + 1..n, M[x].ts > ts, \A y \in h + 1..x - 1 : M[y].ts = 0
            PROVE  ~(ts >= first)
        <5>1. x = m
          <6>1. ~(x < m)
            <7>1. SUFFICES ASSUME x < m PROVE FALSE
              OBVIOUS
            <7>2. x \in h + 1..m - 1
              BY <7>1
            <7>3. M[x].ts = 0
              BY <4>2, <7>2
            <7>4. QED
              BY <1>4, <4>3, <7>3
          <6>2. ~(m < x)
            <7>1. SUFFICES ASSUME m < x PROVE FALSE
              OBVIOUS
            <7>2. m \in h + 1..x - 1
              BY <7>1
            <7>3. QED
              BY <3>2, <4>2, <4>3, <7>2
          <6>3. QED
            BY <6>1, <6>2
        <5>2. QED
          BY <1>1, <4>2, <4>3, <5>1
      <4>4. QED
        BY <1>1, <4>2, <4>3
    <3>3. QED
      BY <3>1, <3>2
  <2>2. first = 0 => ts >= first
    BY <1>4
  <2>3. h = n => first = 0
    <3>1. SUFFICES ASSUME h = n, first # 0 PROVE FALSE
      OBVIOUS
    <3>2. PICK m \in h + 1..n : TRUE
      BY <3>1 DEF Indents
    <3>3. QED
      BY <1>1, <3>1, <3>2
  <2>4. Reader!EndsText(M, h, n + 1)
          <=> M[n + 1].word # "blank" /\ \E m \in h + 1..n : M[m].ts > ts /\ \A x \in h + 1..m - 1 : M[x].ts = 0
    <3>1. M[n + 1].ts # 0
      BY <1>4
    <3>2. QED
      BY <1>2, <3>1, Zenon DEF Reader!EndsText
  <2>5. QED
    BY <1>4, <2>1, <2>2, <2>3, <2>4
<1>5. ts = 0 \/ ts > 0
  OBVIOUS
<1>6. QED
  BY <1>3, <1>4, <1>5

LEMMA IndentsOn ==
  ASSUME NEW L, NEW n, NEW M, Grown(L, n, M), NEW h \in 1..n, NEW first, Indents(L, h, n, first),
         NEW ts \in Nat, M[n + 1].ts = ts
  PROVE  Indents(M, h, n + 1, IF first = 0 THEN ts ELSE first)
<1>1. n \in Nat /\ first \in Nat /\ \A m \in h + 1..n : M[m] = L[m]
  BY DEF Grown, Indents
<1>2. \A m \in h + 1..n + 1 : m \in h + 1..n \/ m = n + 1
  BY <1>1
<1>3. CASE first = 0
  <2>1. \A m \in h + 1..n : M[m].ts = 0
    BY <1>1, <1>3 DEF Indents
  <2>2. n + 1 \in h + 1..n + 1 /\ \A x \in h + 1..(n + 1) - 1 : x \in h + 1..n
    BY <1>1
  <2>3. Indents(M, h, n + 1, ts)
    BY <1>2, <2>1, <2>2 DEF Indents
  <2>4. QED
    BY <1>3, <2>3
<1>4. CASE first # 0
  <2>1. PICK m \in h + 1..n : L[m].ts = first /\ \A x \in h + 1..m - 1 : L[x].ts = 0
    BY <1>4 DEF Indents
  <2>2. m \in h + 1..n + 1 /\ M[m].ts = first /\ \A x \in h + 1..m - 1 : M[x].ts = 0
    BY <1>1, <2>1
  <2>3. Indents(M, h, n + 1, first)
    BY <1>1, <1>4, <2>2 DEF Indents
  <2>4. QED
    BY <1>4, <2>3
<1>5. QED
  BY <1>3, <1>4

------------------------------------------------------------------------------
(* conf_parse: the entries as the lines are read                              *)

EntrySet == [kind : Reader!Starters, up : Nat, file : Reader!AllFiles, opts : Seq(OptionWords)]

\* The entries and the open blocks are what the lines say, and word is the
\* statement whose options may follow: that of the last entry.  An "if" that waits
\* is the last line that is said, and has the file that is read.
Fits(L, n, S, E, O, file, word) ==
  /\ n \in Nat /\ S \in SUBSET (1..n)
  /\ Entered(L, n, S, E) /\ Filed(L, S, E) /\ \E p : Nested(L, n, S, O, p)
  /\ word # "none" =>
       \E k \in S : /\ L[k].word = word /\ word \in Reader!Starters /\ Reader!Number(L, S, k) = Len(E)
                    /\ \A x \in S : x > k => L[x].word \notin Breaks /\ word # "if"
  /\ \A k \in S : L[k].word = "if" => word = "if" \/ \E x \in S : x > k
  /\ word = "if" => E[Len(E)].file = file

LEMMA WaitingHasFile ==
  ASSUME NEW L, NEW n, NEW S, NEW E, NEW O, NEW file, NEW word, Fits(L, n, S, E, O, file, word)
  PROVE  \A k \in S : L[k].word = "if" /\ (\A x \in S : x <= k) => E[Reader!Number(L, S, k)].file = file
<1>1. \A x \in S : x \in Int
  BY DEF Fits
<1>2. SUFFICES ASSUME NEW k \in S, L[k].word = "if", \A x \in S : x <= k
               PROVE  E[Reader!Number(L, S, k)].file = file
  OBVIOUS
<1>3. word = "if"
  BY <1>1, <1>2 DEF Fits
<1>4. PICK j \in S : Reader!Number(L, S, j) = Len(E) /\ \A x \in S : ~(x > j)
  BY <1>3 DEF Fits
<1>5. k = j
  <2>1. k \in Int /\ j \in Int /\ j <= k /\ ~(k > j)
    BY <1>1, <1>2, <1>4
  <2>2. QED
    BY <2>1
<1>6. QED
  BY <1>3, <1>4, <1>5 DEF Fits

LEMMA JoinsFacts ==
  ASSUME NEW L, NEW n, NEW M, Grown(L, n, M), NEW S, NEW T, Joins(S, n, T)
  PROVE  /\ n \in Nat /\ n + 1 \in Nat /\ T = S \cup {n + 1} /\ After(S, n, T) /\ n + 1 \in T /\ S \in SUBSET (1..n)
         /\ T \in SUBSET (1..n + 1) /\ \A m \in S : m \in 1..n /\ M[m] = L[m]
<1>1. /\ n \in Nat /\ n + 1 \in Nat /\ T = S \cup {n + 1} /\ S \in SUBSET (1..n)
      /\ \A k \in 1..n : k \in 1..n + 1 /\ M[k] = L[k]
  BY DEF Grown, Joins
<1>2. n + 1 \in 1..n + 1
  BY <1>1
<1>3. T \in SUBSET (1..n + 1)
  BY <1>1, <1>2
<1>4. QED
  BY <1>1, <1>3 DEF After

LEMMA FitsText ==
  ASSUME NEW L, NEW n, NEW M, Grown(L, n, M), NEW S, NEW E, NEW O \in Seq(Nat),
         NEW file, NEW word, Fits(L, n, S, E, O, file, word)
  PROVE  Fits(M, n + 1, S, E, O, file, word)
<1>1. /\ n \in Nat /\ n + 1 \in Nat /\ S \in SUBSET (1..n) /\ S \in SUBSET (1..n + 1) /\ After(S, n, S)
      /\ \A k \in S : k \in 1..n /\ M[k] = L[k]
  <2>1. n \in Nat /\ n + 1 \in Nat /\ S \in SUBSET (1..n) /\ \A k \in 1..n : k \in 1..n + 1 /\ M[k] = L[k]
    BY DEF Grown, Fits
  <2>2. QED
    BY <2>1 DEF After
<1>2. \A k \in S : Reader!Number(M, S, k) = Reader!Number(L, S, k)
  BY <1>1, EndStays
<1>3. Entered(M, n + 1, S, E)
  BY <1>1, EnteredStays DEF Fits
<1>4. Filed(M, S, E)
  <2>1. \A f : \A k \in S : Reader!EndsIn(L, S, k, f) => Reader!EndsIn(M, S, k, f)
    BY <1>1, EndsInStays
  <2>2. QED
    BY <1>1, <1>2, <2>1 DEF Fits, Filed
<1>5. \E p : Nested(M, n + 1, S, O, p)
  <2>1. PICK p : Nested(L, n, S, O, p)
    BY DEF Fits
  <2>2. Nested(M, n + 1, S, O, p)
    BY <1>1, <2>1, NestedStays
  <2>3. QED
    BY <2>2
<1>6. QED
  BY <1>1, <1>2, <1>3, <1>4, <1>5 DEF Fits

LEMMA FitsBegin ==
  ASSUME NEW L, NEW n, NEW M, Grown(L, n, M), NEW S, NEW T, Joins(S, n, T), NEW E \in Seq(EntrySet),
         NEW O \in Seq(Nat), NEW file, NEW word, Fits(L, n, S, E, O, file, word),
         NEW w \in Reader!Starters, M[n + 1].word = w, M[n + 1].file = file,
         NEW e \in EntrySet, e.kind = w, e.file = file, e.opts = <<>>, e.up = IF O = <<>> THEN 0 ELSE O[Len(O)]
  PROVE  Fits(M, n + 1, T, Append(E, e), IF w \in Reader!Blocks THEN Append(O, Len(E) + 1) ELSE O, file, w)
<1>1. /\ n \in Nat /\ n + 1 \in Nat /\ T = S \cup {n + 1} /\ After(S, n, T) /\ n + 1 \in T /\ S \in SUBSET (1..n)
      /\ T \in SUBSET (1..n + 1) /\ \A m \in S : m \in 1..n /\ M[m] = L[m]
  BY JoinsFacts
<1>2. PICK p : Nested(L, n, S, O, p)
  BY DEF Fits
<1>3. Entered(M, n + 1, T, Append(E, e)) /\ Reader!Number(M, T, n + 1) = Len(E) + 1
  BY <1>2, EnteredBegins DEF Fits
<1>4. Len(E) \in Nat /\ Len(Append(E, e)) = Len(E) + 1 /\ Append(E, e)[Len(E) + 1] = e
  OBVIOUS
<1>5. Filed(M, T, Append(E, e))
  <2>1. ASSUME NEW k \in S, L[k].word \in Reader!Starters
        PROVE  Append(E, e)[Reader!Number(L, S, k)].file = E[Reader!Number(L, S, k)].file
    <3>1. Reader!Number(L, S, k) \in 1..Len(E)
      BY <1>1, <2>1, NumberOrder DEF Fits, Entered
    <3>2. QED
      BY <3>1
  <2>2. \A k \in S : L[k].word = "if" /\ (\A x \in S : x <= k) => E[Reader!Number(L, S, k)].file = M[n + 1].file
    <3>1. \A k \in S : L[k].word = "if" /\ (\A x \in S : x <= k) => E[Reader!Number(L, S, k)].file = file
      BY WaitingHasFile
    <3>2. QED
      BY <3>1
  <2>3. Append(E, e)[Reader!Number(M, T, n + 1)].file = M[n + 1].file
    BY <1>3, <1>4
  <2>4. Filed(L, S, E)
    BY DEF Fits
  <2>5. PICK F : F = Append(E, e)
    OBVIOUS
  <2>6. Filed(M, T, F)
    <3>1. Refiled(L, n, M, S, T, E, F)
      BY <2>1, <2>2, <2>3, <2>5 DEF Refiled
    <3>2. QED
      BY <2>4, <3>1, FiledGrows
  <2>7. QED
    BY <2>5, <2>6
<1>6. \E q : Nested(M, n + 1, T, IF w \in Reader!Blocks THEN Append(O, Len(E) + 1) ELSE O, q)
  <2>1. CASE w \in Reader!Blocks
    <3>1. \E q : Nested(M, n + 1, T, Append(O, Reader!Number(M, T, n + 1)), q)
      BY <1>2, <1>3, <1>4, <2>1, NestedBegins
    <3>2. QED
      BY <1>3, <2>1, <3>1
  <2>2. CASE w \notin Reader!Blocks
    <3>1. Nested(M, n + 1, T, O, p)
      BY <1>1, <1>2, <2>2, NestedStays, WordsApart
    <3>2. QED
      BY <2>2, <3>1
  <2>3. QED
    BY <2>1, <2>2
<1>7. \A x \in T : ~(x > n + 1)
  <2>1. \A x \in S : ~(x > n + 1)
    BY <1>1
  <2>2. ~(n + 1 > n + 1)
    BY <1>1
  <2>3. QED
    BY <1>1, <2>1, <2>2
<1>8. ASSUME NEW k \in T, M[k].word = "if" PROVE w = "if" \/ \E x \in T : x > k
  BY <1>1, <1>8
<1>9. QED
  BY <1>1, <1>3, <1>4, <1>5, <1>6, <1>7, <1>8 DEF Fits

LEMMA FitsEnd ==
  ASSUME NEW L, NEW n, NEW M, Grown(L, n, M), NEW S, NEW T, Joins(S, n, T), NEW E,
         NEW O \in Seq(Nat), NEW file, NEW word, Fits(L, n, S, E, O, file, word),
         NEW w \in DOMAIN Reader!Ends, M[n + 1].word = w, M[n + 1].file = file,
         Len(O) > 0, E[O[Len(O)]].kind = Reader!Ends[w], E[O[Len(O)]].file = file,
         NEW Q \in Seq(Nat), Len(Q) = Len(O) - 1, \A i \in 1..Len(O) - 1 : Q[i] = O[i], NEW g
  PROVE  Fits(M, n + 1, T, E, Q, g, "none")
<1>1. /\ n \in Nat /\ n + 1 \in Nat /\ T = S \cup {n + 1} /\ After(S, n, T) /\ n + 1 \in T /\ S \in SUBSET (1..n)
      /\ T \in SUBSET (1..n + 1) /\ \A m \in S : m \in 1..n /\ M[m] = L[m]
  BY JoinsFacts
<1>2. PICK p : Nested(L, n, S, O, p)
  BY DEF Fits
<1>3. Entered(M, n + 1, T, E)
  BY <1>1, EnteredStays, WordsApart DEF Fits
<1>4. w \notin Reader!Starters /\ w # "if"
  BY WordsApart DEF Reader!Ends
<1>5. Filed(M, T, E)
  <2>1. \A k \in S : L[k].word = "if" /\ (\A x \in S : x <= k) => E[Reader!Number(L, S, k)].file = M[n + 1].file
    <3>1. \A k \in S : L[k].word = "if" /\ (\A x \in S : x <= k) => E[Reader!Number(L, S, k)].file = file
      BY WaitingHasFile
    <3>2. QED
      BY <3>1
  <2>2. Filed(L, S, E)
    BY DEF Fits
  <2>3. Refiled(L, n, M, S, T, E, E)
    BY <1>4, <2>1 DEF Refiled
  <2>4. QED
    BY <2>2, <2>3, FiledGrows
<1>6. \E q : Nested(M, n + 1, T, Q, q)
  <2>1. Len(O) \in 1..Len(O) /\ p \in [1..Len(O) -> S]
    BY <1>2 DEF Nested
  <2>2. PICK b \in S : b = p[Len(O)]
    BY <2>1
  <2>3. L[b].word \in Reader!Blocks /\ O[Len(O)] = Reader!Number(L, S, b)
    BY <1>2, <2>1, <2>2 DEF Nested
  <2>4. Reader!Ends[w] = L[b].word
    BY <2>3, WordsApart DEF Fits, Entered, Reader!Says
  <2>5. b \in 1..n /\ M[b].word \in Reader!Starters /\ Reader!Number(M, T, b) = Reader!Number(L, S, b)
    <3>1. b \in 1..n /\ M[b] = L[b]
      BY <1>1
    <3>2. Reader!Number(M, T, b) = Reader!Number(L, S, b)
      <4>1. After(S, n, T)
        BY <1>1
      <4>2. QED
        BY <3>1, <4>1, EndStays
    <3>3. QED
      BY <2>3, <3>1, <3>2, WordsApart
  <2>6. Reader!EndsIn(M, T, b, file)
    <3>1. \/ Reader!EndsIn(M, T, b, E[Reader!Number(M, T, b)].file)
          \/ M[b].word = "if" /\ \A x \in T : x <= b
      BY <1>1, <1>5, <2>5 DEF Filed
    <3>2. ~(n + 1 <= b)
      BY <1>1, <2>5
    <3>3. Reader!EndsIn(M, T, b, E[Reader!Number(M, T, b)].file)
      BY <1>1, <3>1, <3>2
    <3>4. QED
      BY <2>3, <2>5, <3>3
  <2>7. QED
    BY <1>2, <2>2, <2>4, <2>6, NestedEnds
<1>7. ASSUME NEW k \in T, M[k].word = "if" PROVE \E x \in T : x > k
  BY <1>1, <1>4, <1>7
<1>8. QED
  BY <1>1, <1>3, <1>5, <1>6, <1>7 DEF Fits

LEMMA FitsSource ==
  ASSUME ReaderAssumption,
         NEW L, NEW n, NEW M, Grown(L, n, M), NEW S, NEW T, Joins(S, n, T), NEW E,
         NEW O \in Seq(Nat), NEW file, NEW word, Fits(L, n, S, E, O, file, word),
         NEW w \in Reader!AllFiles, M[n + 1].word = w, M[n + 1].file = file, NEW g
  PROVE  Fits(M, n + 1, T, E, O, g, "none")
<1>1. /\ n \in Nat /\ n + 1 \in Nat /\ T = S \cup {n + 1} /\ After(S, n, T) /\ n + 1 \in T /\ S \in SUBSET (1..n)
      /\ T \in SUBSET (1..n + 1) /\ \A m \in S : m \in 1..n /\ M[m] = L[m]
  BY JoinsFacts
<1>2. w \in Breaks /\ w \notin Reader!Starters /\ w \notin DOMAIN Reader!Ends
  BY DEF ReaderAssumption, Breaks
<1>3. w # "if" /\ w \notin Reader!Blocks
  BY <1>2 DEF Reader!Starters, Reader!Blocks
<1>4. PICK p : Nested(L, n, S, O, p)
  BY DEF Fits
<1>5. Entered(M, n + 1, T, E)
  BY <1>1, <1>2, EnteredStays DEF Fits
<1>6. Filed(M, T, E)
  <2>1. \A k \in S : L[k].word = "if" /\ (\A x \in S : x <= k) => E[Reader!Number(L, S, k)].file = M[n + 1].file
    <3>1. \A k \in S : L[k].word = "if" /\ (\A x \in S : x <= k) => E[Reader!Number(L, S, k)].file = file
      BY WaitingHasFile
    <3>2. QED
      BY <3>1
  <2>2. Filed(L, S, E)
    BY DEF Fits
  <2>3. Refiled(L, n, M, S, T, E, E)
    BY <1>2, <2>1 DEF Refiled
  <2>4. QED
    BY <2>2, <2>3, FiledGrows
<1>7. Nested(M, n + 1, T, O, p)
  BY <1>1, <1>2, <1>3, <1>4, NestedStays
<1>8. ASSUME NEW k \in T, M[k].word = "if" PROVE \E x \in T : x > k
  BY <1>1, <1>3, <1>8
<1>9. QED
  BY <1>1, <1>5, <1>6, <1>7, <1>8 DEF Fits

LEMMA OptionsApart ==
  ASSUME ReaderAssumption, NEW w \in OptionWords
  PROVE  w \notin Breaks /\ w \notin Reader!Blocks /\ w \notin DOMAIN Reader!Ends /\ w \notin Reader!Starters
<1>1. w \notin Reader!Starters \cup DOMAIN Reader!Ends
  BY DEF OptionWords, Reader!Options, Reader!Starters, Reader!Blocks, Reader!Ends
<1>2. w \notin Reader!AllFiles
  BY DEF ReaderAssumption, OptionWords
<1>3. QED
  BY <1>1, <1>2, WordsApart DEF Breaks

Optioned(E, w) == [E EXCEPT ![Len(E)] = Reader!WithOption(@, w)]

LEMMA FitsOption ==
  ASSUME ReaderAssumption,
         NEW L, NEW n, NEW M, Grown(L, n, M), NEW S, NEW T, Joins(S, n, T), NEW E \in Seq(EntrySet),
         NEW O \in Seq(Nat), NEW file, NEW word, Fits(L, n, S, E, O, file, word), word \notin {"none", "if"},
         NEW w \in OptionWords, M[n + 1].word = w, M[n + 1].file = file,
         NEW F, F = Optioned(E, w)
  PROVE  Fits(M, n + 1, T, F, O, file, word) /\ F \in Seq(EntrySet) /\ Len(F) = Len(E)
<1>1. /\ n \in Nat /\ n + 1 \in Nat /\ T = S \cup {n + 1} /\ After(S, n, T) /\ n + 1 \in T /\ S \in SUBSET (1..n)
      /\ T \in SUBSET (1..n + 1) /\ \A m \in S : m \in 1..n /\ M[m] = L[m]
  BY JoinsFacts
<1>2. w \notin Breaks /\ w \notin Reader!Blocks /\ w \notin DOMAIN Reader!Ends /\ w \notin Reader!Starters /\ w # "if"
  BY OptionsApart DEF Reader!Starters, Reader!Blocks
<1>3. PICK k \in S : /\ L[k].word = word /\ word \in Reader!Starters /\ Reader!Number(L, S, k) = Len(E)
                    /\ \A x \in S : x > k => L[x].word \notin Breaks
  BY DEF Fits
<1>4. Len(E) \in 1..Len(E)
  <2>1. Len(E) = Reader!Number(L, S, n)
    BY DEF Fits, Entered
  <2>2. Reader!Number(L, S, k) \in 1..Reader!Number(L, S, n)
    BY <1>1, <1>3, NumberOrder
  <2>3. QED
    BY <1>3, <2>1, <2>2
<1>5. PICK e \in EntrySet : e = E[Len(E)]
  BY <1>4
<1>6. PICK f : f = [kind |-> e.kind, up |-> e.up, file |-> e.file, opts |-> Append(e.opts, w)]
  OBVIOUS
<1>7. f \in EntrySet /\ f.kind = e.kind /\ f.up = e.up /\ f.file = e.file /\ f.opts = Append(e.opts, w)
  <2>1. e.kind \in Reader!Starters /\ e.up \in Nat /\ e.file \in Reader!AllFiles /\ e.opts \in Seq(OptionWords)
    BY DEF EntrySet
  <2>2. Append(e.opts, w) \in Seq(OptionWords)
    BY <2>1
  <2>3. QED
    BY <1>6, <2>1, <2>2 DEF EntrySet
<1>8. F = [E EXCEPT ![Len(E)] = f]
  <2>1. Reader!WithOption(e, w) = f
    <3>1. Reader!WithOption(e, w) = [e EXCEPT !.opts = Append(e.opts, w)]
      BY DEF Reader!WithOption
    <3>2. e = [kind |-> e.kind, up |-> e.up, file |-> e.file, opts |-> e.opts]
      BY DEF EntrySet
    <3>3. QED
      BY <1>6, <3>1, <3>2
  <2>2. QED
    BY <1>5, <2>1, Zenon DEF Optioned
<1>9. F \in Seq(EntrySet) /\ Len(F) = Len(E) /\ F[Len(E)] = f /\ \A i \in 1..Len(E) : i # Len(E) => F[i] = E[i]
  BY <1>4, <1>7, <1>8, ExceptSeq
<1>10. \A i \in 1..Len(E) : F[i].file = E[i].file
  BY <1>5, <1>7, <1>9
<1>11. Entered(M, n + 1, T, F)
  <2>1. \A i \in 1..Len(E) - 1 : i \in 1..Len(E) /\ i # Len(E)
    BY <1>4
  <2>2. \A i \in 1..Len(E) - 1 : F[i] = E[i]
    BY <1>9, <2>1
  <2>3. e.opts \in Seq(OptionWords)
    BY DEF EntrySet
  <2>4. Entered(L, n, S, E)
    BY DEF Fits
  <2>5. Lengthens(E, F, M[n + 1].word)
    BY <1>2, <1>5, <1>7, <1>9, <2>2, <2>3 DEF Lengthens
  <2>6. IsLast(L, S, E, k)
    BY <1>3 DEF IsLast
  <2>7. QED
    BY <2>4, <2>5, <2>6, EnteredTakes
<1>12. Filed(M, T, F)
  <2>1. \A j \in S : L[j].word \in Reader!Starters
          => F[Reader!Number(L, S, j)].file = E[Reader!Number(L, S, j)].file
    <3>1. \A j \in S : L[j].word \in Reader!Starters => Reader!Number(L, S, j) \in 1..Len(E)
      BY <1>1, NumberOrder DEF Fits, Entered
    <3>2. QED
      BY <1>10, <3>1
  <2>2. \A j \in S : L[j].word = "if" /\ (\A x \in S : x <= j) => E[Reader!Number(L, S, j)].file = M[n + 1].file
    <3>1. \A j \in S : L[j].word = "if" /\ (\A x \in S : x <= j) => E[Reader!Number(L, S, j)].file = file
      BY WaitingHasFile
    <3>2. QED
      BY <3>1
  <2>3. Filed(L, S, E)
    BY DEF Fits
  <2>4. M[n + 1].word \notin Reader!Starters
    BY <1>2
  <2>5. Refiled(L, n, M, S, T, E, F)
    BY <2>1, <2>2, <2>4 DEF Refiled
  <2>6. QED
    BY <2>3, <2>5, FiledGrows
<1>13. \E p : Nested(M, n + 1, T, O, p)
  <2>1. PICK p : Nested(L, n, S, O, p)
    BY DEF Fits
  <2>2. Nested(M, n + 1, T, O, p)
    BY <1>1, <1>2, <2>1, NestedStays
  <2>3. QED
    BY <2>2
<1>14. k \in T /\ M[k].word = word /\ Reader!Number(M, T, k) = Len(F) /\ \A x \in T : x > k => M[x].word \notin Breaks
  <2>1. Reader!Number(M, T, k) = Reader!Number(L, S, k)
    BY <1>1, EndStays
  <2>2. QED
    BY <1>1, <1>2, <1>3, <1>9, <2>1
<1>15. ASSUME NEW j \in T, M[j].word = "if" PROVE \E x \in T : x > j
  BY <1>1, <1>2, <1>15
<1>16. Fits(M, n + 1, T, F, O, file, word)
  BY <1>1, <1>3, <1>11, <1>12, <1>13, <1>14, <1>15 DEF Fits
<1>17. QED
  BY <1>9, <1>16

\* After the end of a file the entry of an "if" that waits has the file that goes on.
Moves(E, F, word, g) ==
  /\ Len(F) = Len(E)
  /\ \A i \in 1..Len(E) : /\ F[i].kind = E[i].kind /\ F[i].up = E[i].up /\ F[i].opts = E[i].opts
                          /\ F[i].file = E[i].file \/ (word = "if" /\ i = Len(E))
  /\ word = "if" => F[Len(E)].file = g

LEMMA FitsFile ==
  ASSUME NEW L, NEW n, NEW S, NEW E \in Seq(EntrySet), NEW O, NEW file, NEW word,
         Fits(L, n, S, E, O, file, word), NEW F \in Seq(EntrySet), NEW g, Moves(E, F, word, g)
  PROVE  Fits(L, n, S, F, O, g, word)
<1> USE DEF Moves
<1>0. n \in Nat /\ S \in SUBSET (1..n)
  BY DEF Fits
<1>1. ASSUME NEW k \in S, L[k].word \in Reader!Starters PROVE Reader!Number(L, S, k) \in 1..Len(E)
  BY <1>0, <1>1, NumberOrder DEF Fits, Entered
<1>2. Entered(L, n, S, F)
  <2>1. \A k \in S : L[k].word \in Reader!Starters => Reader!Says(L, S, k, E[Reader!Number(L, S, k)])
    BY DEF Fits, Entered
  <2>2. \A k \in S : L[k].word \in Reader!Starters => Reader!Says(L, S, k, F[Reader!Number(L, S, k)])
    BY <1>1, <2>1 DEF Reader!Says
  <2>3. QED
    BY <2>2 DEF Fits, Entered
<1>3. Filed(L, S, F)
  <2>1. SUFFICES ASSUME NEW k \in S, L[k].word \in Reader!Starters
                 PROVE  \/ Reader!EndsIn(L, S, k, F[Reader!Number(L, S, k)].file)
                        \/ L[k].word = "if" /\ \A x \in S : x <= k
    BY DEF Filed
  <2>2. \/ Reader!EndsIn(L, S, k, E[Reader!Number(L, S, k)].file)
        \/ L[k].word = "if" /\ \A x \in S : x <= k
    BY <2>1 DEF Fits, Filed
  <2>3. CASE F[Reader!Number(L, S, k)].file = E[Reader!Number(L, S, k)].file
    BY <2>2, <2>3
  <2>4. CASE F[Reader!Number(L, S, k)].file # E[Reader!Number(L, S, k)].file
    <3>1. word = "if" /\ Reader!Number(L, S, k) = Len(E)
      BY <1>1, <2>1, <2>4
    <3>2. PICK j \in S : /\ L[j].word = "if" /\ Reader!Number(L, S, j) = Len(E) /\ L[j].word \in Reader!Starters
                        /\ \A x \in S : ~(x > j)
      BY <3>1 DEF Fits
    <3>3. ~(k < j)
      <4>1. SUFFICES ASSUME k < j PROVE FALSE
        OBVIOUS
      <4>2. Reader!Number(L, S, k) < Reader!Number(L, S, j)
        BY <1>0, <3>2, <4>1, NumberOrder
      <4>3. QED
        BY <3>1, <3>2, <4>2
    <3>4. k = j /\ \A x \in S : x <= k
      <4>1. \A x \in S : x \in Int
        BY <1>0
      <4>2. k = j
        BY <3>2, <3>3, <4>1
      <4>3. QED
        BY <3>2, <4>1, <4>2
    <3>5. QED
      BY <3>2, <3>4
  <2>5. QED
    BY <2>3, <2>4
<1>4. QED
  BY <1>0, <1>2, <1>3 DEF Fits

\* The lines S are those that are said, and the scanner knows the text that it is in:
\* that of the last of them.  Outside help, no text goes on but in files that are done.
Helped(L, n, S, fl, file, how, first) ==
  /\ n \in Nat /\ DOMAIN L = 1..n /\ S \in SUBSET (1..n) /\ Reader!AreSaid(L, S)
  /\ how = "no" => \A h \in S : Reader!LastsTo(L, h, n) => fl[L[h].file] = "scanned"
  /\ how # "no" => \E h \in S :
       /\ Reader!LastsTo(L, h, n) /\ L[h].file = file /\ \A x \in S : x <= h
       /\ (how = "begun" <=> h = n) /\ Indents(L, h, n, first)

\* A file that was sourced is open or done, and was so by one line only; those that
\* are open are open once.
Once(L, S, fl, files) ==
  /\ fl[Top] # "unread"
  /\ \A k \in S : L[k].word \in Reader!AllFiles =>
       L[k].word # Top /\ fl[L[k].word] # "unread" /\ \A x \in S : L[x].word = L[k].word => x = k
  /\ \A i \in 1..Len(files) : fl[files[i]] = "busy" /\ \A j \in 1..Len(files) : files[i] = files[j] => i = j

\* The new line, with its file and indentation; it is text, or it may be.
NewLine(M, n, file, ts) == ts \in Nat /\ M[n + 1].ts = ts /\ M[n + 1].file = file
MayBeText(how, first, ts) == how = "begun" \/ (ts > 0 /\ ts >= first)
Flagged(fl, files) == fl \in [Reader!AllFiles -> {"unread", "busy", "scanned"}] /\ files \in Seq(Reader!AllFiles)

LEMMA HelpedText ==
  ASSUME NEW L, NEW n, NEW M, Grown(L, n, M), NEW S, NEW fl, NEW file, NEW how, NEW first,
         Helped(L, n, S, fl, file, how, first), how # "no",
         NEW ts, NewLine(M, n, file, ts), M[n + 1].word = "blank" \/ MayBeText(how, first, ts)
  PROVE  Helped(M, n + 1, S, fl, file, "text", IF first = 0 THEN ts ELSE first)
<1>1. /\ n \in Nat /\ n + 1 \in Nat /\ DOMAIN M = 1..n + 1 /\ S \in SUBSET (1..n) /\ Reader!AreSaid(L, S)
      /\ \A k \in 1..n : k \in 1..n + 1 /\ M[k] = L[k]
  <2>1. n \in Nat /\ S \in SUBSET (1..n) /\ Reader!AreSaid(L, S) /\ DOMAIN M = 1..n + 1
    BY DEF Helped, Grown
  <2>2. \A k \in 1..n : k \in 1..n + 1
    BY <2>1
  <2>3. QED
    BY <2>1, <2>2 DEF Grown
<1>2. PICK h \in S : /\ Reader!LastsTo(L, h, n) /\ L[h].file = file /\ \A x \in S : x <= h
                    /\ (how = "begun" <=> h = n) /\ Indents(L, h, n, first)
  BY DEF Helped
<1>3. h \in 1..n /\ M[h] = L[h]
  BY <1>1
<1>4. ~Reader!EndsText(M, h, n + 1)
  BY <1>2, <1>3, TextEnds DEF NewLine, MayBeText
<1>5. Reader!LastsTo(M, h, n + 1)
  BY <1>2, <1>3, <1>4, LastsLonger DEF NewLine
<1>6. Reader!AreSaid(M, S)
  BY <1>1, <1>5, TextIsNotSaid
<1>7. h # n + 1 /\ S \in SUBSET (1..n + 1)
  <2>1. h # n + 1
    BY <1>1, <1>3
  <2>2. QED
    BY <1>1, <2>1
<1>8. Indents(M, h, n + 1, IF first = 0 THEN ts ELSE first)
  BY <1>2, <1>3, IndentsOn DEF NewLine
<1>9. PICK f : f = IF first = 0 THEN ts ELSE first
  OBVIOUS
<1>10. Helped(M, n + 1, S, fl, file, "text", f)
  BY <1>1, <1>2, <1>3, <1>5, <1>6, <1>7, <1>8, <1>9 DEF Helped
<1>11. QED
  BY <1>9, <1>10

\* The new line is in no text, and ends the one that went on.
Resumes(L, n, M, S, T, fl, file, how, first, ts) ==
  /\ Grown(L, n, M) /\ Joins(S, n, T) /\ Helped(L, n, S, fl, file, how, first) /\ fl[file] = "busy"
  /\ NewLine(M, n, file, ts) /\ M[n + 1].word # "blank" /\ (how = "no" \/ ~MayBeText(how, first, ts))

LEMMA HelpedLine ==
  ASSUME NEW L, NEW n, NEW M, NEW S, NEW T, NEW fl, NEW file, NEW how, NEW first, NEW ts,
         Resumes(L, n, M, S, T, fl, file, how, first, ts),
         NEW fl2, NEW file2, M[n + 1].word = "help" => file2 = file,
         NEW now, now = IF M[n + 1].word = "help" THEN "begun" ELSE "no"
  PROVE  Helped(M, n + 1, T, fl2, file2, now, 0)
<1>0. /\ Grown(L, n, M) /\ Joins(S, n, T) /\ Helped(L, n, S, fl, file, how, first) /\ fl[file] = "busy"
      /\ NewLine(M, n, file, ts) /\ M[n + 1].word # "blank" /\ (how = "no" \/ ~MayBeText(how, first, ts))
  BY DEF Resumes
<1>1. /\ n \in Nat /\ n + 1 \in Nat /\ T = S \cup {n + 1} /\ After(S, n, T) /\ n + 1 \in T /\ S \in SUBSET (1..n)
      /\ T \in SUBSET (1..n + 1) /\ \A m \in S : m \in 1..n /\ M[m] = L[m]
  BY <1>0, JoinsFacts
<1>2. DOMAIN L = 1..n /\ DOMAIN M = 1..n + 1 /\ Reader!AreSaid(L, S)
  BY <1>0 DEF Grown, Helped
<1>3. ASSUME NEW h \in S, Reader!LastsTo(M, h, n + 1) PROVE FALSE
  <2>1. h \in 1..n
    BY <1>1
  <2>2. Reader!LastsTo(L, h, n) /\ L[h].file = file /\ ~Reader!EndsText(M, h, n + 1)
    <3>1. Reader!LastsTo(L, h, n) /\ M[n + 1].file = L[h].file /\ ~Reader!EndsText(M, h, n + 1)
      BY <1>0, <1>3, <2>1, LastsLonger
    <3>2. QED
      BY <1>0, <3>1 DEF NewLine
  <2>3. CASE how = "no"
    <3>1. fl[L[h].file] = "scanned"
      BY <1>0, <2>2, <2>3 DEF Helped
    <3>2. QED
      BY <1>0, <2>2, <3>1
  <2>4. CASE how # "no"
    <3>1. PICK g \in S : /\ Reader!LastsTo(L, g, n) /\ \A x \in S : x <= g
                        /\ (how = "begun" <=> g = n) /\ Indents(L, g, n, first)
      BY <1>0, <2>4 DEF Helped
    <3>2. ~(h < g)
      BY <1>1, <1>2, <2>2, OneText
    <3>3. h = g
      <4>1. h \in Int /\ g \in Int /\ h <= g
        BY <1>1, <3>1
      <4>2. QED
        BY <3>2, <4>1
    <3>4. Reader!EndsText(M, g, n + 1)
      <4>1. g \in 1..n /\ ~(g = n \/ (ts > 0 /\ ts >= first))
        BY <1>0, <2>1, <2>4, <3>1, <3>3 DEF MayBeText
      <4>2. QED
        BY <1>0, <3>1, <4>1, TextEnds DEF NewLine
    <3>5. QED
      BY <2>2, <3>3, <3>4
  <2>5. QED
    BY <2>3, <2>4
<1>4. Reader!AreSaid(M, T)
  BY <1>0, <1>2, <1>3, LineIsSaid
<1>5. CASE M[n + 1].word = "help"
  <2>1. Reader!LastsTo(M, n + 1, n + 1)
    <3>1. ~\E m \in (n + 1) + 1..n + 1 : TRUE
      BY <1>1
    <3>2. QED
      BY <1>5, <3>1 DEF Reader!LastsTo
  <2>2. Indents(M, n + 1, n + 1, 0)
    BY <1>1 DEF Indents
  <2>3. \A x \in T : x <= n + 1
    BY <1>1
  <2>4. Helped(M, n + 1, T, fl2, file2, "begun", 0)
    <3>1. PICK k \in T : k = n + 1
      BY <1>1
    <3>2. /\ Reader!LastsTo(M, k, n + 1) /\ \A x \in T : x <= k
          /\ ("begun" = "begun" <=> k = n + 1) /\ Indents(M, k, n + 1, 0)
      BY <2>1, <2>2, <2>3, <3>1
    <3>3. M[k].file = file2
      BY <1>0, <1>5, <3>1 DEF NewLine
    <3>4. QED
      BY <1>1, <1>2, <1>4, <3>2, <3>3 DEF Helped
  <2>5. QED
    BY <1>5, <2>4
<1>6. CASE M[n + 1].word # "help"
  <2>1. ~Reader!LastsTo(M, n + 1, n + 1)
    BY <1>6 DEF Reader!LastsTo
  <2>2. \A h \in T : ~Reader!LastsTo(M, h, n + 1)
    BY <1>1, <1>3, <2>1
  <2>3. Helped(M, n + 1, T, fl2, file2, "no", 0)
    BY <1>1, <1>2, <1>4, <2>2 DEF Helped
  <2>4. QED
    BY <1>6, <2>3
<1>7. QED
  BY <1>5, <1>6

LEMMA HelpedFile ==
  ASSUME NEW L, NEW n, NEW S, NEW fl, NEW files, Flagged(fl, files), NEW file \in Reader!AllFiles, NEW how, NEW first,
         Helped(L, n, S, fl, file, how, first), \A k \in S : L[k].file \in Reader!AllFiles, NEW file2
  PROVE  Helped(L, n, S, [fl EXCEPT ![file] = "scanned"], file2, "no", 0)
<1>1. n \in Nat /\ DOMAIN L = 1..n /\ S \in SUBSET (1..n) /\ Reader!AreSaid(L, S)
  BY DEF Helped
<1>2. PICK fl2 : fl2 = [fl EXCEPT ![file] = "scanned"]
  OBVIOUS
<1>3. \A f \in Reader!AllFiles : fl2[f] = IF f = file THEN "scanned" ELSE fl[f]
  BY <1>2 DEF Flagged
<1>4. ASSUME NEW h \in S, Reader!LastsTo(L, h, n) PROVE fl2[L[h].file] = "scanned"
  <2>1. CASE how = "no"
    <3>1. fl[L[h].file] = "scanned"
      BY <1>4, <2>1 DEF Helped
    <3>2. QED
      BY <1>3, <3>1
  <2>2. CASE how # "no"
    <3>1. PICK g \in S : L[g].file = file /\ \A x \in S : x <= g
      BY <2>2 DEF Helped
    <3>2. ~(h < g)
      BY <1>1, <1>4, OneText
    <3>3. h = g
      <4>1. h \in Int /\ g \in Int /\ h <= g
        BY <1>1, <3>1
      <4>2. QED
        BY <3>2, <4>1
    <3>4. QED
      BY <1>3, <3>1, <3>3
  <2>3. QED
    BY <2>1, <2>2
<1>5. Helped(L, n, S, fl2, file2, "no", 0)
  BY <1>1, <1>4 DEF Helped
<1>6. QED
  BY <1>2, <1>5

LEMMA OnceText ==
  ASSUME NEW L, NEW n, NEW M, Grown(L, n, M), NEW S \in SUBSET (1..n), NEW fl, NEW files, Once(L, S, fl, files)
  PROVE  Once(M, S, fl, files)
<1>1. \A k \in S : M[k] = L[k]
  BY DEF Grown
<1>2. QED
  BY <1>1 DEF Once

LEMMA OnceLine ==
  ASSUME NEW L, NEW n, NEW M, Grown(L, n, M), NEW S, NEW T, Joins(S, n, T), NEW fl, NEW files,
         Once(L, S, fl, files), M[n + 1].word \notin Reader!AllFiles
  PROVE  Once(M, T, fl, files)
<1>1. /\ n \in Nat /\ n + 1 \in Nat /\ T = S \cup {n + 1} /\ After(S, n, T) /\ n + 1 \in T /\ S \in SUBSET (1..n)
      /\ T \in SUBSET (1..n + 1) /\ \A m \in S : m \in 1..n /\ M[m] = L[m]
  BY JoinsFacts
<1>2. \A k \in T : M[k].word \in Reader!AllFiles => k \in S /\ L[k].word = M[k].word
  BY <1>1
<1>3. QED
  BY <1>1, <1>2 DEF Once

LEMMA OnceSource ==
  ASSUME NEW L, NEW n, NEW M, Grown(L, n, M), NEW S, NEW T, Joins(S, n, T),
         NEW fl, NEW files, Flagged(fl, files), Once(L, S, fl, files),
         NEW w \in Reader!AllFiles, M[n + 1].word = w, fl[w] = "unread"
  PROVE  Once(M, T, [fl EXCEPT ![w] = "busy"], Append(files, w))
<1>1. /\ n \in Nat /\ n + 1 \in Nat /\ T = S \cup {n + 1} /\ After(S, n, T) /\ n + 1 \in T /\ S \in SUBSET (1..n)
      /\ T \in SUBSET (1..n + 1) /\ \A m \in S : m \in 1..n /\ M[m] = L[m]
  BY JoinsFacts
<1>2. PICK fl2 : fl2 = [fl EXCEPT ![w] = "busy"]
  OBVIOUS
<1>3. PICK files2 : files2 = Append(files, w)
  OBVIOUS
<1>4. \A f \in Reader!AllFiles : fl2[f] = IF f = w THEN "busy" ELSE fl[f]
  BY <1>2 DEF Flagged
<1>5. w # Top /\ Top \in Reader!AllFiles
  BY DEF Once, Reader!AllFiles
<1>6. \A k \in S : L[k].word # w
  BY DEF Once
<1>7. ASSUME NEW k \in T, M[k].word \in Reader!AllFiles
      PROVE  M[k].word # Top /\ fl2[M[k].word] # "unread" /\ \A x \in T : M[x].word = M[k].word => x = k
  <2>1. CASE k \in S
    <3>1. L[k].word # Top /\ fl[L[k].word] # "unread" /\ \A x \in S : L[x].word = L[k].word => x = k
      BY <1>1, <1>7, <2>1 DEF Once
    <3>2. QED
      BY <1>1, <1>4, <1>6, <1>7, <2>1, <3>1
  <2>2. CASE k = n + 1
    BY <1>1, <1>4, <1>5, <1>6, <2>2
  <2>3. QED
    BY <1>1, <2>1, <2>2
<1>8. /\ Len(files) \in Nat /\ Len(files2) = Len(files) + 1 /\ files2[Len(files) + 1] = w
      /\ \A i \in 1..Len(files) : files2[i] = files[i] /\ files[i] \in Reader!AllFiles
  BY <1>3 DEF Flagged
<1>9. \A i \in 1..Len(files2) : i \in 1..Len(files) \/ i = Len(files) + 1
  BY <1>8
<1>10. \A i \in 1..Len(files) : files[i] # w
  BY DEF Once
<1>11. ASSUME NEW i \in 1..Len(files2)
       PROVE  fl2[files2[i]] = "busy" /\ \A j \in 1..Len(files2) : files2[i] = files2[j] => i = j
  <2>1. CASE i \in 1..Len(files)
    <3>1. fl[files[i]] = "busy" /\ \A j \in 1..Len(files) : files[i] = files[j] => i = j
      BY <2>1 DEF Once
    <3>2. QED
      BY <1>4, <1>8, <1>9, <1>10, <2>1, <3>1
  <2>2. CASE i = Len(files) + 1
    BY <1>4, <1>8, <1>9, <1>10, <2>2
  <2>3. QED
    BY <1>9, <2>1, <2>2
<1>12. fl2[Top] # "unread"
  BY <1>4, <1>5 DEF Once
<1>13. Once(M, T, fl2, files2)
  BY <1>7, <1>11, <1>12 DEF Once
<1>14. QED
  BY <1>2, <1>3, <1>13

LEMMA OnceFile ==
  ASSUME NEW L, NEW S, NEW fl, NEW files, Flagged(fl, files), Len(files) > 1,
         Once(L, S, fl, files), NEW files2, Len(files2) = Len(files) - 1,
         \A i \in 1..Len(files) - 1 : files2[i] = files[i]
  PROVE  Once(L, S, [fl EXCEPT ![files[Len(files)]] = "scanned"], files2)
<1>1. PICK fl2 : fl2 = [fl EXCEPT ![files[Len(files)]] = "scanned"]
  OBVIOUS
<1>2. Len(files) \in Nat /\ Len(files) \in 1..Len(files) /\ \A i \in 1..Len(files) : files[i] \in Reader!AllFiles
  BY DEF Flagged
<1>3. \A f \in Reader!AllFiles : fl2[f] = IF f = files[Len(files)] THEN "scanned" ELSE fl[f]
  BY <1>1 DEF Flagged
<1>4. Top \in Reader!AllFiles
  BY DEF Reader!AllFiles
<1>5. ASSUME NEW i \in 1..Len(files2)
      PROVE  fl2[files2[i]] = "busy" /\ \A j \in 1..Len(files2) : files2[i] = files2[j] => i = j
  <2>1. i \in 1..Len(files) - 1 /\ i \in 1..Len(files) /\ i # Len(files)
    BY <1>2
  <2>2. files2[i] = files[i] /\ files[i] \in Reader!AllFiles /\ files[i] # files[Len(files)] /\ fl[files[i]] = "busy"
    BY <1>2, <2>1 DEF Once
  <2>3. \A j \in 1..Len(files2) : j \in 1..Len(files) /\ files2[j] = files[j]
    BY <1>2
  <2>4. \A j \in 1..Len(files) : files[i] = files[j] => i = j
    BY <2>1 DEF Once
  <2>5. QED
    BY <1>3, <2>2, <2>3, <2>4
<1>6. \A k \in S : L[k].word \in Reader!AllFiles => fl2[L[k].word] # "unread"
  BY <1>3 DEF Once
<1>7. fl2[Top] # "unread"
  BY <1>3, <1>4 DEF Once
<1>8. Once(L, S, fl2, files2)
  BY <1>5, <1>6, <1>7 DEF Once
<1>9. QED
  BY <1>1, <1>8

------------------------------------------------------------------------------
(* conf_parse: the reading                                                    *)

LogLine == [word : Words \cup TextWords \cup Reader!AllFiles \cup {"blank"}, ts : 0..2, file : Reader!AllFiles]

ReadTyped ==
  /\ Flagged(flags, reading) /\ entries \in Seq(EntrySet) /\ open \in Seq(Nat)
  /\ takes \in DOMAIN Reader!Options /\ waits \in BOOLEAN /\ helping \in {"no", "begun", "text"}
  /\ first_ts \in Nat /\ log \in Seq(LogLine)

\* What has been read is what the lines say, S being those that are said.
Parsed(S) ==
  /\ Helped(log, Len(log), S, flags, Reader!CurrentFile, helping, first_ts)
  /\ Fits(log, Len(log), S, Reader!Added, Reader!Opened, Reader!CurrentFile, takes)
  /\ Once(log, S, flags, reading)

ReadInv ==
  /\ ReadTyped /\ Reader!ReadAsWritten
  /\ result = "reading" => reading # <<>> /\ (waits <=> takes = "if") /\ \E S : Parsed(S)

LEMMA CurrentIs ==
  ASSUME ReadTyped, reading # <<>>
  PROVE  /\ Len(reading) \in Nat /\ Len(reading) > 0
         /\ Reader!CurrentFile = reading[Len(reading)] /\ Reader!CurrentFile \in Reader!AllFiles
<1>1. reading \in Seq(Reader!AllFiles)
  BY DEF ReadTyped, Flagged
<1>2. Len(reading) \in Nat /\ Len(reading) > 0 /\ reading[Len(reading)] \in Reader!AllFiles
  BY <1>1
<1>3. Reader!CurrentFile = reading[Len(reading)]
  BY Zenon DEF Reader!CurrentFile, Reader!Last
<1>4. QED
  BY <1>2, <1>3

LEMMA EntryIs ==
  ASSUME ReadTyped, reading # <<>>, NEW w \in Reader!Starters, NEW O \in Seq(Nat)
  PROVE  /\ Reader!Entry(w, O) \in EntrySet /\ Reader!Entry(w, O).kind = w
         /\ Reader!Entry(w, O).file = Reader!CurrentFile /\ Reader!Entry(w, O).opts = <<>>
         /\ Reader!Entry(w, O).up = IF O = <<>> THEN 0 ELSE O[Len(O)]
<1>1. PICK f \in Reader!AllFiles : f = Reader!CurrentFile
  BY CurrentIs
<1>2. PICK u : u = IF O = <<>> THEN 0 ELSE O[Len(O)]
  OBVIOUS
<1>3. u \in Nat
  <2>1. CASE O = <<>>
    BY <1>2, <2>1
  <2>2. CASE O # <<>>
    <3>1. Len(O) \in 1..Len(O)
      BY <2>2
    <3>2. QED
      BY <1>2, <2>2, <3>1
  <2>3. QED
    BY <2>1, <2>2
<1>4. PICK e : e = [kind |-> w, up |-> u, file |-> f, opts |-> <<>>]
  OBVIOUS
<1>5. Reader!Entry(w, O) = e
  BY <1>1, <1>2, <1>4, Zenon DEF Reader!Entry, Reader!Last
<1>6. e \in EntrySet /\ e.kind = w /\ e.up = u /\ e.file = f /\ e.opts = <<>>
  BY <1>3, <1>4 DEF EntrySet
<1>7. QED
  BY <1>1, <1>2, <1>5, <1>6

\* The entries with that of the "if" that waits.
LEMMA AddedIs ==
  ASSUME ReadTyped, reading # <<>>
  PROVE  /\ Reader!Added \in Seq(EntrySet) /\ Reader!Opened \in Seq(Nat)
         /\ ~waits => Reader!Added = entries /\ Reader!Opened = open
         /\ waits => /\ Reader!Added = Append(entries, Reader!Entry("if", open))
                     /\ Reader!Opened = Append(open, Len(entries) + 1)
<1>1. entries \in Seq(EntrySet) /\ open \in Seq(Nat)
  BY DEF ReadTyped
<1>2. CASE waits
  <2>1. Reader!Added = Append(entries, Reader!Entry("if", open)) /\ Reader!Opened = Append(open, Len(entries) + 1)
    BY <1>2, Zenon DEF Reader!Added, Reader!Opened
  <2>2. PICK w \in Reader!Starters : w = "if"
    BY DEF Reader!Starters, Reader!Blocks
  <2>3. Reader!Entry("if", open) \in EntrySet
    BY <1>1, <2>2, EntryIs
  <2>4. Len(entries) + 1 \in Nat
    BY <1>1
  <2>5. Append(entries, Reader!Entry("if", open)) \in Seq(EntrySet) /\ Append(open, Len(entries) + 1) \in Seq(Nat)
    BY <1>1, <2>3, <2>4
  <2>6. QED
    BY <1>2, <2>1, <2>5
<1>3. CASE ~waits
  <2>1. Reader!Added = entries /\ Reader!Opened = open
    BY <1>3, Zenon DEF Reader!Added, Reader!Opened
  <2>2. QED
    BY <1>1, <1>3, <2>1
<1>4. QED
  BY <1>2, <1>3

\* The reading goes on with line w of the current file, and the lines T are said.
Line(S, T, w) ==
  /\ ReadTyped /\ reading # <<>> /\ (waits <=> takes = "if")
  /\ Fits(log, Len(log), S, Reader!Added, Reader!Opened, Reader!CurrentFile, takes)
  /\ Joins(S, Len(log), T) /\ Grown(log, Len(log), log')
  /\ log'[Len(log) + 1].word = w /\ log'[Len(log) + 1].file = Reader!CurrentFile
LineRead(T) ==
  /\ entries' \in Seq(EntrySet) /\ open' \in Seq(Nat)
  /\ takes' \in DOMAIN Reader!Options /\ waits' \in BOOLEAN /\ (waits' <=> takes' = "if")
  /\ Fits(log', Len(log) + 1, T, Reader!Added', Reader!Opened', Reader!CurrentFile', takes')

LEMMA ReadBegin ==
  ASSUME NEW S, NEW T, NEW w, Line(S, T, w), Reader!Begin(w)
  PROVE  LineRead(T) /\ w \in Reader!Starters
<1>1. PICK E \in Seq(EntrySet) : E = Reader!Added
  BY AddedIs DEF Line
<1>2. PICK O \in Seq(Nat) : O = Reader!Opened
  BY AddedIs DEF Line
<1>3. PICK f \in Reader!AllFiles : f = Reader!CurrentFile
  BY CurrentIs DEF Line
<1>4. w \in Reader!Starters /\ w \in DOMAIN Reader!Options /\ w # "if"
  BY DEF Reader!Begin, Reader!MayBegin, Reader!Starters, Reader!Blocks, Reader!Options
<1>5. PICK e \in EntrySet : /\ e = Reader!Entry(w, O) /\ e.kind = w /\ e.file = f /\ e.opts = <<>>
                           /\ e.up = IF O = <<>> THEN 0 ELSE O[Len(O)]
  BY <1>3, <1>4, EntryIs DEF Line
<1>6. PICK Q : Q = IF w \in Reader!Blocks THEN Append(O, Len(E) + 1) ELSE O
  OBVIOUS
<1>7. entries' = Append(E, e) /\ open' = Q /\ takes' = w /\ waits' = FALSE /\ reading' = reading
  BY <1>1, <1>2, <1>5, <1>6 DEF Reader!Begin
<1>8. Reader!Added' = Append(E, e) /\ Reader!Opened' = Q /\ Reader!CurrentFile' = f
  BY <1>3, <1>7, Zenon DEF Reader!Added, Reader!Opened, Reader!CurrentFile
<1>9. Fits(log', Len(log) + 1, T, Append(E, e), Q, f, w)
  <2>1. Fits(log, Len(log), S, E, O, f, takes) /\ Joins(S, Len(log), T) /\ Grown(log, Len(log), log')
    BY <1>1, <1>2, <1>3 DEF Line
  <2>2. PICK n, M, L, t : n = Len(log) /\ M = log' /\ L = log /\ t = takes
    OBVIOUS
  <2>3. M[n + 1].word = w /\ M[n + 1].file = f
    BY <1>3, <2>2 DEF Line
  <2>4. Fits(L, n, S, E, O, f, t) /\ Joins(S, n, T) /\ Grown(L, n, M)
    BY <2>1, <2>2
  <2>5. Fits(M, n + 1, T, Append(E, e), Q, f, w)
    BY <1>4, <1>5, <1>6, <2>3, <2>4, FitsBegin
  <2>6. QED
    BY <2>2, <2>5
<1>10. Q \in Seq(Nat) /\ Append(E, e) \in Seq(EntrySet)
  BY <1>6
<1>11. QED
  BY <1>4, <1>7, <1>8, <1>9, <1>10 DEF LineRead

LEMMA ReadIf ==
  ASSUME NEW S, NEW T, NEW w, Line(S, T, w), Reader!If(w)
  PROVE  LineRead(T) /\ w \in Reader!Starters
<1>1. PICK E \in Seq(EntrySet) : E = Reader!Added
  BY AddedIs DEF Line
<1>2. PICK O \in Seq(Nat) : O = Reader!Opened
  BY AddedIs DEF Line
<1>3. PICK f \in Reader!AllFiles : f = Reader!CurrentFile
  BY CurrentIs DEF Line
<1>4. w = "if" /\ w \in Reader!Starters /\ w \in DOMAIN Reader!Options /\ w \in Reader!Blocks
  BY DEF Reader!If, Reader!Starters, Reader!Blocks, Reader!Options
<1>5. PICK e \in EntrySet : /\ e = Reader!Entry(w, O) /\ e.kind = w /\ e.file = f /\ e.opts = <<>>
                           /\ e.up = IF O = <<>> THEN 0 ELSE O[Len(O)]
  BY <1>3, <1>4, EntryIs DEF Line
<1>6. entries' = E /\ open' = O /\ takes' = w /\ waits' = TRUE /\ reading' = reading
  BY <1>1, <1>2, <1>4 DEF Reader!If
<1>7. Reader!CurrentFile' = Reader!CurrentFile
  BY <1>6, Zenon DEF Reader!CurrentFile
<1>8. Reader!Added' = Append(E, e) /\ Reader!Opened' = Append(O, Len(E) + 1)
  <2>1. Reader!Added' = Append(entries', Reader!Entry("if", open)') /\ Reader!Opened' = Append(open', Len(entries') + 1)
    BY <1>6, Zenon DEF Reader!Added, Reader!Opened
  <2>2. Reader!Entry("if", open)' = Reader!Entry("if", O)
    BY <1>6, <1>7, Zenon DEF Reader!Entry
  <2>3. QED
    BY <1>4, <1>5, <1>6, <2>1, <2>2, Zenon
<1>9. Fits(log', Len(log) + 1, T, Append(E, e), Append(O, Len(E) + 1), f, w)
  <2>1. Fits(log, Len(log), S, E, O, f, takes) /\ Joins(S, Len(log), T) /\ Grown(log, Len(log), log')
    BY <1>1, <1>2, <1>3 DEF Line
  <2>2. PICK n, M, L, t : n = Len(log) /\ M = log' /\ L = log /\ t = takes
    OBVIOUS
  <2>3. M[n + 1].word = w /\ M[n + 1].file = f
    BY <1>3, <2>2 DEF Line
  <2>4. Fits(L, n, S, E, O, f, t) /\ Joins(S, n, T) /\ Grown(L, n, M)
    BY <2>1, <2>2
  <2>5. Fits(M, n + 1, T, Append(E, e), IF w \in Reader!Blocks THEN Append(O, Len(E) + 1) ELSE O, f, w)
    BY <1>4, <1>5, <2>3, <2>4, FitsBegin
  <2>6. QED
    BY <1>4, <2>2, <2>5
<1>10. E \in Seq(EntrySet) /\ O \in Seq(Nat) /\ takes' = "if" /\ Reader!CurrentFile' = f
  BY <1>3, <1>4, <1>6, <1>7
<1>11. QED
  BY <1>4, <1>6, <1>8, <1>9, <1>10 DEF LineRead

\* The token belongs to the innermost block.
LEMMA ReadEnd ==
  ASSUME NEW S, NEW T, NEW w, Line(S, T, w), Reader!End(w)
  PROVE  LineRead(T) /\ w \in DOMAIN Reader!Ends
<1>1. PICK E \in Seq(EntrySet) : E = Reader!Added
  BY AddedIs DEF Line
<1>2. PICK O \in Seq(Nat) : O = Reader!Opened
  BY AddedIs DEF Line
<1>3. PICK f \in Reader!AllFiles : f = Reader!CurrentFile
  BY CurrentIs DEF Line
<1>4. w \in DOMAIN Reader!Ends /\ Reader!InnerKind = Reader!Ends[w] /\ Reader!Added[Reader!Last(Reader!Opened)].file = f
  BY <1>3 DEF Reader!End, Reader!MayEnd, Reader!EndToken
<1>5. Len(O) > 0 /\ E[O[Len(O)]].kind = Reader!Ends[w] /\ E[O[Len(O)]].file = f
  <2>1. O # <<>>
    <3>1. SUFFICES ASSUME O = <<>> PROVE FALSE
      OBVIOUS
    <3>2. Reader!InnerKind = "none"
      BY <1>2, <3>1, Zenon DEF Reader!InnerKind
    <3>3. Reader!Ends[w] \in {"menu", "choice", "if"}
      BY <1>4 DEF Reader!Ends
    <3>4. QED
      BY <1>4, <3>2, <3>3
  <2>2. Reader!InnerKind = E[O[Len(O)]].kind
    BY <1>1, <1>2, <2>1, Zenon DEF Reader!InnerKind, Reader!Last
  <2>3. E[O[Len(O)]].file = f
    BY <1>1, <1>2, <1>4, Zenon DEF Reader!Last
  <2>4. QED
    BY <1>4, <2>1, <2>2, <2>3
<1>6. PICK Q : Q = SubSeq(O, 1, Len(O) - 1)
  OBVIOUS
<1>7. Q \in Seq(Nat) /\ Len(Q) = Len(O) - 1 /\ \A i \in 1..Len(O) - 1 : Q[i] = O[i]
  <2>1. PICK n \in Nat, b \in Int : n = Len(O) - 1 /\ b = 1
    BY <1>5
  <2>2. \A i \in b..n : O[i] \in Nat
    BY <2>1
  <2>3. /\ SubSeq(O, b, n) \in Seq(Nat) /\ Len(SubSeq(O, b, n)) = IF b <= n THEN n - b + 1 ELSE 0
        /\ \A i \in 1..n - b + 1 : SubSeq(O, b, n)[i] = O[b + i - 1]
    BY <2>2, SubSeqProperties
  <2>4. Q = SubSeq(O, b, n)
    BY <1>6, <2>1
  <2>5. Q \in Seq(Nat) /\ Len(Q) = n
    <3>1. (IF b <= n THEN n - b + 1 ELSE 0) = n
      BY <2>1
    <3>2. QED
      BY <2>3, <2>4, <3>1, Zenon
  <2>6. ASSUME NEW i \in b..n PROVE Q[i] = O[i]
    BY <2>1, <2>3, <2>4
  <2>7. QED
    BY <2>1, <2>5, <2>6
<1>8. entries' = E /\ open' = Q /\ takes' = "none" /\ waits' = FALSE /\ reading' = reading
  BY <1>1, <1>2, <1>6 DEF Reader!End, Reader!Front
<1>9. Reader!Added' = E /\ Reader!Opened' = Q
  BY <1>8, Zenon DEF Reader!Added, Reader!Opened
<1>10. Fits(log', Len(log) + 1, T, E, Q, Reader!CurrentFile', "none")
  <2>1. Fits(log, Len(log), S, E, O, f, takes) /\ Joins(S, Len(log), T) /\ Grown(log, Len(log), log')
    BY <1>1, <1>2, <1>3 DEF Line
  <2>2. PICK n, M, L, t, g : n = Len(log) /\ M = log' /\ L = log /\ t = takes /\ g = Reader!CurrentFile'
    OBVIOUS
  <2>3. M[n + 1].word = w /\ M[n + 1].file = f
    BY <1>3, <2>2 DEF Line
  <2>4. Fits(L, n, S, E, O, f, t) /\ Joins(S, n, T) /\ Grown(L, n, M)
    BY <2>1, <2>2
  <2>5. Fits(M, n + 1, T, E, Q, g, "none")
    BY <1>4, <1>5, <1>7, <2>3, <2>4, FitsEnd
  <2>6. QED
    BY <2>2, <2>5
<1>11. "none" \in DOMAIN Reader!Options
  BY DEF Reader!Options
<1>12. QED
  BY <1>4, <1>7, <1>8, <1>9, <1>10, <1>11 DEF LineRead

LEMMA ReadSource ==
  ASSUME NEW S, NEW T, NEW w, Line(S, T, w), Reader!Source(w)
  PROVE  LineRead(T) /\ w \in Reader!AllFiles
<1>1. PICK E \in Seq(EntrySet) : E = Reader!Added
  BY AddedIs DEF Line
<1>2. PICK O \in Seq(Nat) : O = Reader!Opened
  BY AddedIs DEF Line
<1>3. PICK f \in Reader!AllFiles : f = Reader!CurrentFile
  BY CurrentIs DEF Line
<1>4. w \in Reader!AllFiles
  BY DEF Reader!Source, Reader!MaySource
<1>5. entries' = E /\ open' = O /\ takes' = "none" /\ waits' = FALSE
  BY <1>1, <1>2 DEF Reader!Source
<1>6. Reader!Added' = E /\ Reader!Opened' = O
  BY <1>5, Zenon DEF Reader!Added, Reader!Opened
<1>7. Fits(log', Len(log) + 1, T, E, O, Reader!CurrentFile', "none")
  <2>1. Fits(log, Len(log), S, E, O, f, takes) /\ Joins(S, Len(log), T) /\ Grown(log, Len(log), log')
    BY <1>1, <1>2, <1>3 DEF Line
  <2>2. PICK n, M, L, t, g : n = Len(log) /\ M = log' /\ L = log /\ t = takes /\ g = Reader!CurrentFile'
    OBVIOUS
  <2>3. M[n + 1].word = w /\ M[n + 1].file = f
    BY <1>3, <2>2 DEF Line
  <2>4. Fits(L, n, S, E, O, f, t) /\ Joins(S, n, T) /\ Grown(L, n, M)
    BY <2>1, <2>2
  <2>5. Fits(M, n + 1, T, E, O, g, "none")
    BY <1>4, <2>3, <2>4, FitsSource, ReaderAssumption
  <2>6. QED
    BY <2>2, <2>5
<1>8. "none" \in DOMAIN Reader!Options
  BY DEF Reader!Options
<1>9. QED
  BY <1>4, <1>5, <1>6, <1>7, <1>8 DEF LineRead

LEMMA ReadOption ==
  ASSUME NEW S, NEW T, NEW w, Line(S, T, w), Reader!Option(w)
  PROVE  LineRead(T) /\ w \in OptionWords
<1>1. PICK E \in Seq(EntrySet) : E = Reader!Added
  BY AddedIs DEF Line
<1>2. PICK O \in Seq(Nat) : O = Reader!Opened
  BY AddedIs DEF Line
<1>3. PICK f \in Reader!AllFiles : f = Reader!CurrentFile
  BY CurrentIs DEF Line
<1>4. takes \in DOMAIN Reader!Options /\ w \in Reader!Options[takes]
  BY DEF Reader!Option, Reader!MayTake, Line, ReadTyped
<1>5. w \in OptionWords /\ takes \notin {"none", "if"}
  BY <1>4 DEF OptionWords, Reader!Options
<1>6. ~waits /\ E = entries /\ O = open
  BY <1>1, <1>2, <1>5, AddedIs DEF Line
<1>7. PICK F : F = Optioned(E, w)
  OBVIOUS
<1>8. entries' = F /\ open' = O /\ takes' = takes /\ waits' = waits /\ reading' = reading
  BY <1>6, <1>7, Zenon DEF Reader!Option, Optioned
<1>9. Reader!Added' = F /\ Reader!Opened' = O /\ Reader!CurrentFile' = f
  <2>1. ~waits'
    BY <1>6, <1>8
  <2>2. QED
    BY <1>3, <1>8, <2>1, Zenon DEF Reader!Added, Reader!Opened, Reader!CurrentFile
<1>10. Fits(log', Len(log) + 1, T, F, O, f, takes) /\ F \in Seq(EntrySet)
  <2>1. Fits(log, Len(log), S, E, O, f, takes) /\ Joins(S, Len(log), T) /\ Grown(log, Len(log), log')
    BY <1>1, <1>2, <1>3 DEF Line
  <2>2. PICK n, M, L, t : n = Len(log) /\ M = log' /\ L = log /\ t = takes
    OBVIOUS
  <2>3. M[n + 1].word = w /\ M[n + 1].file = f
    BY <1>3, <2>2 DEF Line
  <2>4. Fits(L, n, S, E, O, f, t) /\ Joins(S, n, T) /\ Grown(L, n, M) /\ t \notin {"none", "if"}
    BY <1>5, <2>1, <2>2
  <2>5. Fits(M, n + 1, T, F, O, f, t) /\ F \in Seq(EntrySet)
    <3>1. M[n + 1].file = f /\ M[n + 1].word = w /\ w \in OptionWords /\ F = Optioned(E, w)
      BY <1>5, <1>7, <2>3
    <3>2. ReaderAssumption
      BY ReaderAssumption DEF ReaderAssumption
    <3>3. QED
      BY <3>1, <3>2, <2>4, FitsOption
  <2>6. QED
    BY <2>2, <2>5
<1>11. waits \in BOOLEAN /\ (waits <=> takes = "if")
  BY DEF Line, ReadTyped
<1>12. QED
  BY <1>4, <1>5, <1>8, <1>9, <1>10, <1>11 DEF LineRead

\* A line is added to the log.
Appended(w, ts) ==
  /\ Len(log) \in Nat /\ Grown(log, Len(log), log') /\ log' \in Seq(LogLine)
  /\ log'[Len(log) + 1].word = w /\ NewLine(log', Len(log), Reader!CurrentFile, ts)

LEMMA LogGrows ==
  ASSUME ReadTyped, reading # <<>>, NEW w \in Words \cup TextWords \cup Reader!AllFiles \cup {"blank"},
         NEW ts \in 0..2, Reader!Logged(w, ts)
  PROVE  Appended(w, ts)
<1>1. PICK L \in Seq(LogLine) : L = log
  BY DEF ReadTyped
<1>2. PICK f \in Reader!AllFiles : f = Reader!CurrentFile
  BY CurrentIs
<1>3. PICK l \in LogLine : l = [word |-> w, ts |-> ts, file |-> f] /\ l.word = w /\ l.ts = ts /\ l.file = f
  <2>1. PICK l : l = [word |-> w, ts |-> ts, file |-> f]
    OBVIOUS
  <2>2. l \in LogLine
    BY <2>1 DEF LogLine
  <2>3. l.word = w /\ l.ts = ts /\ l.file = f
    BY <2>1
  <2>4. QED
    BY <2>1, <2>2, <2>3
<1>4. PICK M : M = Append(L, l)
  OBVIOUS
<1>5. /\ M \in Seq(LogLine) /\ Len(L) \in Nat /\ Len(M) = Len(L) + 1 /\ DOMAIN L = 1..Len(L)
      /\ DOMAIN M = 1..Len(L) + 1 /\ M[Len(L) + 1] = l /\ \A i \in 1..Len(L) : M[i] = L[i]
  BY <1>4
<1>6. Grown(L, Len(L), M) /\ M[Len(L) + 1].word = w /\ NewLine(M, Len(L), f, ts)
  BY <1>3, <1>5 DEF Grown, NewLine
<1>7. log' = M
  BY <1>1, <1>2, <1>3, <1>4, Zenon DEF Reader!Logged
<1>8. QED
  BY <1>1, <1>2, <1>5, <1>6, <1>7 DEF Appended

\* What a statement or an option does, w being its word.
Reads(T, w) ==
  /\ LineRead(T) /\ w # "blank"
  /\ \/ w \notin Reader!AllFiles /\ reading' = reading /\ flags' = flags
     \/ /\ w \in Reader!AllFiles /\ w # "help" /\ flags[w] = "unread"
        /\ reading' = Append(reading, w) /\ flags' = [flags EXCEPT ![w] = "busy"]

LEMMA LineReads ==
  ASSUME NEW S, NEW T, NEW w, Line(S, T, w),
         Reader!Begin(w) \/ Reader!If(w) \/ Reader!End(w) \/ Reader!Source(w) \/ Reader!Option(w)
  PROVE  Reads(T, w)
<1>1. ReaderAssumption
  BY ReaderAssumption DEF ReaderAssumption
<1>2. \A f \in Reader!AllFiles : f \notin Reader!Starters /\ f \notin DOMAIN Reader!Ends /\ f \notin OptionWords /\ f # "blank"
  <2>1. SUFFICES ASSUME NEW f \in Reader!AllFiles
                 PROVE  f \notin Reader!Starters /\ f \notin DOMAIN Reader!Ends /\ f \notin OptionWords /\ f # "blank"
    OBVIOUS
  <2>2. f \notin Reader!Starters /\ f \notin DOMAIN Reader!Ends
    BY <1>1 DEF ReaderAssumption
  <2>3. f \notin OptionWords
    BY <1>1 DEF ReaderAssumption, OptionWords
  <2>4. f # "blank"
    BY <1>1 DEF ReaderAssumption
  <2>5. QED
    BY <2>2, <2>3, <2>4
<1>3. /\ "blank" \notin Reader!Starters /\ "blank" \notin DOMAIN Reader!Ends /\ "blank" \notin OptionWords
      /\ "help" \in OptionWords
  BY DEF Reader!Starters, Reader!Blocks, Reader!Ends, OptionWords, Reader!Options
<1>4. CASE Reader!Begin(w)
  <2>1. LineRead(T) /\ w \in Reader!Starters
    BY <1>4, ReadBegin
  <2>2. reading' = reading /\ flags' = flags
    BY <1>4 DEF Reader!Begin
  <2>3. QED
    BY <1>2, <1>3, <2>1, <2>2 DEF Reads
<1>5. CASE Reader!If(w)
  <2>1. LineRead(T) /\ w \in Reader!Starters
    BY <1>5, ReadIf
  <2>2. reading' = reading /\ flags' = flags
    BY <1>5 DEF Reader!If
  <2>3. QED
    BY <1>2, <1>3, <2>1, <2>2 DEF Reads
<1>6. CASE Reader!End(w)
  <2>1. LineRead(T) /\ w \in DOMAIN Reader!Ends
    BY <1>6, ReadEnd
  <2>2. reading' = reading /\ flags' = flags
    BY <1>6 DEF Reader!End
  <2>3. QED
    BY <1>2, <1>3, <2>1, <2>2 DEF Reads
<1>7. CASE Reader!Source(w)
  <2>1. LineRead(T) /\ w \in Reader!AllFiles
    BY <1>7, ReadSource
  <2>2. flags[w] = "unread" /\ reading' = Append(reading, w) /\ flags' = [flags EXCEPT ![w] = "busy"]
    BY <1>7 DEF Reader!Source, Reader!MaySource
  <2>3. QED
    BY <1>2, <1>3, <2>1, <2>2 DEF Reads
<1>8. CASE Reader!Option(w)
  <2>1. LineRead(T) /\ w \in OptionWords
    BY <1>8, ReadOption
  <2>2. reading' = reading /\ flags' = flags
    BY <1>8 DEF Reader!Option
  <2>3. QED
    BY <1>2, <1>3, <2>1, <2>2 DEF Reads
<1>9. QED
  BY <1>4, <1>5, <1>6, <1>7, <1>8

LEMMA NotAccepted ==
  ASSUME result' # "accepted"
  PROVE  Reader!ReadAsWritten'
BY Zenon DEF Reader!ReadAsWritten

LEMMA GoesOn ==
  ASSUME NEW S, ReadTyped', result' = "reading", reading' # <<>>, waits' <=> takes' = "if", Parsed(S)'
  PROVE  ReadInv'
<1>1. Reader!ReadAsWritten'
  BY NotAccepted
<1>2. QED
  BY <1>1, Zenon DEF ReadInv

\* The reading has stopped.
LEMMA Stops ==
  ASSUME ReadTyped', result' # "reading", Reader!ReadAsWritten'
  PROVE  ReadInv'
BY Zenon DEF ReadInv

LEMMA IsReading ==
  ASSUME ReadInv, result = "reading"
  PROVE  /\ ReadTyped /\ reading # <<>> /\ (waits <=> takes = "if") /\ flags[Reader!CurrentFile] = "busy"
         /\ \E S : Parsed(S) /\ S \in SUBSET (1..Len(log))
<1>1. ReadTyped /\ reading # <<>> /\ (waits <=> takes = "if")
  BY DEF ReadInv
<1>2. PICK S : Parsed(S)
  BY DEF ReadInv
<1>3. S \in SUBSET (1..Len(log))
  BY <1>2 DEF Parsed, Fits
<1>4. Len(reading) \in 1..Len(reading) /\ Reader!CurrentFile = reading[Len(reading)]
  BY <1>1, CurrentIs
<1>5. flags[Reader!CurrentFile] = "busy"
  BY <1>2, <1>4 DEF Parsed, Once
<1>6. QED
  BY <1>1, <1>2, <1>3, <1>5

WordSet == Words \cup TextWords \cup Reader!AllFiles \cup {"blank"}

LEMMA StatementKeeps ==
  ASSUME ReadInv, result = "reading", NEW w \in WordSet, NEW ts \in 0..2,
         helping = "no" \/ ~Reader!IsText(ts), Reader!Statement(w, ts)
  PROVE  ReadInv'
<1>1. /\ ReadTyped /\ reading # <<>> /\ (waits <=> takes = "if") /\ flags[Reader!CurrentFile] = "busy"
      /\ \E S : Parsed(S) /\ S \in SUBSET (1..Len(log))
  BY IsReading
<1>2. CASE Reader!Refused(w)
  <2>1. /\ flags' = [f \in Reader!AllFiles |-> "unread"] /\ reading' = <<>> /\ entries' = <<>> /\ open' = <<>>
        /\ takes' = "none" /\ waits' = FALSE /\ helping' = "no" /\ first_ts' = 0 /\ log' = <<>> /\ result' = "refused"
    BY <1>2 DEF Reader!Refused
  <2>2. Flagged(flags', reading')
    BY <2>1 DEF Flagged
  <2>3. ReadTyped'
    <3>1. takes' \in DOMAIN Reader!Options
      BY <2>1 DEF Reader!Options
    <3>2. log' \in Seq(LogLine) /\ entries' \in Seq(EntrySet) /\ open' \in Seq(Nat) /\ first_ts' \in Nat
      BY <2>1
    <3>3. QED
      BY <2>1, <2>2, <3>1, <3>2 DEF ReadTyped
  <2>4. QED
    BY <2>1, <2>3, NotAccepted, Stops
<1>3. CASE /\ Reader!Begin(w) \/ Reader!If(w) \/ Reader!End(w) \/ Reader!Source(w) \/ Reader!Option(w)
           /\ helping' = (IF w = "help" THEN "begun" ELSE "no")
           /\ first_ts' = 0 /\ Reader!Logged(w, ts) /\ UNCHANGED result
  <2>1. PICK S : Parsed(S) /\ S \in SUBSET (1..Len(log))
    BY <1>1
  <2>2. PICK T : T = S \cup {Len(log) + 1}
    OBVIOUS
  <2>3. Appended(w, ts)
    BY <1>1, <1>3, LogGrows DEF WordSet
  <2>4. Joins(S, Len(log), T)
    BY <2>1, <2>2 DEF Joins
  <2>5. Line(S, T, w)
    BY <1>1, <2>1, <2>3, <2>4 DEF Line, Parsed, Appended, NewLine
  <2>6. Reads(T, w)
    BY <1>3, <2>5, LineReads
  <2>7. Len(log') = Len(log) + 1
    BY <2>3 DEF Appended, Grown
  <2>8. reading' # <<>> /\ (w = "help" => reading' = reading)
    <3>1. CASE reading' = reading
      BY <1>1, <3>1
    <3>2. CASE reading' = Append(reading, w) /\ w # "help"
      <4>1. reading \in Seq(Reader!AllFiles)
        BY <1>1 DEF ReadTyped, Flagged
      <4>2. QED
        BY <3>2, <4>1
    <3>3. QED
      BY <2>6, <3>1, <3>2 DEF Reads
  <2>9. Helped(log', Len(log'), T, flags', Reader!CurrentFile', helping', first_ts')
    <3>1. w = "help" => Reader!CurrentFile' = Reader!CurrentFile
      BY <2>8, Zenon DEF Reader!CurrentFile
    <3>2. /\ Helped(log, Len(log), S, flags, Reader!CurrentFile, helping, first_ts)
          /\ Grown(log, Len(log), log') /\ NewLine(log', Len(log), Reader!CurrentFile, ts)
          /\ log'[Len(log) + 1].word = w /\ w # "blank"
      BY <2>1, <2>3, <2>6 DEF Parsed, Appended, Reads
    <3>3. helping = "no" \/ ~MayBeText(helping, first_ts, ts)
      BY DEF Reader!IsText, MayBeText
    <3>4. PICK L, n, M, fl, file, how, first, fl2, file2 :
            /\ L = log /\ n = Len(log) /\ M = log' /\ fl = flags /\ file = Reader!CurrentFile
            /\ how = helping /\ first = first_ts /\ fl2 = flags' /\ file2 = Reader!CurrentFile'
      OBVIOUS
    <3>5. /\ Helped(L, n, S, fl, file, how, first) /\ Grown(L, n, M) /\ Joins(S, n, T) /\ NewLine(M, n, file, ts)
          /\ M[n + 1].word # "blank" /\ (how = "no" \/ ~MayBeText(how, first, ts))
          /\ (M[n + 1].word = "help" => file2 = file)
      BY <2>4, <3>1, <3>2, <3>3, <3>4
    <3>6. fl[file] = "busy"
      BY <1>1, <3>4
    <3>7. PICK now : now = IF M[n + 1].word = "help" THEN "begun" ELSE "no"
      OBVIOUS
    <3>8. Helped(M, n + 1, T, fl2, file2, now, 0)
      <4>1. Resumes(L, n, M, S, T, fl, file, how, first, ts)
        BY <3>5, <3>6 DEF Resumes
      <4>2. QED
        BY <3>5, <3>7, <4>1, HelpedLine
    <3>9. helping' = now
      BY <1>3, <3>2, <3>4, <3>7
    <3>10. QED
      BY <1>3, <2>7, <3>4, <3>8, <3>9
  <2>10. Once(log', T, flags', reading')
    <3>1. PICK L, n, M, fl, files, fl2, files2 :
            /\ L = log /\ n = Len(log) /\ M = log' /\ fl = flags /\ files = reading /\ fl2 = flags' /\ files2 = reading'
      OBVIOUS
    <3>2. /\ Once(L, S, fl, files) /\ Grown(L, n, M) /\ Joins(S, n, T) /\ M[n + 1].word = w /\ Flagged(fl, files)
      BY <1>1, <2>1, <2>3, <2>4, <3>1 DEF Parsed, Appended, ReadTyped
    <3>3. CASE w \notin Reader!AllFiles /\ reading' = reading /\ flags' = flags
      <4>1. Once(M, T, fl, files)
        BY <3>2, <3>3, OnceLine
      <4>2. QED
        BY <3>1, <3>3, <4>1
    <3>4. CASE /\ w \in Reader!AllFiles /\ flags[w] = "unread"
               /\ reading' = Append(reading, w) /\ flags' = [flags EXCEPT ![w] = "busy"]
      <4>1. fl[w] = "unread" /\ files2 = Append(files, w) /\ fl2 = [fl EXCEPT ![w] = "busy"]
        BY <3>1, <3>4
      <4>2. Once(M, T, fl2, files2)
        BY <3>2, <3>4, <4>1, OnceSource
      <4>3. QED
        BY <3>1, <4>2
    <3>5. QED
      BY <2>6, <3>3, <3>4 DEF Reads
  <2>11. Fits(log', Len(log'), T, Reader!Added', Reader!Opened', Reader!CurrentFile', takes')
    BY <2>6, <2>7 DEF Reads, LineRead
  <2>12. Parsed(T)'
    BY <2>9, <2>10, <2>11, Zenon DEF Parsed
  <2>13. ReadTyped' /\ (waits' <=> takes' = "if")
    <3>1. Flagged(flags', reading')
      <4>1. Flagged(flags, reading)
        BY <1>1 DEF ReadTyped
      <4>2. CASE reading' = reading /\ flags' = flags
        BY <4>1, <4>2
      <4>3. CASE w \in Reader!AllFiles /\ reading' = Append(reading, w) /\ flags' = [flags EXCEPT ![w] = "busy"]
        BY <4>1, <4>3 DEF Flagged
      <4>4. QED
        BY <2>6, <4>2, <4>3 DEF Reads
    <3>2. log' \in Seq(LogLine)
      BY <2>3 DEF Appended
    <3>3. helping' \in {"no", "begun", "text"} /\ first_ts' \in Nat
      BY <1>3
    <3>4. QED
      BY <2>6, <3>1, <3>2, <3>3 DEF ReadTyped, Reads, LineRead
  <2>14. result' = "reading"
    BY <1>3
  <2>15. QED
    BY <2>8, <2>12, <2>13, <2>14, GoesOn
<1>4. QED
  BY <1>2, <1>3 DEF Reader!Statement

LEMMA TextKeeps ==
  ASSUME ReadInv, result = "reading", helping # "no", NEW w \in WordSet, NEW ts \in 0..2,
         w = "blank" \/ Reader!IsText(ts), Reader!HelpText(w, ts)
  PROVE  ReadInv'
<1>1. /\ ReadTyped /\ reading # <<>> /\ (waits <=> takes = "if")
      /\ \E S : Parsed(S) /\ S \in SUBSET (1..Len(log))
  BY IsReading
<1>2. PICK S : Parsed(S) /\ S \in SUBSET (1..Len(log))
  BY <1>1
<1>3. PICK first : first = IF first_ts = 0 THEN ts ELSE first_ts
  OBVIOUS
<1>4. /\ helping' = "text" /\ first_ts' = first /\ Reader!Logged(w, ts) /\ reading' = reading /\ flags' = flags
      /\ entries' = entries /\ open' = open /\ takes' = takes /\ waits' = waits /\ result' = result
  BY <1>3 DEF Reader!HelpText
<1>5. Appended(w, ts) /\ Len(log') = Len(log) + 1
  <2>1. Appended(w, ts)
    BY <1>1, <1>4, LogGrows DEF WordSet
  <2>2. QED
    BY <2>1 DEF Appended, Grown
<1>6. Reader!CurrentFile' = Reader!CurrentFile
  BY <1>4, Zenon DEF Reader!CurrentFile
<1>7. Reader!Added' = Reader!Added /\ Reader!Opened' = Reader!Opened
  BY <1>4, <1>6, Zenon DEF Reader!Added, Reader!Opened, Reader!Entry
<1>8. PICK L, n, M, fl, file, how, files, E, O, t :
        /\ L = log /\ n = Len(log) /\ M = log' /\ fl = flags /\ file = Reader!CurrentFile /\ how = helping
        /\ files = reading /\ E = Reader!Added /\ O = Reader!Opened /\ t = takes
  OBVIOUS
<1>9. /\ Grown(L, n, M) /\ Helped(L, n, S, fl, file, how, first_ts) /\ Fits(L, n, S, E, O, file, t)
      /\ Once(L, S, fl, files) /\ NewLine(M, n, file, ts) /\ S \in SUBSET (1..n) /\ O \in Seq(Nat)
  BY <1>1, <1>2, <1>5, <1>8, AddedIs DEF Parsed, Appended
<1>10. Helped(M, n + 1, S, fl, file, "text", first)
  <2>1. M[n + 1].word = "blank" \/ MayBeText(how, first_ts, ts)
    BY <1>5, <1>8 DEF Appended, Reader!IsText, MayBeText
  <2>2. Helped(M, n + 1, S, fl, file, "text", IF first_ts = 0 THEN ts ELSE first_ts)
    BY <1>8, <1>9, <2>1, HelpedText
  <2>3. QED
    BY <1>3, <2>2, Zenon
<1>11. Fits(M, n + 1, S, E, O, file, t)
  BY <1>9, FitsText
<1>12. Once(M, S, fl, files)
  BY <1>9, OnceText
<1>13. Parsed(S)'
  <2>1. Helped(log', Len(log'), S, flags', Reader!CurrentFile', helping', first_ts')
    BY <1>4, <1>5, <1>6, <1>8, <1>10
  <2>2. Fits(log', Len(log'), S, Reader!Added', Reader!Opened', Reader!CurrentFile', takes')
    BY <1>4, <1>5, <1>6, <1>7, <1>8, <1>11
  <2>3. Once(log', S, flags', reading')
    BY <1>4, <1>8, <1>12
  <2>4. QED
    BY <2>1, <2>2, <2>3, Zenon DEF Parsed
<1>14. ReadTyped'
  <2>1. first \in Nat
    BY <1>1, <1>3 DEF ReadTyped
  <2>2. QED
    BY <1>1, <1>4, <1>5, <2>1 DEF ReadTyped, Appended
<1>15. QED
  BY <1>1, <1>4, <1>13, <1>14, GoesOn

LEMMA EndFileKeeps ==
  ASSUME ReadInv, Reader!EndFile
  PROVE  ReadInv'
<1>1. /\ result = "reading" /\ Len(reading) > 1 /\ reading' = Reader!Front(reading)
      /\ flags' = [flags EXCEPT ![Reader!CurrentFile] = "scanned"] /\ helping' = "no" /\ first_ts' = 0
      /\ entries' = entries /\ open' = open /\ takes' = takes /\ waits' = waits /\ result' = result /\ log' = log
  BY DEF Reader!EndFile
<1>2. /\ ReadTyped /\ reading # <<>> /\ (waits <=> takes = "if")
      /\ \E S : Parsed(S) /\ S \in SUBSET (1..Len(log))
  BY <1>1, IsReading
<1>3. PICK S : Parsed(S) /\ S \in SUBSET (1..Len(log))
  BY <1>2
<1>4. PICK R \in Seq(Reader!AllFiles) : R = reading
  BY <1>2 DEF ReadTyped, Flagged
<1>5. PICK Q \in Seq(Reader!AllFiles) : /\ Q = Reader!Front(reading) /\ Len(Q) = Len(R) - 1 /\ Q # <<>>
                                    /\ \A i \in 1..Len(R) - 1 : Q[i] = R[i]
  <2>1. PICK n \in Nat, b \in Int : n = Len(R) - 1 /\ b = 1 /\ n > 0
    BY <1>1, <1>4
  <2>2. \A i \in b..n : R[i] \in Reader!AllFiles
    BY <2>1
  <2>3. PICK Q : Q = SubSeq(R, b, n)
    OBVIOUS
  <2>4. /\ SubSeq(R, b, n) \in Seq(Reader!AllFiles) /\ Len(SubSeq(R, b, n)) = IF b <= n THEN n - b + 1 ELSE 0
        /\ \A i \in 1..n - b + 1 : SubSeq(R, b, n)[i] = R[b + i - 1]
    BY <2>2, SubSeqProperties
  <2>5. Q \in Seq(Reader!AllFiles) /\ Len(Q) = n
    <3>1. (IF b <= n THEN n - b + 1 ELSE 0) = n
      BY <2>1
    <3>2. QED
      BY <2>3, <2>4, <3>1, Zenon
  <2>6. ASSUME NEW i \in b..n PROVE Q[i] = R[i]
    BY <2>1, <2>3, <2>4
  <2>7. Q = Reader!Front(reading)
    BY <1>4, <2>1, <2>3 DEF Reader!Front
  <2>8. Q # <<>>
    BY <2>1, <2>5
  <2>9. QED
    BY <2>1, <2>5, <2>6, <2>7, <2>8
<1>6. PICK f \in Reader!AllFiles : f = Reader!CurrentFile /\ f = R[Len(R)]
  BY <1>2, <1>4, CurrentIs
<1>7. PICK g \in Reader!AllFiles : g = Reader!CurrentFile'
  <2>1. Len(Q) \in 1..Len(Q)
    BY <1>5
  <2>2. Reader!CurrentFile' = Q[Len(Q)]
    BY <1>1, <1>5, Zenon DEF Reader!CurrentFile, Reader!Last
  <2>3. QED
    BY <2>1, <2>2
<1>8. PICK fl : fl = [flags EXCEPT ![f] = "scanned"]
  OBVIOUS
<1>9. /\ reading' = Q /\ flags' = fl
  BY <1>1, <1>5, <1>6, <1>8
<1>10. PICK E \in Seq(EntrySet), O \in Seq(Nat) : E = Reader!Added /\ O = Reader!Opened
  BY <1>2, AddedIs
<1>11. Reader!Opened' = O
  BY <1>1, <1>10, Zenon DEF Reader!Opened
<1>12. PICK F \in Seq(EntrySet) : F = Reader!Added' /\ Moves(E, F, takes, g)
  <2>1. CASE ~waits
    <3>1. E = entries /\ takes # "if"
      BY <1>2, <1>10, <2>1, AddedIs
    <3>2. Reader!Added' = E
      BY <1>1, <2>1, <3>1, Zenon DEF Reader!Added
    <3>3. Moves(E, E, takes, g)
      BY <3>1 DEF Moves
    <3>4. QED
      BY <3>2, <3>3
  <2>2. CASE waits
    <3>1. PICK B, e : /\ B \in Seq(EntrySet) /\ B = entries /\ e = Reader!Entry("if", open)
                      /\ E = Append(B, e) /\ takes = "if"
      BY <1>2, <1>10, <2>2, AddedIs DEF ReadTyped
    <3>2. PICK w \in Reader!Starters : w = "if"
      BY DEF Reader!Starters, Reader!Blocks
    <3>3. e \in EntrySet /\ e.kind = w
      BY <1>2, <3>1, <3>2, EntryIs DEF ReadTyped
    <3>4. PICK d : d = [kind |-> w, up |-> e.up, file |-> g, opts |-> <<>>]
      OBVIOUS
    <3>5. d \in EntrySet /\ d.kind = w /\ d.up = e.up /\ d.file = g /\ d.opts = <<>>
      BY <3>3, <3>4 DEF EntrySet
    <3>6. e.opts = <<>>
      BY <1>2, <3>1, <3>2, EntryIs DEF ReadTyped
    <3>7. Reader!Added' = Append(B, d)
      <4>1. PICK u : u = IF open = <<>> THEN 0 ELSE Reader!Last(open)
        OBVIOUS
      <4>2. Reader!Entry("if", open) = [kind |-> "if", up |-> u, file |-> Reader!CurrentFile, opts |-> <<>>]
        BY <4>1, Zenon DEF Reader!Entry
      <4>3. u = e.up
        BY <3>1, <4>2
      <4>4. Reader!Entry("if", open)' = [kind |-> "if", up |-> u, file |-> Reader!CurrentFile', opts |-> <<>>]
        BY <1>1, <4>1, Zenon DEF Reader!Entry
      <4>5. Reader!Entry("if", open)' = d
        BY <1>7, <3>2, <3>4, <4>3, <4>4
      <4>6. Reader!Added' = Append(entries', Reader!Entry("if", open)')
        BY <1>1, <2>2, Zenon DEF Reader!Added
      <4>7. QED
        BY <1>1, <3>1, <4>5, <4>6
    <3>8. PICK F : F = Append(B, d)
      OBVIOUS
    <3>9. /\ F \in Seq(EntrySet) /\ Len(B) \in Nat /\ Len(F) = Len(B) + 1 /\ Len(E) = Len(B) + 1
          /\ F[Len(B) + 1] = d /\ E[Len(B) + 1] = e /\ \A i \in 1..Len(B) : F[i] = B[i] /\ E[i] = B[i]
      BY <3>1, <3>3, <3>5, <3>8
    <3>10. ASSUME NEW i \in 1..Len(E)
           PROVE  /\ F[i].kind = E[i].kind /\ F[i].up = E[i].up /\ F[i].opts = E[i].opts
                  /\ F[i].file = E[i].file \/ (takes = "if" /\ i = Len(E))
      <4>1. CASE i = Len(E)
        BY <3>1, <3>3, <3>5, <3>6, <3>9, <4>1
      <4>2. CASE i # Len(E)
        <5>1. i \in 1..Len(B)
          BY <3>9, <4>2
        <5>2. QED
          BY <3>9, <5>1
      <4>3. QED
        BY <4>1, <4>2
    <3>11. F[Len(E)].file = g
      BY <3>5, <3>9
    <3>12. Moves(E, F, takes, g)
      BY <3>9, <3>10, <3>11 DEF Moves
    <3>13. QED
      BY <3>7, <3>8, <3>9, <3>12
  <2>3. QED
    BY <2>1, <2>2
<1>13. PICK L, n, flo, how, first, t :
         L = log /\ n = Len(log) /\ flo = flags /\ how = helping /\ first = first_ts /\ t = takes
  OBVIOUS
<1>14. /\ Helped(L, n, S, flo, f, how, first) /\ Fits(L, n, S, E, O, f, t) /\ Once(L, S, flo, R) /\ Flagged(flo, R)
       /\ \A k \in S : L[k].file \in Reader!AllFiles
  <2>1. /\ Helped(L, n, S, flo, f, how, first) /\ Fits(L, n, S, E, O, f, t) /\ Once(L, S, flo, R)
    BY <1>3, <1>4, <1>6, <1>10, <1>13 DEF Parsed
  <2>2. Flagged(flo, R)
    BY <1>2, <1>4, <1>13 DEF ReadTyped
  <2>3. L \in Seq(LogLine) /\ n = Len(L)
    BY <1>2, <1>13 DEF ReadTyped
  <2>4. \A k \in S : L[k] \in LogLine
    BY <1>3, <1>13, <2>3
  <2>5. QED
    BY <2>1, <2>2, <2>4 DEF LogLine
<1>15. Helped(L, n, S, fl, g, "no", 0)
  <2>1. Helped(L, n, S, [flo EXCEPT ![f] = "scanned"], g, "no", 0)
    BY <1>14, HelpedFile
  <2>2. QED
    BY <1>8, <1>13, <2>1, Zenon
<1>16. Once(L, S, fl, Q)
  <2>1. Len(R) > 1
    BY <1>1, <1>4
  <2>2. Once(L, S, [flo EXCEPT ![R[Len(R)]] = "scanned"], Q)
    BY <1>5, <1>14, <2>1, OnceFile
  <2>3. QED
    BY <1>6, <1>8, <1>13, <2>2, Zenon
<1>17. Fits(L, n, S, F, O, g, t)
  BY <1>12, <1>13, <1>14, FitsFile
<1>18. Parsed(S)'
  <2>1. Helped(log', Len(log'), S, flags', Reader!CurrentFile', helping', first_ts')
    BY <1>1, <1>7, <1>9, <1>13, <1>15
  <2>2. Fits(log', Len(log'), S, Reader!Added', Reader!Opened', Reader!CurrentFile', takes')
    BY <1>1, <1>7, <1>11, <1>12, <1>13, <1>17
  <2>3. Once(log', S, flags', reading')
    BY <1>1, <1>9, <1>13, <1>16
  <2>4. QED
    BY <2>1, <2>2, <2>3, Zenon DEF Parsed
<1>19. ReadTyped'
  <2>1. flags' \in [Reader!AllFiles -> {"unread", "busy", "scanned"}]
    BY <1>2, <1>8, <1>9 DEF ReadTyped, Flagged
  <2>2. Flagged(flags', reading')
    BY <1>9, <2>1 DEF Flagged
  <2>3. QED
    BY <1>1, <1>2, <2>2 DEF ReadTyped
<1>20. QED
  BY <1>1, <1>2, <1>5, <1>9, <1>18, <1>19, GoesOn

\* After the root file nothing waits and no block is open.
LEMMA AcceptedIsWritten ==
  ASSUME ReadTyped, reading # <<>>, NEW S, Parsed(S), S \in SUBSET (1..Len(log)), ~waits, open = <<>>
  PROVE  Reader!Written(log, entries)
<1>1. Reader!Added = entries /\ Reader!Opened = open
  BY AddedIs
<1>2. PICK L, n, E, O, file, t, how, first :
        /\ L = log /\ L \in Seq(LogLine) /\ n = Len(log) /\ E = entries /\ O = open
        /\ file = Reader!CurrentFile /\ t = takes /\ how = helping /\ first = first_ts
  BY DEF ReadTyped
<1>3. /\ Helped(L, n, S, flags, file, how, first) /\ Fits(L, n, S, E, O, file, t) /\ Once(L, S, flags, reading)
  BY <1>1, <1>2 DEF Parsed
<1>4. S \in SUBSET DOMAIN L
  BY <1>2
<1>5. Reader!AreSaid(L, S)
  BY <1>3 DEF Helped
<1>6. /\ Len(E) = Reader!Number(L, S, Len(L))
      /\ \A k \in S : L[k].word \in Reader!Starters => Reader!Says(L, S, k, E[Reader!Number(L, S, k)])
  BY <1>2, <1>3 DEF Fits, Entered
<1>7. \A k \in S : L[k].word \in Reader!Blocks => Reader!IsEnded(L, S, k)
  <2>1. ~\E i \in 1..Len(O) : TRUE
    BY <1>2
  <2>2. PICK p : Nested(L, n, S, O, p)
    BY <1>3 DEF Fits
  <2>3. QED
    BY <2>1, <2>2 DEF Nested
<1>8. \A k, m \in S : L[k].word \in Reader!AllFiles => L[k].word # Top /\ (L[m].word = L[k].word => m = k)
  BY <1>3 DEF Once
<1>9. Reader!Written(L, E)
  BY <1>4, <1>5, <1>6, <1>7, <1>8, Zenon DEF Reader!Written
<1>10. QED
  BY <1>2, <1>9

LEMMA EndRootKeeps ==
  ASSUME ReadInv, Reader!EndRoot
  PROVE  ReadInv'
<1>1. /\ result = "reading" /\ reading' = <<>> /\ flags' = [flags EXCEPT ![Top] = "scanned"] /\ helping' = "no"
      /\ first_ts' = 0 /\ takes' = "none" /\ entries' = entries /\ open' = open /\ waits' = waits /\ log' = log
      /\ result' = CASE waits -> "crashed" [] ~waits /\ open = <<>> -> "accepted" [] OTHER -> "refused"
  BY DEF Reader!EndRoot
<1>2. /\ ReadTyped /\ reading # <<>> /\ \E S : Parsed(S) /\ S \in SUBSET (1..Len(log))
  BY <1>1, IsReading
<1>3. ReadTyped'
  <2>1. Flagged(flags', reading')
    <3>1. flags \in [Reader!AllFiles -> {"unread", "busy", "scanned"}]
      BY <1>2 DEF ReadTyped, Flagged
    <3>2. flags' \in [Reader!AllFiles -> {"unread", "busy", "scanned"}]
      BY <1>1, <3>1
    <3>3. reading' \in Seq(Reader!AllFiles)
      BY <1>1
    <3>4. QED
      BY <3>2, <3>3 DEF Flagged
  <2>2. takes' \in DOMAIN Reader!Options
    BY <1>1 DEF Reader!Options
  <2>3. helping' \in {"no", "begun", "text"} /\ first_ts' \in Nat
    BY <1>1
  <2>4. QED
    BY <1>1, <1>2, <2>1, <2>2, <2>3 DEF ReadTyped
<1>4. CASE ~waits /\ open = <<>>
  <2>1. Reader!Written(log, entries)
    BY <1>2, <1>4, AcceptedIsWritten
  <2>2. Reader!Written(log, entries)'
    BY <1>1, <2>1, Zenon
  <2>3. Reader!ReadAsWritten'
    BY <2>2, Zenon DEF Reader!ReadAsWritten
  <2>4. result' = "accepted"
    BY <1>1, <1>4
  <2>5. QED
    BY <1>3, <2>3, <2>4, Stops
<1>5. CASE ~(~waits /\ open = <<>>)
  <2>1. result' \in {"crashed", "refused"}
    <3>1. CASE waits
      BY <1>1, <3>1
    <3>2. CASE ~waits
      BY <1>1, <1>5, <3>2
    <3>3. QED
      BY <3>1, <3>2
  <2>2. QED
    BY <1>3, <2>1, NotAccepted, Stops
<1>6. QED
  BY <1>4, <1>5

LEMMA ReadBegins ==
  ASSUME Reader!ReadInit
  PROVE  ReadInv
<1>1. /\ reading = <<Top>> /\ flags = [f \in Reader!AllFiles |-> IF f = Top THEN "busy" ELSE "unread"]
      /\ entries = <<>> /\ open = <<>> /\ takes = "none" /\ waits = FALSE
      /\ helping = "no" /\ first_ts = 0 /\ result = "reading" /\ log = <<>>
  BY DEF Reader!ReadInit
<1>2. Top \in Reader!AllFiles
  BY DEF Reader!AllFiles
<1>3. ReadTyped
  <2>1. Flagged(flags, reading)
    BY <1>1, <1>2 DEF Flagged
  <2>2. takes \in DOMAIN Reader!Options
    BY <1>1 DEF Reader!Options
  <2>3. entries \in Seq(EntrySet) /\ open \in Seq(Nat) /\ log \in Seq(LogLine)
    BY <1>1
  <2>4. helping \in {"no", "begun", "text"} /\ first_ts \in Nat /\ waits \in BOOLEAN
    BY <1>1
  <2>5. QED
    BY <2>1, <2>2, <2>3, <2>4 DEF ReadTyped
<1>4. reading # <<>> /\ (waits <=> takes = "if")
  BY <1>1
<1>5. Reader!Added = entries /\ Reader!Opened = open
  BY <1>1, <1>3, <1>4, AddedIs
<1>6. PICK L, n, S : L = log /\ n \in Nat /\ n = 0 /\ S = {} /\ n = Len(L) /\ S \in SUBSET (1..n)
  <2>1. Len(log) = 0
    BY <1>1
  <2>2. PICK L, n, S : L = log /\ n = 0 /\ S = {}
    OBVIOUS
  <2>3. n = Len(L) /\ S \in SUBSET (1..n)
    BY <2>1, <2>2
  <2>4. QED
    BY <2>2, <2>3, Zenon
<1>7. DOMAIN L = 1..n /\ ~\E k \in 1..n : TRUE
  BY <1>1, <1>6
<1>8. Helped(L, n, S, flags, Reader!CurrentFile, helping, first_ts)
  <2>1. Reader!AreSaid(L, S)
    BY <1>7 DEF Reader!AreSaid
  <2>2. QED
    BY <1>1, <1>6, <1>7, <2>1 DEF Helped
<1>9. Fits(L, n, S, entries, open, Reader!CurrentFile, takes)
  <2>1. Len(entries) = Reader!Number(L, S, n)
    <3>1. Reader!Number(L, S, n) = Cardinality({m \in S : m \in 1..n /\ L[m].word \in Reader!Starters})
      BY CountIs DEF Reader!Number
    <3>2. {m \in S : m \in 1..n /\ L[m].word \in Reader!Starters} = {}
      BY <1>6
    <3>3. Cardinality({}) = 0
      BY FS_EmptySet
    <3>4. QED
      BY <1>1, <3>1, <3>2, <3>3
  <2>2. Entered(L, n, S, entries)
    BY <1>6, <2>1 DEF Entered
  <2>3. Filed(L, S, entries)
    BY <1>6 DEF Filed
  <2>4. \E p : Nested(L, n, S, open, p)
    <3>1. PICK p : p = [i \in 1..Len(open) |-> 0]
      OBVIOUS
    <3>2. ~\E i \in 1..Len(open) : TRUE
      BY <1>1
    <3>3. p \in [1..Len(open) -> S]
      BY <3>1, <3>2
    <3>4. QED
      BY <1>6, <3>2, <3>3 DEF Nested
  <2>5. takes = "none" /\ ~\E k \in S : TRUE
    BY <1>1, <1>6
  <2>6. QED
    BY <1>6, <2>2, <2>3, <2>4, <2>5 DEF Fits
<1>10. Once(L, S, flags, reading)
  <2>1. \A i \in 1..Len(reading) : i = 1 /\ reading[i] = Top
    BY <1>1
  <2>2. flags[Top] = "busy"
    BY <1>1, <1>2
  <2>3. QED
    BY <1>6, <2>1, <2>2 DEF Once
<1>11. Parsed(S)
  BY <1>5, <1>6, <1>8, <1>9, <1>10 DEF Parsed
<1>12. Reader!ReadAsWritten
  BY <1>1 DEF Reader!ReadAsWritten
<1>13. QED
  BY <1>3, <1>4, <1>11, <1>12 DEF ReadInv

LEMMA ReadStutters ==
  ASSUME ReadInv, UNCHANGED Reader!readVars
  PROVE  ReadInv'
<1>1. /\ reading' = reading /\ flags' = flags /\ entries' = entries /\ open' = open /\ takes' = takes
      /\ waits' = waits /\ helping' = helping /\ first_ts' = first_ts /\ result' = result /\ log' = log
  BY DEF Reader!readVars
<1>2. QED
  BY <1>1, Zenon DEF ReadInv, ReadTyped, Reader!ReadAsWritten, Parsed, Reader!Added, Reader!Opened, Reader!Entry,
    Reader!CurrentFile

\* What conf_parse accepts is what the lines say: whatever the statements, the help
\* texts and the files that they source, and wherever the files end.
THEOREM LinesAreRead == Reader!ReadSpec => []ReadAsWritten
<1>1. Reader!ReadInit => ReadInv
  BY ReadBegins
<1>2. ReadInv /\ [Reader!ReadNext]_Reader!readVars => ReadInv'
  <2>1. SUFFICES ASSUME ReadInv, [Reader!ReadNext]_Reader!readVars PROVE ReadInv'
    OBVIOUS
  <2>2. CASE Reader!ReadLine
    <3>1. PICK w \in Words \cup Reader!AllFiles : Reader!Statement(w, 0) /\ helping = "no" /\ result = "reading"
      BY <2>2 DEF Reader!ReadLine, Reader!Reads
    <3>2. PICK ts \in 0..2 : ts = 0
      OBVIOUS
    <3>3. QED
      BY <2>1, <3>1, <3>2, StatementKeeps DEF WordSet
  <2>3. CASE Reader!ReadInHelp
    <3>1. PICK w \in TextWords, ts \in 0..2 :
            IF Reader!IsText(ts) THEN Reader!HelpText(w, ts) ELSE Reader!Statement(w, ts)
      BY <2>3 DEF Reader!ReadInHelp
    <3>2. helping # "no" /\ result = "reading" /\ w \in WordSet
      BY <2>3 DEF Reader!ReadInHelp, Reader!Reads, WordSet
    <3>3. CASE Reader!IsText(ts)
      BY <2>1, <3>1, <3>2, <3>3, TextKeeps
    <3>4. CASE ~Reader!IsText(ts)
      BY <2>1, <3>1, <3>2, <3>4, StatementKeeps
    <3>5. QED
      BY <3>3, <3>4
  <2>4. CASE Reader!ReadBlank
    <3>1. PICK w \in WordSet, ts \in 0..2 : w = "blank" /\ ts = 0
      BY DEF WordSet
    <3>2. Reader!HelpText(w, ts) /\ helping # "no" /\ result = "reading"
      BY <2>4, <3>1 DEF Reader!ReadBlank, Reader!Reads
    <3>3. QED
      BY <2>1, <3>1, <3>2, TextKeeps
  <2>5. CASE Reader!EndFile
    BY <2>1, <2>5, EndFileKeeps
  <2>6. CASE Reader!EndRoot
    BY <2>1, <2>6, EndRootKeeps
  <2>7. CASE UNCHANGED Reader!readVars
    BY <2>1, <2>7, ReadStutters
  <2>8. QED
    BY <2>1, <2>2, <2>3, <2>4, <2>5, <2>6, <2>7 DEF Reader!ReadNext
<1>3. ReadInv => ReadAsWritten
  BY DEF ReadInv, ReadAsWritten
<1>4. QED
  BY <1>1, <1>2, <1>3, PTL DEF Reader!ReadSpec
=============================================================================
