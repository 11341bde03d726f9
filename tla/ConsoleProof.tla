---------------------------- MODULE ConsoleProof ----------------------------
(***************************************************************************)
(* For every size of screen and buffer the console writes inside its       *)
(* buffer, which implements a sheet of paper; the screen shows the lines   *)
(* from the current one on; and a redraw shows no line before it is begun. *)
(***************************************************************************)
EXTENDS Console, SequenceTheorems, TLAPS

\* buffer_y never decreases, so the end a redraw has fixed stays in the text.
IInv == TypeInv /\ RedrawsText

\* A tab stop is at most the edge of the screen, for TAB divides its width.
LEMMA NextStopInRow ==
    ASSUME NEW x \in Columns
    PROVE  NextStop(x) \in 0 .. BUFF_WIDTH
<1> DEFINE q == BUFF_WIDTH \div TAB
           p == (x + TAB) \div TAB
<1>1. q \in Nat /\ BUFF_WIDTH = q * TAB
  BY ConsoleAssumption
<1>2. p \in Nat /\ p * TAB <= x + TAB /\ x \in Nat /\ x < BUFF_WIDTH
  BY ConsoleAssumption DEF Columns
<1>3. p * TAB < (q + 1) * TAB
  BY <1>1, <1>2, ConsoleAssumption
<1>4. p < q + 1
  BY <1>1, <1>2, <1>3, ConsoleAssumption
<1>5. p * TAB <= q * TAB
  BY <1>1, <1>2, <1>4, ConsoleAssumption
<1>6. NextStop(x) = p * TAB
  BY DEF NextStop
<1>7. p * TAB \in Nat
  BY <1>2, ConsoleAssumption
<1> HIDE DEF p, q
<1> QED BY <1>1, <1>5, <1>6, <1>7, ConsoleAssumption

\* What the assumption says of the numbers alone.
LEMMA Sizes ==
    /\ BUFF_WIDTH \in Nat /\ BUFF_WIDTH >= 1
    /\ CON_HIGH \in Nat /\ CON_HIGH >= 1
    /\ BUFF_HIGH \in Nat /\ BUFF_HIGH >= 2 /\ CON_HIGH < BUFF_HIGH
    /\ WORD \in Nat /\ WORD > 2 * BUFF_HIGH
BY ConsoleAssumption

LEMMA InitIInv == Init => IInv
<1> SUFFICES ASSUME Init PROVE IInv
  OBVIOUS
<1>1. 0 \in Lines /\ 0 \in 0 .. BUFF_HIGH - 2 /\ 0 \in Columns /\ 0 \in 0 .. CON_HIGH
  BY Sizes DEF Lines, Columns
<1>2. video_buffer \in [Rows -> [Columns -> Letters \cup {Blank}]]
  BY DEF Init, BlankRow
<1>3. screen \in [0 .. CON_HIGH - 1 -> [Columns -> Letters \cup {Blank}]]
  BY DEF Init, BlankRow
<1>4. TypeInv
  BY <1>1, <1>2, <1>3 DEF Init, TypeInv
<1> QED BY <1>4 DEF Init, IInv, RedrawsText

\* A row of the buffer's type.
Row == [Columns -> Letters \cup {Blank}]

LEMMA BlankRowType == BlankRow \in Row
BY DEF BlankRow, Row

\* Scrolling keeps the position in the rows that are used, and never moves it up.
LEMMA ScrollSafe ==
    ASSUME TypeInv,
           NEW b \in [Rows -> Row], NEW y \in 0 .. BUFF_HIGH - 1,
           y >= buffer_y, Scroll(b, y)
    PROVE  /\ video_buffer' \in [Rows -> Row]
           /\ buffer_y' \in 0 .. BUFF_HIGH - 2
           /\ buffer_y' >= buffer_y
<1>1. buffer_y \in 0 .. BUFF_HIGH - 2 /\ BUFF_HIGH \in Nat /\ BUFF_HIGH > 1
  <2>1. buffer_y \in 0 .. BUFF_HIGH - 2
    BY DEF TypeInv
  <2> QED BY <2>1, Sizes
<1>2. CASE y = BUFF_HIGH - 1
  <2>1. \A r \in Rows : r # y => r + 1 \in Rows
    BY <1>1, <1>2 DEF Rows
  <2>2. \A r \in Rows : (IF r = y THEN BlankRow ELSE b[r + 1]) \in Row
    BY <2>1, BlankRowType
  <2>3. video_buffer' = [r \in Rows |-> IF r = y THEN BlankRow ELSE b[r + 1]]
    BY <1>2 DEF Scroll
  <2>4. video_buffer' \in [Rows -> Row]
    BY <2>2, <2>3
  <2>5. buffer_y' = y - 1
    BY <1>2 DEF Scroll
  <2> QED BY <1>1, <1>2, <2>4, <2>5
<1>3. CASE y # BUFF_HIGH - 1
  BY <1>1, <1>3 DEF Scroll
<1> QED BY <1>2, <1>3

LEMMA SettleSafe ==
    ASSUME TypeInv,
           NEW b \in [Rows -> Row], NEW x \in 0 .. BUFF_WIDTH, Settle(b, x)
    PROVE  /\ video_buffer' \in [Rows -> Row]
           /\ buffer_x' \in Columns
           /\ buffer_y' \in 0 .. BUFF_HIGH - 2
           /\ buffer_y' >= buffer_y
<1>1. buffer_y \in 0 .. BUFF_HIGH - 2 /\ BUFF_HIGH \in Nat
  BY ConsoleAssumption DEF TypeInv
<1>2. buffer_y \in 0 .. BUFF_HIGH - 1 /\ buffer_y + 1 \in 0 .. BUFF_HIGH - 1
  BY <1>1
<1>3. buffer_x' \in Columns
  BY ConsoleAssumption DEF Settle, Columns
<1>4. CASE x = BUFF_WIDTH
  <2>1. Scroll(b, buffer_y + 1)
    BY <1>4 DEF Settle
  <2> QED BY <1>1, <1>2, <1>3, <2>1, ScrollSafe
<1>5. CASE x # BUFF_WIDTH
  <2>1. Scroll(b, buffer_y)
    BY <1>5 DEF Settle
  <2> QED BY <1>1, <1>2, <1>3, <2>1, ScrollSafe
<1> QED BY <1>4, <1>5

\* Every character leaves the position inside the buffer.
LEMMA PutcSafe ==
    ASSUME TypeInv, Putc
    PROVE  /\ video_buffer' \in [Rows -> Row]
           /\ buffer_x' \in Columns
           /\ buffer_y' \in 0 .. BUFF_HIGH - 2
           /\ buffer_y' >= buffer_y
<1>1. /\ video_buffer \in [Rows -> Row] /\ buffer_x \in Columns
      /\ buffer_y \in 0 .. BUFF_HIGH - 2
  BY DEF TypeInv, Row
<1>2. buffer_y \in Rows /\ buffer_x \in 0 .. BUFF_WIDTH /\ 0 \in 0 .. BUFF_WIDTH /\ 0 \in Columns
      /\ buffer_x + 1 \in 0 .. BUFF_WIDTH
      /\ (buffer_x > 0 => buffer_x - 1 \in 0 .. BUFF_WIDTH)
  BY <1>1, ConsoleAssumption DEF Rows, Columns
<1>3. ASSUME NEW c \in Letters, PutLetter(c)
      PROVE  [video_buffer EXCEPT ![buffer_y][buffer_x] = c] \in [Rows -> Row]
  BY <1>1, <1>2 DEF Row
<1>4. CASE \E c \in Letters : PutLetter(c)
  BY <1>2, <1>3, <1>4, SettleSafe DEF PutLetter
<1>5. CASE PutTab
  BY <1>1, <1>5, NextStopInRow, SettleSafe DEF PutTab
<1>6. CASE PutReturn
  BY <1>1, <1>2, <1>6, SettleSafe DEF PutReturn
<1>7. CASE PutBackSpace
  BY <1>1, <1>2, <1>7, SettleSafe DEF PutBackSpace
<1>8. CASE PutLineFeed
  <2>1. buffer_y + 1 \in 0 .. BUFF_HIGH - 1 /\ buffer_y + 1 >= buffer_y
    BY <1>1, ConsoleAssumption
  <2>2. buffer_x' \in Columns /\ Scroll(video_buffer, buffer_y + 1)
    BY <1>2, <1>8 DEF PutLineFeed
  <2> QED BY <1>1, <2>1, <2>2, ScrollSafe
<1> QED BY <1>4, <1>5, <1>6, <1>7, <1>8 DEF Putc

\* A row of the screen is a row of the buffer, or blank.
LEMMA PictureType ==
    ASSUME TypeInv, NEW begin \in Nat, NEW end \in Nat, end <= buffer_y + 1, NEW i \in Nat
    PROVE  Picture(begin, end, i) \in Row
<1>1. buffer_y \in 0 .. BUFF_HIGH - 2
  BY DEF TypeInv
<1>2. begin + i < end => begin + i \in Rows
  BY <1>1, Sizes DEF Rows
<1> QED BY <1>2, BlankRowType DEF Picture, TypeInv, Row

LEMMA StepIInv == IInv /\ [Next]_vars => IInv'
<1> SUFFICES ASSUME IInv, [Next]_vars PROVE IInv'
  OBVIOUS
<1> USE DEF IInv
<1>1. /\ 0 \in Lines /\ buffer_y \in Lines /\ buffer_y + 1 \in Lines
      /\ (current_line + WORD - 1) % WORD \in Lines /\ (current_line + 1) % WORD \in Lines
      /\ Lines \subseteq Nat /\ 0 \in 0 .. CON_HIGH
      /\ LastView \in Lines
  <2>1. buffer_y \in 0 .. BUFF_HIGH - 2 /\ current_line \in 0 .. WORD - 1
    BY DEF TypeInv, Lines
  <2>2. /\ 0 \in Lines /\ buffer_y \in Lines /\ buffer_y + 1 \in Lines
        /\ Lines \subseteq Nat /\ 0 \in 0 .. CON_HIGH
    BY <2>1, Sizes DEF Lines
  <2>3. LastView \in Lines
    BY <2>1, Sizes DEF Lines, LastView
  <2>4. \A n \in Nat : n % WORD \in Lines
    BY Sizes DEF Lines
  <2>5. current_line + WORD - 1 \in Nat /\ current_line + 1 \in Nat
    BY <2>1, Sizes
  <2> QED BY <2>2, <2>3, <2>4, <2>5
<1>2. CASE Write
  <2>1. (pc \in {"end", "copy"}) \in BOOLEAN
    OBVIOUS
  <2>2. overtaken' \in BOOLEAN /\ printing' \in BOOLEAN
    BY <1>2, <2>1 DEF Write
  <2> QED BY <1>2, <2>2 DEF Write, TypeInv, RedrawsText, buffer, reader
<1>3. CASE Putc
  <2>1. TypeInv'
    BY <1>3, PutcSafe DEF Putc, TypeInv, reader, Row
  <2>2. pc = "copy" => end_line' <= buffer_y' + 1
    BY <1>1, <1>3, PutcSafe DEF Putc, TypeInv, RedrawsText, reader
  <2> QED BY <1>3, <2>1, <2>2 DEF Putc, RedrawsText, reader
<1>4. CASE Flush
  <2>1. \A i \in Nat : Picture(LastView, buffer_y + 1, i) \in Row
    BY <1>1, PictureType
  <2>2. screen' \in [0 .. CON_HIGH - 1 -> Row]
    <3>1. DOMAIN screen = 0 .. CON_HIGH - 1
      BY DEF TypeInv
    <3>2. \A i \in 0 .. CON_HIGH - 1 : i \in Nat
      BY Sizes
    <3>3. screen' = [i \in 0 .. CON_HIGH - 1 |-> Picture(LastView, buffer_y + 1, i)]
      BY <1>4, <3>1 DEF Flush
    <3> QED BY <2>1, <3>2, <3>3
  <2> QED BY <1>1, <1>4, <2>2 DEF Flush, TypeInv, RedrawsText, buffer, reader, Row
<1>5. CASE Key \/ UpTest \/ DownLoad \/ DownTest \/ Choose \/ Store \/ Begin
  <2>1. TypeInv'
    BY <1>1, <1>5 DEF Key, UpTest, DownLoad, DownTest, Choose, Store, Begin, At, Goto,
                      TypeInv, buffer
  <2>2. pc' # "copy"
    BY <1>5 DEF Key, UpTest, DownLoad, DownTest, Choose, Store, Begin, At, Goto
  <2> QED BY <2>1, <2>2 DEF RedrawsText
<1>6. CASE End
  BY <1>1, <1>6 DEF End, At, Goto, TypeInv, RedrawsText, buffer
<1>7. CASE Copy
  <2>1. shown \in 0 .. CON_HIGH - 1 /\ shown + 1 \in 0 .. CON_HIGH /\ shown \in Nat
    <3>1. shown \in 0 .. CON_HIGH /\ shown < CON_HIGH
      BY <1>7 DEF Copy, TypeInv
    <3> QED BY <3>1, Sizes
  <2>2. Picture(begin_line, end_line, shown) \in Row
    BY <1>1, <1>7, <2>1, PictureType DEF Copy, At, TypeInv, RedrawsText
  <2>3. screen' \in [0 .. CON_HIGH - 1 -> Row]
    BY <1>7, <2>1, <2>2 DEF Copy, TypeInv, Row
  <2> QED BY <1>7, <2>1, <2>3 DEF Copy, TypeInv, RedrawsText, buffer, Row
<1>8. CASE Copied
  BY <1>1, <1>8 DEF Copied, Goto, TypeInv, RedrawsText, buffer
<1>9. CASE UNCHANGED vars
  BY <1>9 DEF vars, buffer, reader, TypeInv, RedrawsText
<1> QED BY <1>2, <1>3, <1>4, <1>5, <1>6, <1>7, <1>8, <1>9 DEF Next, Reader, Printer

THEOREM Invariance == Spec => []IInv
BY InitIInv, StepIInv, PTL DEF Spec

\* No character is ever put outside the buffer, for every width that the tab
\* stops divide, every height, and every interleaving of printing and viewing.
THEOREM WritesInBuffer == Spec => []TypeInv
<1>1. IInv => TypeInv
  BY DEF IInv
<1> QED BY <1>1, Invariance, PTL

\* A redraw that threads have overtaken shows no line before it is begun.
THEOREM RedrawIsText == Spec => []RedrawsText
<1>1. IInv => RedrawsText
  BY DEF IInv
<1> QED BY <1>1, Invariance, PTL

-----------------------------------------------------------------------------
(* The screen and the buffer.                                               *)

\* Between two keys the screen is what a redraw has copied; a redraw that nobody has
\* overtaken copies what is current: the line and the end it fixed still hold.
RedrawIsCurrent ==
    /\ pc # "copy" => shown = 0
    /\ pc \in {"end", "copy"} /\ ~overtaken => ~printing /\ begin_line = current_line
    /\ pc = "copy" /\ ~overtaken =>
        /\ end_line = buffer_y + 1
        /\ \A i \in 0 .. shown - 1 : screen[i] = Picture(begin_line, end_line, i)

ScreenInv == IInv /\ RedrawIsCurrent /\ ScreenIsView

LEMMA ScreenInitially == Init => ScreenInv
<1> SUFFICES ASSUME Init PROVE ScreenInv
  OBVIOUS
<1>1. RedrawIsCurrent
  BY DEF Init, RedrawIsCurrent
<1>2. ASSUME NEW i \in 0 .. CON_HIGH - 1
      PROVE  screen[i] = Picture(current_line, buffer_y + 1, i)
  <2>1. 0 \in Rows
    BY Sizes DEF Rows
  <2>2. current_line + i < buffer_y + 1 => video_buffer[current_line + i] = BlankRow
    <3>1. i \in Nat
      BY Sizes
    <3> QED  BY <2>1, <3>1 DEF Init
  <2>3. screen[i] = BlankRow
    BY DEF Init
  <2> QED  BY <2>2, <2>3 DEF Picture
<1> QED  BY <1>1, <1>2, InitIInv DEF ScreenInv, ScreenIsView

LEMMA ScreenStep == ScreenInv /\ [Next]_vars => ScreenInv'
<1> SUFFICES ASSUME ScreenInv, [Next]_vars PROVE RedrawIsCurrent' /\ ScreenIsView'
  BY StepIInv DEF ScreenInv
<1> USE DEF ScreenInv
<1>1. TypeInv /\ shown \in 0 .. CON_HIGH /\ CON_HIGH \in Nat
      /\ DOMAIN screen = 0 .. CON_HIGH - 1
  BY Sizes DEF IInv, TypeInv
<1>2. CASE Write
  <2>1. UNCHANGED <<video_buffer, buffer_x, buffer_y, current_line, screen, pc, begin_line,
                    end_line, shown>>
        /\ printing' = TRUE /\ overtaken' = (pc \in {"end", "copy"})
    BY <1>2 DEF Write, buffer, reader
  <2> QED  BY <2>1 DEF RedrawIsCurrent, ScreenIsView
<1>3. CASE Putc
  <2>1. printing /\ UNCHANGED <<current_line, screen, printing, pc, begin_line, end_line,
                                shown, overtaken>>
    BY <1>3 DEF Putc, reader
  <2>2. ~ (pc \in {"end", "copy"} /\ ~overtaken)
    BY <2>1 DEF RedrawIsCurrent
  <2> QED  BY <2>1, <2>2 DEF RedrawIsCurrent, ScreenIsView
<1>4. CASE Flush
  <2>1. /\ printing /\ printing' = FALSE
        /\ current_line' = LastView
        /\ screen' = [i \in DOMAIN screen |-> Picture(LastView, buffer_y + 1, i)]
        /\ UNCHANGED <<video_buffer, buffer_y, pc, begin_line, end_line, shown, overtaken>>
    BY <1>4 DEF Flush, buffer, reader
  <2>2. ~ (pc \in {"end", "copy"} /\ ~overtaken)
    BY <2>1 DEF RedrawIsCurrent
  <2>3. RedrawIsCurrent'
    BY <2>1, <2>2 DEF RedrawIsCurrent
  <2>4. \A i \in 0 .. CON_HIGH - 1 :
            screen'[i] = Picture(current_line, buffer_y + 1, i)'
    BY <1>1, <2>1 DEF Picture
  <2> QED  BY <2>3, <2>4 DEF ScreenIsView
<1>5. CASE Key \/ UpTest \/ DownLoad \/ DownTest \/ Choose \/ Store
  <2>1. /\ pc \notin {"end", "copy"} /\ pc' \notin {"end", "copy", "rest"}
        /\ shown' = shown
    BY <1>5 DEF Key, UpTest, DownLoad, DownTest, Choose, Store, At, Goto
  <2> QED  BY <2>1 DEF RedrawIsCurrent, ScreenIsView
<1>6. CASE Begin
  <2>1. ~printing /\ pc = "begin" /\ begin_line' = current_line /\ pc' = "end"
        /\ UNCHANGED <<current_line, printing, shown>>
    BY <1>6 DEF Begin, At, Goto
  <2> QED  BY <2>1 DEF RedrawIsCurrent, ScreenIsView
<1>7. CASE End
  <2>1. /\ pc = "end" /\ pc' = "copy" /\ end_line' = buffer_y + 1
        /\ UNCHANGED <<video_buffer, buffer_y, current_line, printing, begin_line, shown,
                       overtaken>>
    BY <1>7 DEF End, At, Goto, buffer
  <2>2. 0 .. shown' - 1 = {}
    BY <2>1 DEF RedrawIsCurrent
  <2> QED  BY <2>1, <2>2 DEF RedrawIsCurrent, ScreenIsView
<1>8. CASE Copy
  <2>1. /\ pc = "copy" /\ shown < CON_HIGH /\ shown' = shown + 1
        /\ screen' = [screen EXCEPT ![shown] = Picture(begin_line, end_line, shown)]
        /\ UNCHANGED <<video_buffer, buffer_y, current_line, printing, pc, begin_line, end_line,
                       overtaken>>
    BY <1>8 DEF Copy, At, buffer
  <2>2. ASSUME ~overtaken, NEW i \in 0 .. shown
        PROVE  screen'[i] = Picture(begin_line, end_line, i)
    <3>1. i \in 0 .. CON_HIGH - 1
      BY <1>1, <2>1
    <3>2. CASE i = shown
      BY <1>1, <2>1, <3>1, <3>2
    <3>3. CASE i # shown
      <4>1. i \in 0 .. shown - 1
        BY <1>1, <3>3
      <4>2. screen'[i] = screen[i]
        BY <1>1, <2>1, <3>1, <3>3
      <4> QED  BY <2>1, <2>2, <4>1, <4>2 DEF RedrawIsCurrent
    <3> QED  BY <3>2, <3>3
  <2>3. 0 .. shown' - 1 = 0 .. shown
    BY <1>1, <2>1
  <2>4. \A i : Picture(begin_line, end_line, i)' = Picture(begin_line, end_line, i)
    BY <2>1 DEF Picture
  <2>5. ~overtaken => \A i \in 0 .. shown' - 1 : screen'[i] = Picture(begin_line, end_line, i)'
    BY <2>2, <2>3, <2>4
  <2> QED  BY <2>1, <2>5 DEF RedrawIsCurrent, ScreenIsView
<1>9. CASE Copied
  <2>1. /\ pc = "copy" /\ shown = CON_HIGH /\ pc' = "rest" /\ shown' = 0
        /\ UNCHANGED <<video_buffer, buffer_y, current_line, screen, printing, overtaken>>
    BY <1>9 DEF Copied, At, Goto, buffer
  <2>2. ~overtaken => \A i \in 0 .. CON_HIGH - 1 :
                        screen'[i] = Picture(current_line, buffer_y + 1, i)'
    BY <2>1 DEF RedrawIsCurrent, Picture
  <2> QED  BY <2>1, <2>2 DEF RedrawIsCurrent, ScreenIsView
<1>10. CASE UNCHANGED vars
  BY <1>10 DEF vars, buffer, reader, RedrawIsCurrent, ScreenIsView, Picture
<1> QED
  BY <1>2, <1>3, <1>4, <1>5, <1>6, <1>7, <1>8, <1>9, <1>10 DEF Next, Reader, Printer

\* For every size of screen and buffer, and however printing and viewing interleave: when
\* the boot thread rests, the screen shows the buffer from current_line on.
THEOREM ScreenShowsView == Spec => []ScreenIsView
<1>1. ScreenInv => ScreenIsView
  BY DEF ScreenInv
<1> QED  BY <1>1, ScreenInitially, ScreenStep, PTL DEF Spec

-----------------------------------------------------------------------------
(* The buffer is a paper.                                                   *)

\* The rows no line has been typed into are blank, so that a new line is.
BlankBelow == \A r \in Rows : r > buffer_y => video_buffer[r] = BlankRow

\* The lines typed when the buffer holds b: what Paper has for its rows.
Typed(b) == [k \in 1 .. buffer_y + 1 |-> b[k - 1]]

\* A position of the buffer.
LEMMA Positions ==
    ASSUME TypeInv
    PROVE  /\ buffer_y \in Nat /\ buffer_y <= BUFF_HIGH - 2
           /\ buffer_y \in Rows /\ buffer_y + 1 \in Rows
           /\ \A k \in 1 .. buffer_y + 1 : k - 1 \in Rows /\ k \in Rows
           /\ buffer_x \in Columns /\ buffer_x \in Nat /\ buffer_x < BUFF_WIDTH
<1>1. buffer_y \in 0 .. BUFF_HIGH - 2 /\ buffer_x \in Columns
  BY DEF TypeInv
<1> QED  BY <1>1, Sizes DEF Rows, Columns

LEMMA TypedLines ==
    ASSUME TypeInv, NEW b \in [Rows -> Row]
    PROVE  /\ Typed(b) \in Seq(Row) /\ Len(Typed(b)) = buffer_y + 1
           /\ \A k \in 1 .. buffer_y + 1 : Typed(b)[k] = b[k - 1]
<1>1. \A k \in 1 .. buffer_y + 1 : b[k - 1] \in Row
  BY Positions
<1> QED  BY <1>1, Positions DEF Typed

\* A line feed of the console is one of the paper, which drops its oldest line when full.
LEMMA ScrollFeeds ==
    ASSUME TypeInv, NEW b \in [Rows -> Row],
           \A r \in Rows : r > buffer_y => b[r] = BlankRow,
           Scroll(b, buffer_y + 1)
    PROVE  /\ Typed(video_buffer)' = P!Fed(Typed(b))
           /\ BlankBelow'
<1> DEFINE s == Typed(b)
           n == buffer_y + 1
           t == Typed(video_buffer)'
<1>1. s \in Seq(Row) /\ Len(s) = n /\ \A k \in 1 .. n : s[k] = b[k - 1]
  BY TypedLines
<1>2. n \in Nat /\ n >= 1 /\ n \in Rows /\ n <= BUFF_HIGH - 1 /\ BUFF_HIGH \in Nat
  BY Positions, Sizes
<1>3. BlankRow \in Row /\ P!BlankRow = BlankRow
  BY BlankRowType DEF BlankRow, P!BlankRow, Columns
<1>4. b[n] = BlankRow
  <2>1. n > buffer_y
    BY Positions
  <2> QED  BY <1>2, <2>1
<1>5. CASE n = BUFF_HIGH - 1
  <2>1. /\ video_buffer' = [r \in Rows |-> IF r = n THEN BlankRow ELSE b[r + 1]]
        /\ buffer_y' = n - 1
    BY <1>5 DEF Scroll
  <2>2. P!Fed(s) = Append(Tail(s), BlankRow)
    BY <1>1, <1>3, <1>5 DEF P!Fed
  <2>3. /\ Tail(s) \in Seq(Row) /\ Len(Tail(s)) = n - 1
        /\ \A i \in 1 .. n - 1 : Tail(s)[i] = b[i]
    <3>1. s # <<>>
      BY <1>1, <1>2
    <3>2. Tail(s) \in Seq(Row) /\ Len(Tail(s)) = n - 1 /\ \A i \in 1 .. n - 1 : Tail(s)[i] = s[i + 1]
      BY <1>1, <3>1, HeadTailProperties
    <3>3. \A i \in 1 .. n - 1 : i + 1 \in 1 .. n /\ (i + 1) - 1 = i
      BY <1>2
    <3> QED  BY <1>1, <3>2, <3>3
  <2>4. /\ P!Fed(s) \in Seq(Row) /\ Len(P!Fed(s)) = n
        /\ \A i \in 1 .. n : P!Fed(s)[i] = b[i]
    <3> DEFINE a == Append(Tail(s), BlankRow)
    <3>1. /\ a \in Seq(Row) /\ Len(a) = n - 1 + 1
          /\ \A i \in 1 .. n - 1 : a[i] = Tail(s)[i]
          /\ a[n - 1 + 1] = BlankRow
      BY <1>3, <2>3, AppendProperties
    <3>2. n - 1 + 1 = n /\ \A i \in 1 .. n : i = n \/ i \in 1 .. n - 1
      BY <1>2
    <3> HIDE DEF a
    <3>3. \A i \in 1 .. n : a[i] = b[i]
      BY <1>4, <2>3, <3>1, <3>2
    <3> QED  BY <2>2, <3>1, <3>2, <3>3 DEF a
  <2>5. t = [k \in 1 .. n |-> video_buffer'[k - 1]]
    BY <1>2, <2>1 DEF Typed
  <2>6. \A k \in 1 .. n : video_buffer'[k - 1] = b[k] /\ b[k] \in Row
    <3>1. \A k \in 1 .. n : k - 1 \in Rows /\ k \in Rows /\ k - 1 # n /\ (k - 1) + 1 = k
      BY <1>2, Positions
    <3> QED  BY <2>1, <3>1
  <2>7. t \in Seq(Row) /\ Len(t) = n /\ \A i \in 1 .. n : t[i] = b[i]
    <3> HIDE DEF t
    <3>1. t = [k \in 1 .. n |-> b[k]]
      BY <2>5, <2>6
    <3>2. t \in [1 .. n -> Row]
      BY <2>6, <3>1
    <3> QED  BY <1>2, <3>1, <3>2
  <2>8. t = P!Fed(s)
    <3> HIDE DEF s, t
    <3> QED  BY <2>4, <2>7, SeqEqual
  <2>9. BlankBelow'
    <3>1. \A r \in Rows : r > n - 1 => r = n
      BY <1>2, <1>5 DEF Rows
    <3> QED  BY <2>1, <3>1 DEF BlankBelow, BlankRow
  <2> QED  BY <2>8, <2>9
<1>6. CASE n # BUFF_HIGH - 1
  <2>1. video_buffer' = b /\ buffer_y' = n
    BY <1>6 DEF Scroll
  <2>2. P!Fed(s) = Append(s, BlankRow)
    BY <1>1, <1>3, <1>6 DEF P!Fed
  <2>3. /\ P!Fed(s) \in Seq(Row) /\ Len(P!Fed(s)) = n + 1
        /\ \A i \in 1 .. n + 1 : P!Fed(s)[i] = b[i - 1]
    <3> DEFINE a == Append(s, BlankRow)
    <3>1. /\ a \in Seq(Row) /\ Len(a) = n + 1
          /\ \A i \in 1 .. n : a[i] = s[i]
          /\ a[n + 1] = BlankRow
      <4> HIDE DEF s
      <4> QED  BY <1>1, <1>3, AppendProperties
    <3>2. (n + 1) - 1 = n /\ \A i \in 1 .. n + 1 : i = n + 1 \/ i \in 1 .. n
      BY <1>2
    <3> HIDE DEF a, s
    <3>3. \A i \in 1 .. n + 1 : a[i] = b[i - 1]
      BY <1>1, <1>4, <3>1, <3>2
    <3> QED  BY <2>2, <3>1, <3>3 DEF a
  <2>4. t = [k \in 1 .. n + 1 |-> b[k - 1]]
    BY <2>1 DEF Typed
  <2>5. \A k \in 1 .. n + 1 : b[k - 1] \in Row
    <3>1. \A k \in 1 .. n + 1 : k - 1 \in Rows
      BY <1>2 DEF Rows
    <3> QED  BY <3>1
  <2>6. t \in Seq(Row) /\ Len(t) = n + 1 /\ \A i \in 1 .. n + 1 : t[i] = b[i - 1]
    <3> HIDE DEF t
    <3>1. t \in [1 .. n + 1 -> Row]
      BY <2>4, <2>5
    <3> QED  BY <1>2, <2>4, <3>1
  <2>7. t = P!Fed(s)
    <3> HIDE DEF s, t
    <3> QED  BY <2>3, <2>6, SeqEqual
  <2>8. BlankBelow'
    <3>1. \A r \in Rows : r > n => r > buffer_y
      BY <1>2, Positions DEF Rows
    <3> QED  BY <2>1, <3>1 DEF BlankBelow, BlankRow
  <2> QED  BY <2>7, <2>8
<1> QED  BY <1>5, <1>6

\* Without a line feed the lines stay where they are.
LEMMA ScrollStays ==
    ASSUME TypeInv, NEW b \in [Rows -> Row],
           \A r \in Rows : r > buffer_y => b[r] = BlankRow,
           Scroll(b, buffer_y)
    PROVE  /\ Typed(video_buffer)' = Typed(b)
           /\ BlankBelow'
<1>1. buffer_y # BUFF_HIGH - 1
  BY Positions, Sizes
<1>2. video_buffer' = b /\ buffer_y' = buffer_y
  BY <1>1 DEF Scroll
<1> QED  BY <1>2 DEF Typed, BlankBelow, BlankRow

\* The end of console_putc_color is the carriage of the paper.
LEMMA SettleMoves ==
    ASSUME TypeInv, NEW b \in [Rows -> Row],
           \A r \in Rows : r > buffer_y => b[r] = BlankRow,
           NEW x, Settle(b, x)
    PROVE  /\ IF x = BUFF_WIDTH
              THEN Typed(video_buffer)' = P!Fed(Typed(b)) /\ buffer_x' = 0
              ELSE Typed(video_buffer)' = Typed(b) /\ buffer_x' = x
           /\ BlankBelow'
<1>1. CASE x = BUFF_WIDTH
  <2>1. buffer_x' = 0 /\ Scroll(b, buffer_y + 1)
    BY <1>1 DEF Settle
  <2>2. Typed(video_buffer)' = P!Fed(Typed(b)) /\ BlankBelow'
    BY <2>1, ScrollFeeds
  <2> QED  BY <1>1, <2>1, <2>2
<1>2. CASE x # BUFF_WIDTH
  <2>1. buffer_x' = x /\ Scroll(b, buffer_y)
    BY <1>2 DEF Settle
  <2>2. Typed(video_buffer)' = Typed(b) /\ BlankBelow'
    BY <2>1, ScrollStays
  <2> QED  BY <1>2, <2>1, <2>2
<1> QED  BY <1>1, <1>2

\* A tab stop is the next multiple of TAB.
LEMMA NextStopIsStop ==
    ASSUME NEW x \in Nat
    PROVE  NextStop(x) \in x + 1 .. x + TAB /\ NextStop(x) % TAB = 0
<1> DEFINE q == (x + TAB) \div TAB
<1>1. TAB \in Nat \ {0} /\ x + TAB \in Nat
  BY ConsoleAssumption
<1>2. \A n \in Nat, d \in Nat \ {0} :
        n \div d \in Nat /\ (n \div d) * d <= n /\ n < (n \div d) * d + d
  OBVIOUS
<1>3. q \in Nat /\ q * TAB <= x + TAB /\ x + TAB < q * TAB + TAB
  BY <1>1, <1>2
<1>4. NextStop(x) = q * TAB
  BY DEF NextStop
<1>5. q * TAB \in Nat
  BY <1>1, <1>3
<1>6. (q * TAB) % TAB = 0
  <2>1. \A n \in Nat, d \in Nat \ {0} : (n * d) % d = 0
    OBVIOUS
  <2> HIDE DEF q
  <2> QED  BY <1>1, <1>3, <2>1
<1>7. q * TAB \in x + 1 .. x + TAB
  <2> DEFINE m == q * TAB
  <2>1. m \in Nat /\ m <= x + TAB /\ x + TAB < m + TAB
    BY <1>3, <1>5
  <2> HIDE DEF m
  <2>2. m \in x + 1 .. x + TAB
    BY <1>1, <2>1
  <2> QED  BY <2>2 DEF m
<1> QED  BY <1>4, <1>6, <1>7

\* Every character is a keystroke on the paper.
LEMMA PutcTypes ==
    ASSUME TypeInv, BlankBelow, Putc
    PROVE  P!Next /\ BlankBelow'
<1>1. /\ video_buffer \in [Rows -> Row]
      /\ \A r \in Rows : r > buffer_y => video_buffer[r] = BlankRow
  BY DEF TypeInv, Row, BlankBelow
<1>2. [k \in 1 .. buffer_y + 1 |-> video_buffer[k - 1]] = Typed(video_buffer)
  BY DEF Typed
<1>3. ASSUME NEW c \in Letters, PutLetter(c)
      PROVE  P!Letter(c) /\ BlankBelow'
  <2> DEFINE b == [video_buffer EXCEPT ![buffer_y][buffer_x] = c]
             s == Typed(video_buffer)
             u == [s EXCEPT ![Len(s)][buffer_x] = c]
  <2>1. b \in [Rows -> Row]
    BY <1>1, Positions DEF Row
  <2>2. \A r \in Rows : r > buffer_y => b[r] = BlankRow
    BY <1>1, Positions
  <2>3. Settle(b, buffer_x + 1)
    BY <1>3 DEF PutLetter
  <2>4. P!MoveTo(Typed(b), buffer_x + 1) /\ BlankBelow'
    <3> DEFINE x == buffer_x + 1
    <3>1. Settle(b, x)
      BY <2>3
    <3> HIDE DEF b, x
    <3>2. P!MoveTo(Typed(b), x) /\ BlankBelow'
      BY <2>1, <2>2, <3>1, SettleMoves DEF P!MoveTo, Typed
    <3> QED  BY <3>2 DEF x
  <2>5. Typed(b) = u
    <3>1. Len(s) = buffer_y + 1 /\ DOMAIN s = 1 .. buffer_y + 1
      BY <1>1, TypedLines DEF Typed
    <3>2. \A k \in 1 .. buffer_y + 1 : b[k - 1] = u[k]
      <4> SUFFICES ASSUME NEW k \in 1 .. buffer_y + 1 PROVE b[k - 1] = u[k]
        OBVIOUS
      <4>1. k - 1 \in Rows /\ s[k] = video_buffer[k - 1]
        BY Positions DEF Typed
      <4>2. CASE k = buffer_y + 1
        <5>1. k - 1 = buffer_y
          BY <4>2, Positions
        <5> HIDE DEF s
        <5> QED  BY <1>1, <3>1, <4>1, <4>2, <5>1
      <4>3. CASE k # buffer_y + 1
        <5>1. k - 1 # buffer_y
          BY <4>3, Positions
        <5> HIDE DEF s
        <5> QED  BY <1>1, <3>1, <4>1, <4>3, <5>1
      <4> QED  BY <4>2, <4>3
    <3>3. u = [k \in 1 .. buffer_y + 1 |-> u[k]]
      <4> HIDE DEF s
      <4> QED  BY <3>1
    <3> HIDE DEF b, u, s
    <3> QED  BY <3>2, <3>3 DEF Typed
  <2> QED  BY <2>4, <2>5 DEF P!Letter, Typed
<1>4. CASE PutTab
  <2> DEFINE x == NextStop(buffer_x)
  <2>1. Settle(video_buffer, x)
    BY <1>4 DEF PutTab
  <2>3. x \in buffer_x + 1 .. buffer_x + TAB /\ x % TAB = 0
    BY NextStopIsStop, Positions
  <2> HIDE DEF x
  <2>2. P!MoveTo(Typed(video_buffer), x) /\ BlankBelow'
    BY <1>1, <2>1, SettleMoves DEF P!MoveTo, Typed
  <2>4. P!TabStop
    BY <2>2, <2>3 DEF P!TabStop, P!MoveTo, Typed
  <2> QED  BY <2>2, <2>4 DEF P!Next
<1>5. CASE PutReturn
  <2>1. P!MoveTo(Typed(video_buffer), 0) /\ BlankBelow'
    BY <1>1, <1>5, SettleMoves DEF PutReturn, P!MoveTo, Typed
  <2> QED  BY <2>1 DEF P!Next, P!Return, Typed
<1>6. CASE PutBackSpace
  <2>1. P!MoveTo(Typed(video_buffer), buffer_x - 1) /\ BlankBelow' /\ buffer_x > 0
    <3> DEFINE x == buffer_x - 1
    <3>1. Settle(video_buffer, x) /\ buffer_x > 0
      BY <1>6 DEF PutBackSpace
    <3> HIDE DEF x
    <3>2. P!MoveTo(Typed(video_buffer), x) /\ BlankBelow'
      BY <1>1, <3>1, SettleMoves DEF P!MoveTo, Typed
    <3> QED  BY <3>1, <3>2 DEF x
  <2> QED  BY <2>1 DEF P!Next, P!BackSpace, Typed
<1>7. CASE PutLineFeed
  <2>1. buffer_x' = 0 /\ Scroll(video_buffer, buffer_y + 1)
    BY <1>7 DEF PutLineFeed
  <2>2. Typed(video_buffer)' = P!Fed(Typed(video_buffer)) /\ BlankBelow'
    BY <1>1, <2>1, ScrollFeeds
  <2> QED  BY <2>1, <2>2 DEF P!Next, P!LineFeed, Typed
<1> QED  BY <1>3, <1>4, <1>5, <1>6, <1>7 DEF Putc, P!Next

LEMMA PaperInitially == Init => P!Init /\ BlankBelow
<1> SUFFICES ASSUME Init PROVE P!Init /\ BlankBelow
  OBVIOUS
<1>1. 0 \in Rows /\ buffer_y = 0 /\ buffer_x = 0 /\ video_buffer = [y \in Rows |-> BlankRow]
  BY Sizes DEF Init, Rows
<1>2. [k \in 1 .. buffer_y + 1 |-> video_buffer[k - 1]] = <<BlankRow>>
  <2> DEFINE t == [k \in 1 .. buffer_y + 1 |-> video_buffer[k - 1]]
  <2>1. \A k \in 1 .. 1 : k - 1 = 0
    OBVIOUS
  <2>2. t = [k \in 1 .. 1 |-> BlankRow]
    BY <1>1, <2>1
  <2>3. t \in Seq(Row) /\ Len(t) = 1 /\ t[1] = BlankRow
    <3> HIDE DEF t
    <3>1. t \in [1 .. 1 -> Row] /\ t[1] = BlankRow
      BY <2>2, BlankRowType
    <3> QED  BY <2>2, <3>1
  <2>4. <<BlankRow>> \in Seq(Row) /\ Len(<<BlankRow>>) = 1 /\ <<BlankRow>>[1] = BlankRow
    BY BlankRowType
  <2> HIDE DEF t
  <2>5. \A i \in 1 .. Len(t) : t[i] = <<BlankRow>>[i]
    <3>1. \A i \in 1 .. Len(t) : i = 1
      BY <2>3
    <3> QED  BY <2>3, <2>4, <3>1
  <2>6. t = <<BlankRow>>
    BY <2>3, <2>4, <2>5, SeqEqual
  <2> QED  BY <2>6 DEF t
<1>3. P!BlankRow = BlankRow
  BY DEF P!BlankRow, BlankRow, Columns
<1> QED  BY <1>1, <1>2, <1>3 DEF P!Init, BlankBelow

LEMMA PaperStep ==
    TypeInv /\ BlankBelow /\ [Next]_vars => [P!Next]_(P!vars) /\ BlankBelow'
<1> SUFFICES ASSUME TypeInv, BlankBelow, [Next]_vars
             PROVE  [P!Next]_(P!vars) /\ BlankBelow'
  OBVIOUS
<1>1. CASE Putc
  BY <1>1, PutcTypes
<1>2. CASE UNCHANGED buffer
  BY <1>2 DEF buffer, P!vars, BlankBelow
<1>3. CASE Reader
  BY <1>2, <1>3 DEF Reader, Key, UpTest, DownLoad, DownTest, Choose, Store, Begin, End, Copy,
                    Copied
<1>4. CASE Write \/ Flush
  BY <1>2, <1>4 DEF Write, Flush
<1>5. CASE UNCHANGED vars
  BY <1>2, <1>5 DEF vars
<1> QED  BY <1>1, <1>3, <1>4, <1>5 DEF Next, Printer

\* For every width, height and tab: the buffer is a paper of which the last lines are
\* kept, whatever is printed, and however the view is moved in between.
THEOREM BufferIsPaper == Spec => ImplementsPaper
<1>1. Spec => [](TypeInv /\ BlankBelow)
  <2>1. Init => TypeInv /\ BlankBelow
    BY InitIInv, PaperInitially DEF IInv
  <2>2. TypeInv /\ (TypeInv /\ BlankBelow) /\ [Next]_vars => BlankBelow'
    BY PaperStep
  <2>3. Spec => []TypeInv
    BY WritesInBuffer
  <2> QED  BY <2>1, <2>2, <2>3, PTL DEF Spec
<1>2. Init => P!Init
  BY PaperInitially
<1>3. (TypeInv /\ BlankBelow) /\ [Next]_vars => [P!Next]_(P!vars)
  BY PaperStep
<1> QED  BY <1>1, <1>2, <1>3, PTL DEF Spec, ImplementsPaper, P!Spec
=============================================================================
