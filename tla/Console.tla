------------------------------ MODULE Console ------------------------------
(***************************************************************************)
(* The console (arch/i386/driver/console.c).  Threads print under cli into  *)
(* a buffer that scrolls, and the screen follows what they print.  The boot *)
(* thread moves the view up and down with the keys it reads (kern_init),    *)
(* with interrupts on: another thread may print between any two of its     *)
(* steps.  The build is not optimised, so each mention of a variable is a   *)
(* load of its own.                                                        *)
(*                                                                         *)
(* A row is copied to the screen in one step.  What is copied below the    *)
(* screen lands in video memory that is not shown and is left out, and so  *)
(* is the hardware cursor.                                                 *)
(* A definition marked FAULT is a plausible slip in the one after it, kept *)
(* to show that a property would notice it.                                *)
(***************************************************************************)
EXTENDS Naturals, Sequences

CONSTANTS
    BUFF_WIDTH,     \* columns
    CON_HIGH,       \* rows of the screen
    BUFF_HIGH,      \* rows of the buffer
    TAB,            \* columns between two tab stops
    WORD,           \* the modulus of the line numbers: 2^16
    Letters,        \* printable characters
    Blank

ASSUME ConsoleAssumption ==
    /\ BUFF_WIDTH \in Nat \ {0} /\ TAB \in Nat \ {0} /\ BUFF_WIDTH % TAB = 0
    /\ CON_HIGH \in Nat \ {0} /\ BUFF_HIGH \in Nat /\ CON_HIGH < BUFF_HIGH
    /\ WORD \in Nat /\ WORD > 2 * BUFF_HIGH
    /\ Blank \notin Letters

VARIABLES
    video_buffer, buffer_x, buffer_y,   \* the buffer and its write position
    current_line,                       \* the first row that is shown
    screen,
    printing,                           \* a thread is inside console_write
    pc, line, begin_line, end_line,     \* the boot thread and its registers
    shown,                              \* rows it has copied
    overtaken                           \* history: a thread has printed while
                                        \* the boot thread was redrawing

buffer  == <<video_buffer, buffer_x, buffer_y>>
reader  == <<pc, line, begin_line, end_line, shown>>
vars    == <<buffer, current_line, screen, printing, reader, overtaken>>

Rows    == 0 .. BUFF_HIGH - 1
Columns == 0 .. BUFF_WIDTH - 1
Lines   == 0 .. WORD - 1

BlankRow == [x \in Columns |-> Blank]

\* The console after console_clear.
Init ==
    /\ video_buffer = [y \in Rows |-> BlankRow]
    /\ buffer_x = 0 /\ buffer_y = 0
    /\ current_line = 0
    /\ screen = [i \in 0 .. CON_HIGH - 1 |-> BlankRow]
    /\ printing = FALSE
    /\ pc = "rest" /\ line = 0 /\ begin_line = 0 /\ end_line = 0 /\ shown = 0
    /\ overtaken = FALSE

----------------------------------------------------------------------------
(* console_write: interrupts are off from Write to Flush.                   *)

Write ==
    /\ ~printing
    /\ printing' = TRUE
    /\ overtaken' = (pc \in {"end", "copy"})
    /\ UNCHANGED <<buffer, current_line, screen, reader>>

\* FAULT: a full buffer starts again at its first row.
ScrollRestarts(b, y) ==
    IF y = BUFF_HIGH - 1
    THEN /\ video_buffer' = [r \in Rows |-> BlankRow]
         /\ buffer_y' = 0
    ELSE video_buffer' = b /\ buffer_y' = y

\* FAULT: the last row keeps what it held.
ScrollUnblanked(b, y) ==
    IF y = BUFF_HIGH - 1
    THEN /\ video_buffer' = [r \in Rows |-> IF r = y THEN b[y - 1] ELSE b[r + 1]]
         /\ buffer_y' = y - 1
    ELSE video_buffer' = b /\ buffer_y' = y

\* scroll_buffer, when the buffer holds b and the position is in row y: the last
\* row is never written to.
Scroll(b, y) ==
    IF y = BUFF_HIGH - 1
    THEN /\ video_buffer' = [r \in Rows |-> IF r = y THEN BlankRow ELSE b[r + 1]]
         /\ buffer_y' = y - 1
    ELSE video_buffer' = b /\ buffer_y' = y

\* The end of console_putc_color: a full row is left for the next one.
Settle(b, x) ==
    IF x = BUFF_WIDTH
    THEN buffer_x' = 0 /\ Scroll(b, buffer_y + 1)
    ELSE buffer_x' = x /\ Scroll(b, buffer_y)

\* FAULT: a tab is TAB columns wide.
NextStopUnaligned(x) == x + TAB

\* The tab stop after column x.
NextStop(x) == ((x + TAB) \div TAB) * TAB

\* console_putc_color: a letter, a tab, a line feed, a carriage return, a
\* backspace.  Others change nothing.
PutLetter(c) == Settle([video_buffer EXCEPT ![buffer_y][buffer_x] = c], buffer_x + 1)
PutTab       == Settle(video_buffer, NextStop(buffer_x))
PutReturn    == Settle(video_buffer, 0)
PutBackSpace == buffer_x > 0 /\ Settle(video_buffer, buffer_x - 1)
PutLineFeed  == buffer_x' = 0 /\ Scroll(video_buffer, buffer_y + 1)

Putc ==
    /\ printing
    /\ \/ \E c \in Letters : PutLetter(c)
       \/ PutTab \/ PutReturn \/ PutBackSpace \/ PutLineFeed
    /\ UNCHANGED <<current_line, screen, printing, reader, overtaken>>

\* What _flush_console puts in row i of the screen, from the line begin on and
\* before the line end.
Picture(begin, end, i) == IF begin + i < end THEN video_buffer[begin + i] ELSE BlankRow

\* The first row of the last screenful.
LastView == IF buffer_y >= CON_HIGH - 1 THEN buffer_y - CON_HIGH + 1 ELSE 0

\* _flush_console_current, and interrupts are on again.
Flush ==
    /\ printing
    /\ current_line' = LastView
    /\ screen' = [i \in DOMAIN screen |-> Picture(LastView, buffer_y + 1, i)]
    /\ printing' = FALSE
    /\ UNCHANGED <<buffer, reader, overtaken>>

----------------------------------------------------------------------------
(* console_view_up(1) and console_view_down(1), step by step.               *)

\* The boot thread runs only when no thread is inside console_write.
At(label) == ~printing /\ pc = label

Goto(label) == pc' = label

\* A key has been read; 72 moves the view up and 80 down.
Key ==
    /\ At("rest")
    /\ pc' \in {"up", "down"}
    /\ overtaken' = FALSE
    /\ UNCHANGED <<buffer, current_line, screen, printing, line, begin_line, end_line, shown>>

\* The test of console_view_up.
UpTest ==
    /\ At("up")
    /\ Goto(IF current_line >= 1 THEN "up load" ELSE "top")
    /\ UNCHANGED <<buffer, current_line, screen, printing, line, begin_line, end_line, shown, overtaken>>

\* The two operands of the test of console_view_down.
DownLoad ==
    /\ At("down")
    /\ line' = current_line
    /\ Goto("down test")
    /\ UNCHANGED <<buffer, current_line, screen, printing, begin_line, end_line, shown, overtaken>>

DownTest ==
    /\ At("down test")
    /\ Goto(IF line + 1 < buffer_y THEN "down load" ELSE "bottom")
    /\ line' = 0
    /\ UNCHANGED <<buffer, current_line, screen, printing, begin_line, end_line, shown, overtaken>>

\* The right-hand side of the assignment to current_line.
Choose ==
    /\ \/ At("up load")   /\ line' = (current_line + WORD - 1) % WORD
       \/ At("top")       /\ line' = 0
       \/ At("down load") /\ line' = (current_line + 1) % WORD
       \/ At("bottom")    /\ line' = buffer_y
    /\ Goto("store")
    /\ UNCHANGED <<buffer, current_line, screen, printing, begin_line, end_line, shown, overtaken>>

\* The assignment itself.
Store ==
    /\ At("store")
    /\ current_line' = line
    /\ line' = 0
    /\ Goto("begin")
    /\ UNCHANGED <<buffer, screen, printing, begin_line, end_line, shown, overtaken>>

\* _flush_console: which lines it copies is fixed before it copies them.
Begin ==
    /\ At("begin")
    /\ begin_line' = current_line
    /\ Goto("end")
    /\ UNCHANGED <<buffer, current_line, screen, printing, line, end_line, shown, overtaken>>

End ==
    /\ At("end")
    /\ end_line' = buffer_y + 1
    /\ Goto("copy")
    /\ UNCHANGED <<buffer, current_line, screen, printing, line, begin_line, shown, overtaken>>

\* FAULT: the rows below the text are left as they are.
CopyUnblanked ==
    /\ At("copy") /\ shown < CON_HIGH
    /\ screen' = IF begin_line + shown < end_line
                 THEN [screen EXCEPT ![shown] = video_buffer[begin_line + shown]]
                 ELSE screen
    /\ shown' = shown + 1
    /\ UNCHANGED <<buffer, current_line, printing, pc, line, begin_line, end_line, overtaken>>

Copy ==
    /\ At("copy") /\ shown < CON_HIGH
    /\ screen' = [screen EXCEPT ![shown] = Picture(begin_line, end_line, shown)]
    /\ shown' = shown + 1
    /\ UNCHANGED <<buffer, current_line, printing, pc, line, begin_line, end_line, overtaken>>

Copied ==
    /\ At("copy") /\ shown = CON_HIGH
    /\ Goto("rest")
    /\ begin_line' = 0 /\ end_line' = 0 /\ shown' = 0
    /\ UNCHANGED <<buffer, current_line, screen, printing, line, overtaken>>

Reader == Key \/ UpTest \/ DownLoad \/ DownTest \/ Choose \/ Store \/ Begin \/ End
            \/ Copy \/ Copied

Printer == Write \/ Putc \/ Flush

Next == Reader \/ Printer

Spec == Init /\ [][Next]_vars

----------------------------------------------------------------------------
\* Type correctness: no character is ever put outside the buffer.
TypeInv ==
    /\ video_buffer \in [Rows -> [Columns -> Letters \cup {Blank}]]
    /\ buffer_x \in Columns
    /\ buffer_y \in 0 .. BUFF_HIGH - 2
    /\ {current_line, line, begin_line, end_line} \subseteq Lines
    /\ screen \in [0 .. CON_HIGH - 1 -> [Columns -> Letters \cup {Blank}]]
    /\ {printing, overtaken} \subseteq BOOLEAN
    /\ shown \in 0 .. CON_HIGH
    /\ pc \in {"rest", "up", "up load", "top", "down", "down test", "down load",
               "bottom", "store", "begin", "end", "copy"}

P == INSTANCE Paper
        WITH rows <- [k \in 1 .. buffer_y + 1 |-> video_buffer[k - 1]],
             col <- buffer_x, Width <- BUFF_WIDTH, Tab <- TAB, MaxRows <- BUFF_HIGH - 1

\* The buffer is a paper of which the last BUFF_HIGH - 1 lines are kept: wrapping
\* and scrolling lose, repeat and disturb no line that is kept, and every new
\* line is blank.
ImplementsPaper == P!Spec

\* A redraw that threads have overtaken does not show rows that have no text yet:
\* the end it has fixed is never after the last line.
RedrawsText == pc = "copy" => end_line <= buffer_y + 1

\* The screen is the buffer from current_line on, with blank rows after the last
\* line, unless a thread has printed into the redraw for the last key.
ScreenIsView ==
    (pc = "rest" /\ ~printing /\ ~overtaken) =>
        \A i \in 0 .. CON_HIGH - 1 : screen[i] = Picture(current_line, buffer_y + 1, i)

\* What console.c:55 says of current_line (the place in the buffer where the
\* screen starts): it is the number of a line that has been begun.
ViewInBuffer == current_line <= buffer_y
=============================================================================
