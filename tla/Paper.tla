------------------------------- MODULE Paper -------------------------------
(* A teletype: lines of Width characters, the last MaxRows of them kept.     *)
EXTENDS Naturals, Sequences

CONSTANTS Width, Tab, MaxRows, Letters, Blank

VARIABLES
    rows,       \* the lines, oldest first; the last one is being typed
    col         \* where the next character goes

vars == <<rows, col>>

BlankRow == [x \in 0 .. Width - 1 |-> Blank]

Init == rows = <<BlankRow>> /\ col = 0

\* The paper after a line feed, when the lines typed are r.
Fed(r) == Append(IF Len(r) = MaxRows THEN Tail(r) ELSE r, BlankRow)

\* The carriage moves to column x of the lines r, or to a new line at the edge.
MoveTo(r, x) ==
    IF x = Width THEN rows' = Fed(r) /\ col' = 0
                 ELSE rows' = r /\ col' = x

Letter(c) == MoveTo([rows EXCEPT ![Len(rows)][col] = c], col + 1)
TabStop   == \E x \in col + 1 .. col + Tab : x % Tab = 0 /\ MoveTo(rows, x)
LineFeed  == rows' = Fed(rows) /\ col' = 0
Return    == MoveTo(rows, 0)
BackSpace == col > 0 /\ MoveTo(rows, col - 1)

Next == TabStop \/ LineFeed \/ Return \/ BackSpace \/ \E c \in Letters : Letter(c)

Spec == Init /\ [][Next]_vars
=============================================================================
