------------------------------ MODULE Console ------------------------------
(***************************************************************************)
(* The VGA text console of src/lib/stdio.c as operators on a screen: a     *)
(* record with the character cells, row by row, and the cursor.  Colours   *)
(* and the hardware cursor are left out.  Each function takes the console  *)
(* lock and gives it back, before it calls another one that takes it.      *)
(***************************************************************************)
EXTENDS Integers, Sequences

CONSTANTS width, height

ASSUME ScreenSize == width \in Nat \ {0} /\ height \in Nat /\ height > 2

Blank == " "
NL == "\n"

Cells == 0..(width * height - 1)
RowOf(i) == i \div width

\* stray: a character was written behind the end of the screen.
Screen(buffer, x, y) == [buffer |-> buffer, cursor_x |-> x, cursor_y |-> y, stray |-> FALSE]

set_cursor(s, x, y) == [s EXCEPT !.cursor_x = x, !.cursor_y = y]

\* All rows are cleared, the status bar in row 0 with them.
print_clear(s) == [set_cursor(s, 0, 1) EXCEPT !.buffer = [i \in Cells |-> Blank]]

\* Rows 2 and below move up by one; row 0, the status bar, stays.
Scrolled(buffer) ==
    [i \in Cells |-> CASE RowOf(i) = 0 -> buffer[i]
                       [] RowOf(i) = height - 1 -> Blank
                       [] OTHER -> buffer[i + width]]

\* mutated: only the last row itself scrolls
AtBottom_Exact(s) == s.cursor_y = height - 1

AtBottom(s) == s.cursor_y >= height - 1

print_newline(s) ==
    IF AtBottom(s) THEN [set_cursor(s, 0, height - 1) EXCEPT !.buffer = Scrolled(s.buffer)]
    ELSE set_cursor(s, 0, s.cursor_y + 1)

\* The character goes to the cursor's cell, wherever the cursor is.
Draw(s, c) ==
    LET i == s.cursor_y * width + s.cursor_x IN
    IF i \in Cells THEN [s EXCEPT !.buffer[i] = c] ELSE [s EXCEPT !.stray = TRUE]

\* A full row is left only when the next character arrives.
putc(s, c) ==
    IF c = NL THEN print_newline(s)
    ELSE LET t == IF s.cursor_x >= width THEN print_newline(s) ELSE s
         IN  [Draw(t, c) EXCEPT !.cursor_x = @ + 1]

\* The characters one after the other.
puts(s, str) ==
    LET drawn[n \in 0..Len(str)] == IF n = 0 THEN s ELSE putc(drawn[n - 1], str[n])
    IN  drawn[Len(str)]
=============================================================================
