----------------------------- MODULE LineEditor -----------------------------
(***************************************************************************)
(* What the shell's input line promises: a line with a cursor in it, that  *)
(* keys edit at the cursor and Enter submits as a whole.                   *)
(***************************************************************************)
EXTENDS Integers, Sequences

CONSTANTS
    Letter,     \* the printable characters
    Capacity    \* the length of the longest line

VARIABLES
    before, after,  \* the line, before and after the cursor
    submitted       \* the line that was submitted last

vars == <<before, after, submitted>>

AllButLast(s) == SubSeq(s, 1, Len(s) - 1)

Init == before = <<>> /\ after = <<>> /\ submitted = <<>>

Insert(c) ==
    /\ Len(before) + Len(after) < Capacity
    /\ before' = Append(before, c)
    /\ UNCHANGED <<after, submitted>>

Erase ==
    /\ before # <<>>
    /\ before' = AllButLast(before)
    /\ UNCHANGED <<after, submitted>>

MoveLeft ==
    /\ before # <<>>
    /\ before' = AllButLast(before)
    /\ after' = <<before[Len(before)]>> \o after
    /\ UNCHANGED submitted

MoveRight ==
    /\ after # <<>>
    /\ before' = Append(before, Head(after))
    /\ after' = Tail(after)
    /\ UNCHANGED submitted

Submit ==
    /\ submitted' = before \o after
    /\ before' = <<>> /\ after' = <<>>

Next == (\E c \in Letter : Insert(c)) \/ Erase \/ MoveLeft \/ MoveRight \/ Submit

Spec == Init /\ [][Next]_vars
=============================================================================
