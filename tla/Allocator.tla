----------------------------- MODULE Allocator -----------------------------
(***************************************************************************)
(* What malloc and free promise the code that calls them: a block lies in  *)
(* the area, is aligned and large enough, and is apart from the blocks     *)
(* that are held already; it keeps its place and its room until its holder *)
(* gives it back.  Nothing is said of how free memory is kept.             *)
(***************************************************************************)
EXTENDS Integers

CONSTANTS
    Low, High,      \* where the area begins and ends
    Alignment,
    Requests,       \* the sizes that are asked for
    Promise(_)      \* the bytes that the caller of malloc(n) may rely on

VARIABLE blocks     \* the blocks that are held: address, size asked for, room

Apart(b, c) ==
    /\ b.ptr # c.ptr
    /\ b.ptr + b.room <= c.ptr \/ c.ptr + c.room <= b.ptr

Good(b) ==
    /\ Low <= b.ptr /\ b.ptr + b.room <= High
    /\ b.ptr % Alignment = 0
    /\ b.want \in Requests /\ b.room >= Promise(b.want)

Malloc(b) ==
    /\ Good(b) /\ \A c \in blocks : Apart(b, c)
    /\ blocks' = blocks \cup {b}

Free(b) == blocks' = blocks \ {b}

Next == \/ \E b \in blocks' : Malloc(b)
        \/ \E b \in blocks : Free(b)

Spec == blocks = {} /\ [][Next]_blocks
=============================================================================
