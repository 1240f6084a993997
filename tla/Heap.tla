-------------------------------- MODULE Heap --------------------------------
(***************************************************************************)
(* The kernel heap of src/mm/heap.c: one list of nodes laid out over a     *)
(* static area, first-fit malloc with splitting, free with a full          *)
(* coalescing sweep.  Both walks along the list are taken one node per     *)
(* step.                                                                   *)
(*                                                                         *)
(* `node' maps the address of every node on the list to its header.  The   *)
(* blocks that clients hold are recorded in `owned'; clients free only     *)
(* what they hold (or NULL) and write only inside their blocks, so the     *)
(* magic of a header that free looks at is always intact.                  *)
(*                                                                         *)
(* malloc asks vmm_alloc for 4096 pages when it is at the last node.  That *)
(* request needs 4096 free bits in one byte of the frame bitmap and never  *)
(* succeeds (theorem LargeRequestsFail of BootMemoryProofs), so the walk   *)
(* returns 0 there.                                                        *)
(***************************************************************************)
EXTENDS Integers

CONSTANTS
    Base,       \* the address of heap_area
    AreaSize,   \* its size in bytes: the 16384 of heap_init
    WordSize,   \* 2^64: uint64_t arithmetic is modulo this
    Requests    \* the sizes clients ask for

NULL == 0
HeaderSize == 24    \* sizeof(heap_node_t), packed
SplitSlack == 32

ASSUME AreaAligned == Base \in Nat /\ Base > 0 /\ Base % 4096 = 0
ASSUME AreaHoldsHeader == AreaSize \in Nat /\ AreaSize % 8 = 0 /\ AreaSize > HeaderSize
ASSUME WordHoldsArea == WordSize \in Nat /\ WordSize % 8 = 0 /\ WordSize > Base + AreaSize
ASSUME RequestsAreWords == Requests \subseteq 0..(WordSize - 1)

VARIABLES
    node,       \* the headers: address |-> size, next, free
    owned,      \* the blocks clients hold: their address and the size asked for
    pc,         \* "client", "malloc" or "free" while a walk is under way
    cursor,     \* curr of malloc, temp of free
    want,       \* the argument of malloc
    heap_lock   \* TRUE while the lock is taken

vars == <<node, owned, pc, cursor, want, heap_lock>>

End == Base + AreaSize
Header(size, nxt, isFree) == [size |-> size, next |-> nxt, free |-> isFree]
Headers == [size : Nat, next : Nat, free : BOOLEAN]

\* The sum of two uint64_t.
Sum(m, n) == IF m + n < WordSize THEN m + n ELSE m + n - WordSize

\* (size + 7) & ~7
Rounded(n) == Sum(n, 7) - (Sum(n, 7) % 8)

EndOf(a) == a + HeaderSize + node[a].size

TypeOK ==
    /\ DOMAIN node \subseteq Nat \ {NULL}
    /\ \A a \in DOMAIN node : node[a] \in Headers
    /\ \A b \in owned : b.ptr \in Nat /\ b.want \in Requests
    /\ pc \in {"client", "malloc", "free"}
    /\ cursor \in Nat
    /\ want \in Requests \cup {0}
    /\ heap_lock \in BOOLEAN

\* heap_init
Init ==
    /\ node = [a \in {Base} |-> Header(AreaSize - HeaderSize, NULL, TRUE)]
    /\ owned = {}
    /\ pc = "client" /\ cursor = NULL /\ want = 0
    /\ heap_lock = FALSE

-----------------------------------------------------------------------------
\* A call releases the lock and its locals are gone.
Return == pc' = "client" /\ heap_lock' = FALSE /\ cursor' = NULL /\ want' = 0

\* mutated: the walk begins behind the head
First_BehindHead == IF node[Base].next = NULL THEN Base ELSE node[Base].next

First == Base

\* malloc takes the lock and starts at the head.  malloc(0) returns at once.
MallocCall(n) ==
    /\ pc = "client" /\ ~heap_lock
    /\ n # 0
    /\ heap_lock' = TRUE
    /\ pc' = "malloc" /\ cursor' = First /\ want' = n
    /\ UNCHANGED <<node, owned>>

size == Rounded(want)
Fits(a) == node[a].free /\ node[a].size >= size

\* Enough is left over for a node of its own.
Splits(a) == node[a].size > Sum(size, HeaderSize + SplitSlack)

\* mutated: a node that is not split is not marked
Taken_StaysFree(a) == node

Taken(a) == [node EXCEPT ![a].free = FALSE]

\* mutated: the new header is not paid for
Remainder_NoHeader(a) == node[a].size - size

Remainder(a) == node[a].size - size - HeaderSize

\* a gives up its tail to a new free node.
Split(a) ==
    LET new == a + HeaderSize + size IN
    [b \in DOMAIN node \cup {new} |->
        CASE b = new -> Header(Remainder(a), node[a].next, TRUE)
          [] b = a -> Header(size, new, FALSE)
          [] OTHER -> node[b]]

MallocTake ==
    /\ pc = "malloc" /\ Fits(cursor)
    /\ node' = IF Splits(cursor) THEN Split(cursor) ELSE Taken(cursor)
    /\ owned' = owned \cup {[ptr |-> cursor + HeaderSize, want |-> want]}
    /\ Return

MallocStep ==
    /\ pc = "malloc" /\ ~Fits(cursor)
    /\ node[cursor].next # NULL
    /\ cursor' = node[cursor].next
    /\ UNCHANGED <<node, owned, pc, want, heap_lock>>

\* The last node does not fit and vmm_alloc has nothing: malloc returns 0.
MallocFail ==
    /\ pc = "malloc" /\ ~Fits(cursor)
    /\ node[cursor].next = NULL
    /\ Return
    /\ UNCHANGED <<node, owned>>

\* free(NULL) returns at once, and so does free with a pointer behind no header:
\* it finds another magic, gives the lock back and changes nothing.  Both are
\* stuttering steps; the header of a block that is held has the magic.
FreeCall(b) ==
    /\ pc = "client" /\ ~heap_lock
    /\ heap_lock' = TRUE
    /\ node' = [node EXCEPT ![b.ptr - HeaderSize].free = TRUE]
    /\ owned' = owned \ {b}
    /\ pc' = "free" /\ cursor' = Base
    /\ UNCHANGED want

\* mutated: temp itself need not be free
Mergeable_IntoUsed(a) == node[a].next # NULL /\ node[node[a].next].free

Mergeable(a) ==
    /\ node[a].free
    /\ node[a].next # NULL
    /\ node[node[a].next].free

\* mutated: temp moves on after a merge (no continue)
AfterMerge_MovesOn == node[node[cursor].next].next

AfterMerge == cursor

\* temp swallows its successor and looks at the next one (continue).
SweepMerge ==
    /\ pc = "free" /\ cursor # NULL /\ Mergeable(cursor)
    /\ LET gone == node[cursor].next IN
       node' = [b \in DOMAIN node \ {gone} |->
                   IF b = cursor
                   THEN Header(node[b].size + HeaderSize + node[gone].size,
                               node[gone].next, node[b].free)
                   ELSE node[b]]
    /\ cursor' = AfterMerge
    /\ UNCHANGED <<owned, pc, want, heap_lock>>

\* mutated: temp stays at a free node that cannot be merged
AfterStep_Stays == IF node[cursor].free THEN cursor ELSE node[cursor].next

AfterStep == node[cursor].next

SweepStep ==
    /\ pc = "free" /\ cursor # NULL /\ ~Mergeable(cursor)
    /\ cursor' = AfterStep
    /\ UNCHANGED <<node, owned, pc, want, heap_lock>>

SweepEnd ==
    /\ pc = "free" /\ cursor = NULL
    /\ Return
    /\ UNCHANGED <<node, owned>>

Walk == MallocTake \/ MallocStep \/ MallocFail \/ SweepMerge \/ SweepStep \/ SweepEnd

Next ==
    \/ \E n \in Requests : MallocCall(n)
    \/ \E b \in owned : FreeCall(b)
    \/ Walk

Spec == Init /\ [][Next]_vars

\* The CPU gets on with a call it has begun.
FairSpec == Spec /\ WF_vars(Walk)

-----------------------------------------------------------------------------
\* The nodes tile heap_area: each header lies where its predecessor's block
\* ends, blocks do not overlap and the last one ends with the area.  Splitting
\* and merging neither lose nor invent a byte.
NodesTileArea ==
    /\ Base \in DOMAIN node
    /\ \A a \in DOMAIN node :
          /\ Base <= a /\ a % 8 = 0 /\ node[a].size % 8 = 0
          /\ IF node[a].next = NULL THEN EndOf(a) = End
             ELSE node[a].next = EndOf(a) /\ EndOf(a) \in DOMAIN node
          /\ \A b \in DOMAIN node : a < b => EndOf(a) <= b

\* Every block a client holds is the 8-byte aligned payload of an allocated
\* node, no two clients hold the same one, and nobody holds a free one.
BlocksAreAllocated ==
    /\ \A b \in owned : /\ b.ptr % 8 = 0
                        /\ b.ptr - HeaderSize \in DOMAIN node
                        /\ ~node[b.ptr - HeaderSize].free
    /\ \A b, c \in owned : b.ptr = c.ptr => b = c
    /\ \A a \in DOMAIN node : ~node[a].free => \E b \in owned : b.ptr = a + HeaderSize

\* A block is at least as large as malloc was asked for, unless that was one of
\* the last seven sizes, for which size + 7 wraps to 0: malloc then gives away
\* the first free node, split to 0 bytes unless it is too small to be split.
BlocksAreLargeEnough ==
    \A b \in owned :
        LET room == node[b.ptr - HeaderSize].size
        IN  IF b.want <= WordSize - 8 THEN room >= b.want ELSE room <= HeaderSize + SplitSlack

\* The sweep of free merges every run of free nodes: between calls no two
\* neighbours are both free.
FullyCoalesced ==
    pc # "free" => \A a, b \in DOMAIN node :
                      node[a].free /\ node[b].free => node[a].next # b

\* Once every block has been freed the heap is as heap_init left it: no
\* sequence of malloc and free fragments it for good.
EmptyHeapIsWhole ==
    pc # "free" /\ owned = {} =>
        DOMAIN node = {Base} /\ node[Base] = Header(AreaSize - HeaderSize, NULL, TRUE)

\* malloc returns 0 only when no free node is large enough.
FailsOnlyWhenFull ==
    [][MallocFail => \A a \in DOMAIN node : ~Fits(a)]_vars

\* A step changes the block under no client's pointer: the node of a block
\* that stays owned keeps its size and stays allocated.
BlocksStayPut ==
    [][\A b \in owned \cap owned' :
          /\ b.ptr - HeaderSize \in DOMAIN node'
          /\ node'[b.ptr - HeaderSize].size = node[b.ptr - HeaderSize].size]_vars

\* To its callers the heap is an Allocator: the blocks they hold, with the room
\* that the headers give them, are apart and stay as they are, through every
\* split and merge.  A size that wraps to 0 is good for no byte.
Promise(n) == IF n > WordSize - 8 THEN 0 ELSE n
Blocks ==
    {[ptr |-> b.ptr, want |-> b.want, room |-> node[b.ptr - HeaderSize].size] : b \in owned}

Client == INSTANCE Allocator WITH
    Low <- Base + HeaderSize, High <- End, Alignment <- 8, blocks <- Blocks

ImplementsAllocator == Client!Spec

\* malloc and free return: both walks reach the end of the list.
WalksEnd == (pc # "client") ~> (pc = "client")
=============================================================================
