----------------------------- MODULE HeapProofs -----------------------------
(***************************************************************************)
(* Proofs about module Heap, for every area, word size and set of          *)
(* requests.  The lemmas about the list take it as a function nd and       *)
(* compare it with another one, md, field by field.                        *)
(***************************************************************************)
EXTENDS Heap, TLAPS

\* Every node lies in the area.
InArea == \A a \in DOMAIN node : EndOf(a) <= End

\* Two free nodes of which one follows the other.
FreePair(a, b) == node[a].free /\ node[b].free /\ node[a].next = b

\* What the two walks know: malloc has found nothing behind it, and the sweep
\* of free has left no two free neighbours behind it.
WalkInv ==
    /\ pc = "malloc" => cursor \in DOMAIN node /\ want \in Requests
                        /\ \A a \in DOMAIN node : a < cursor => ~Fits(a)
    /\ pc = "free" => cursor \in DOMAIN node \cup {NULL}
    /\ \A a, b \in DOMAIN node : FreePair(a, b) => pc = "free" /\ cursor # NULL /\ cursor <= a

IInv ==
    /\ TypeOK /\ NodesTileArea /\ InArea
    /\ BlocksAreAllocated /\ BlocksAreLargeEnough /\ WalkInv

\* A block that stays with its client keeps its node and its size.
BlocksKept ==
    \A b \in owned \cap owned' : /\ b.ptr - 24 \in DOMAIN node'
                               /\ node'[b.ptr - 24].size = node[b.ptr - 24].size

-----------------------------------------------------------------------------
(* The list as a tiling.                                                    *)

EndIn(nd, a) == a + 24 + nd[a].size

TileAt(nd, a) ==
    /\ a \in Nat /\ Base <= a /\ a % 8 = 0
    /\ nd[a].size \in Nat /\ nd[a].size % 8 = 0 /\ nd[a].next \in Nat
    /\ EndIn(nd, a) <= End
    /\ nd[a].next = 0 => EndIn(nd, a) = End
    /\ nd[a].next # 0 => nd[a].next = EndIn(nd, a) /\ nd[a].next \in DOMAIN nd
    /\ \A b \in DOMAIN nd : a < b => EndIn(nd, a) <= b

TileOf(nd) == Base \in DOMAIN nd /\ \A a \in DOMAIN nd : TileAt(nd, a)

\* Base is a positive multiple of 4096, hence of 8 and not small.
LEMMA BaseFacts == Base \in Nat /\ Base >= 4096 /\ Base % 8 = 0 /\ End \in Nat /\ End < WordSize
  BY AreaAligned, AreaHoldsHeader, WordHoldsArea DEF End

\* The tiling of the nodes in the form the lemmas use.
LEMMA TileFacts ==
    ASSUME TypeOK, NodesTileArea, InArea
    PROVE  TileOf(node)
<1>1. Base \in DOMAIN node
  BY DEF NodesTileArea
<1>2. ASSUME NEW a \in DOMAIN node PROVE TileAt(node, a)
  <2>1. a \in Nat /\ node[a].size \in Nat /\ node[a].next \in Nat
    BY <1>2 DEF TypeOK, Headers
  <2>2. EndIn(node, a) = EndOf(a)
    BY DEF EndIn, EndOf, HeaderSize
  <2> QED
    BY <1>2, <2>1, <2>2 DEF TileAt, NodesTileArea, InArea, EndIn, EndOf, NULL, HeaderSize
<1> QED
  BY <1>1, <1>2 DEF TileOf

\* ... and back.
LEMMA TileBack ==
    ASSUME TileOf(node)'
    PROVE  NodesTileArea' /\ InArea'
<1>1. \A a \in DOMAIN node' : TileAt(node', a)
  BY DEF TileOf
<1>2. \A a \in DOMAIN node' : EndOf(a)' = EndIn(node', a)
  BY DEF EndIn, EndOf, HeaderSize
<1>3. InArea'
  BY <1>1, <1>2 DEF TileAt, InArea
<1>4. Base \in DOMAIN node'
  BY DEF TileOf
<1> QED
  BY <1>1, <1>2, <1>3, <1>4 DEF TileAt, NodesTileArea, NULL

\* A change of the free flags leaves the tiling alone.
LEMMA TileSame ==
    ASSUME NEW nd, NEW md, TileOf(nd), DOMAIN md = DOMAIN nd,
           \A a \in DOMAIN nd : md[a].size = nd[a].size /\ md[a].next = nd[a].next
    PROVE  TileOf(md)
  BY DEF TileOf, TileAt, EndIn

\* Splitting off the tail of a node keeps the tiling, and the new header lies
\* where none was.
LEMMA TileSplit ==
    ASSUME NEW nd, NEW md, TileOf(nd),
           NEW a \in DOMAIN nd, NEW s \in Nat, s % 8 = 0, nd[a].size > s + 56,
           NEW new, new = a + 24 + s, DOMAIN md = DOMAIN nd \cup {new},
           md[a].size = s, md[a].next = new,
           md[new].size = nd[a].size - s - 24, md[new].next = nd[a].next,
           \A b \in DOMAIN nd : b # a => md[b].size = nd[b].size /\ md[b].next = nd[b].next
    PROVE  TileOf(md) /\ new \notin DOMAIN nd
<1>1. TileAt(nd, a) /\ \A b \in DOMAIN nd : TileAt(nd, b)
  BY DEF TileOf
<1>2. /\ a \in Nat /\ new \in Nat /\ a < new /\ new % 8 = 0 /\ Base <= new
      /\ EndIn(nd, a) \in Nat /\ new < EndIn(nd, a) /\ Base \in Nat
  BY <1>1, BaseFacts DEF TileAt, EndIn
<1>3. new \notin DOMAIN nd
  BY <1>1, <1>2 DEF TileAt
<1>4. EndIn(md, a) = new /\ EndIn(md, new) = EndIn(nd, a)
      /\ \A b \in DOMAIN nd : b # a => EndIn(md, b) = EndIn(nd, b)
  BY <1>1, <1>2 DEF TileAt, EndIn
<1>5. TileAt(md, a)
  BY <1>1, <1>2, <1>4, BaseFacts DEF TileAt
<1>6. TileAt(md, new)
  <2>1. \A b \in DOMAIN md : new < b => EndIn(nd, a) <= b
    BY <1>1, <1>2 DEF TileAt
  <2>2. md[new].size \in Nat /\ md[new].size % 8 = 0 /\ md[new].next \in Nat
    BY <1>1 DEF TileAt
  <2> QED
    BY <1>1, <1>2, <1>4, <2>1, <2>2 DEF TileAt
<1>7. ASSUME NEW b \in DOMAIN nd, b # a PROVE TileAt(md, b)
  <2>1. TileAt(nd, b) /\ b \in Nat /\ EndIn(nd, b) \in Nat
    BY <1>1, <1>7 DEF TileAt, EndIn
  <2>2. b < new => EndIn(nd, b) <= new
    BY <1>1, <1>2, <1>7, <2>1 DEF TileAt
  <2> QED
    BY <1>4, <1>7, <2>1, <2>2 DEF TileAt
<1> QED
  BY <1>3, <1>5, <1>6, <1>7 DEF TileOf

\* Merging a node with the one that follows it keeps the tiling.
LEMMA TileMerge ==
    ASSUME NEW nd, NEW md, TileOf(nd),
           NEW a \in DOMAIN nd, NEW gone, gone = nd[a].next, gone # 0,
           DOMAIN md = DOMAIN nd \ {gone},
           md[a].size = nd[a].size + 24 + nd[gone].size, md[a].next = nd[gone].next,
           \A b \in DOMAIN md : b # a => md[b].size = nd[b].size /\ md[b].next = nd[b].next
    PROVE  TileOf(md) /\ a < gone
<1>1. \A b \in DOMAIN nd : TileAt(nd, b)
  BY DEF TileOf
<1>2. gone \in DOMAIN nd /\ gone = EndIn(nd, a) /\ a \in Nat /\ gone \in Nat /\ a < gone
      /\ TileAt(nd, a) /\ TileAt(nd, gone) /\ Base < gone /\ Base \in Nat
  BY <1>1, BaseFacts DEF TileAt, EndIn
<1>3. EndIn(md, a) = EndIn(nd, gone) /\ \A b \in DOMAIN md : b # a => EndIn(md, b) = EndIn(nd, b)
  BY <1>2 DEF TileAt, EndIn
<1>4. TileAt(md, a)
  <2>1. \A b \in DOMAIN md : a < b => EndIn(nd, gone) <= b
    BY <1>1, <1>2 DEF TileAt, EndIn
  <2>2. nd[gone].next # 0 => nd[gone].next # gone
    BY <1>2 DEF TileAt, EndIn
  <2> QED
    BY <1>2, <1>3, <2>1, <2>2 DEF TileAt
<1>5. ASSUME NEW b \in DOMAIN md, b # a PROVE TileAt(md, b)
  <2>1. TileAt(nd, b) /\ b \in Nat /\ EndIn(nd, b) \in Nat /\ EndIn(nd, b) > b
    BY <1>1, <1>5 DEF TileAt, EndIn
  <2>2. EndIn(nd, b) # gone
    <3>1. CASE b < a
      BY <1>2, <2>1, <3>1 DEF TileAt
    <3>2. CASE a < b
      BY <1>2, <2>1, <3>2, <1>5 DEF TileAt
    <3> QED
      BY <3>1, <3>2, <1>2, <1>5, <2>1
  <2> QED
    BY <1>3, <1>5, <2>1, <2>2 DEF TileAt
<1>6. Base \in DOMAIN md
  BY <1>2 DEF TileOf
<1> QED
  BY <1>2, <1>4, <1>5, <1>6 DEF TileOf

-----------------------------------------------------------------------------
(* The steps.                                                               *)

\* The fields of a header.
LEMMA Fields ==
    ASSUME TypeOK, NEW a \in DOMAIN node
    PROVE  a \in Nat /\ a # 0 /\ node[a].size \in Nat /\ node[a].next \in Nat
           /\ node[a].free \in BOOLEAN
<1>1. a \in Nat \ {0}
  BY DEF TypeOK, NULL
<1>2. node[a] \in [size : Nat, next : Nat, free : BOOLEAN]
  BY DEF TypeOK, Headers
<1>3. node[a].free \in BOOLEAN
  BY <1>2, Zenon
<1>4. node[a].size \in Nat /\ node[a].next \in Nat
  BY <1>2
<1> QED
  BY <1>1, <1>3, <1>4

\* What the client of a block of that room may count on: the room covers the
\* request, or the request was rounded to 0 and the block is a leftover.
Enough(room, wanted) == IF wanted <= WordSize - 8 THEN room >= wanted ELSE room <= 56

\* Rounding up to a multiple of 8 does not shrink a request, unless it wraps to 0.
LEMMA RoundedFacts ==
    ASSUME NEW n \in 0..(WordSize - 1)
    PROVE  Rounded(n) \in Nat /\ Rounded(n) % 8 = 0
           /\ (n <= WordSize - 8 => Rounded(n) >= n) /\ (n > WordSize - 8 => Rounded(n) = 0)
<1>1. WordSize \in Nat /\ WordSize > 0
  BY WordHoldsArea, BaseFacts
<1>2. Sum(n, 7) \in Nat /\ (n <= WordSize - 8 => Sum(n, 7) = n + 7)
      /\ (n > WordSize - 8 => Sum(n, 7) < 7)
  BY <1>1 DEF Sum
<1> QED
  BY <1>1, <1>2 DEF Rounded

\* heap_init.
LEMMA InitInv == Init => IInv
<1> SUFFICES ASSUME Init PROVE IInv
  OBVIOUS
<1> USE DEF NULL, HeaderSize
<1>1. node = [a \in {Base} |-> [size |-> AreaSize - 24, next |-> 0, free |-> TRUE]]
  BY DEF Init, Header
<1>2. DOMAIN node = {Base} /\ node[Base].size = AreaSize - 24 /\ node[Base].next = 0
      /\ node[Base].free
  BY <1>1
<1>3. node[Base] \in Headers
  BY <1>1, AreaHoldsHeader DEF Headers
<1>8. owned = {} /\ pc = "client" /\ cursor = 0 /\ want = 0 /\ heap_lock = FALSE
  BY DEF Init
<1>4. TypeOK
  <2>1. DOMAIN node \subseteq Nat \ {NULL} /\ \A a \in DOMAIN node : node[a] \in Headers
    BY <1>2, <1>3, BaseFacts
  <2>2. \A b \in owned : b.ptr \in Nat /\ b.want \in Requests
    BY <1>8
  <2>3. pc \in {"client", "malloc", "free"} /\ cursor \in Nat /\ want \in Requests \cup {0}
    BY <1>8
  <2>4. heap_lock \in BOOLEAN
    BY <1>8, Zenon
  <2> QED
    BY <2>1, <2>2, <2>3, <2>4, Zenon DEF TypeOK
<1>5. NodesTileArea /\ InArea
  BY <1>2, BaseFacts, AreaHoldsHeader DEF NodesTileArea, InArea, EndOf, End
<1>6. BlocksAreAllocated /\ BlocksAreLargeEnough
  BY <1>2, <1>8 DEF BlocksAreAllocated, BlocksAreLargeEnough
<1>7. WalkInv
  <2>1. \A a, b \in DOMAIN node : ~FreePair(a, b)
    BY <1>2, BaseFacts DEF FreePair
  <2> QED
    BY <1>8, <2>1 DEF WalkInv
<1> QED
  BY <1>4, <1>5, <1>6, <1>7 DEF IInv

\* The steps that leave the nodes and the blocks alone.
LEMMA KeepsNodes ==
    ASSUME IInv, UNCHANGED <<node, owned>>, TypeOK', WalkInv'
    PROVE  IInv'
<1>1. NodesTileArea' /\ InArea'
  BY DEF IInv, NodesTileArea, InArea, EndOf
<1>2. BlocksAreAllocated' /\ BlocksAreLargeEnough'
  BY DEF IInv, BlocksAreAllocated, BlocksAreLargeEnough
<1> QED
  BY <1>1, <1>2 DEF IInv

LEMMA MallocCallInv ==
    ASSUME IInv, NEW n \in Requests, MallocCall(n)
    PROVE  IInv'
<1>1. TypeOK'
  BY BaseFacts DEF IInv, TypeOK, MallocCall, First
<1>2. WalkInv'
  <2>1. Base \in DOMAIN node /\ \A a \in DOMAIN node : ~(a < Base)
    BY TileFacts, BaseFacts DEF IInv, TileOf, TileAt
  <2> QED
    BY <2>1 DEF IInv, WalkInv, FreePair, MallocCall, First
<1> QED
  BY <1>1, <1>2, KeepsNodes DEF MallocCall

LEMMA MallocStepInv ==
    ASSUME IInv, MallocStep
    PROVE  IInv'
<1>1. /\ pc = "malloc" /\ cursor \in DOMAIN node /\ ~Fits(cursor) /\ node[cursor].next # 0
      /\ cursor' = node[cursor].next /\ UNCHANGED <<node, owned, pc, want, heap_lock>>
  BY DEF IInv, WalkInv, MallocStep, NULL
<1>2. TileAt(node, cursor)
  BY <1>1, TileFacts DEF IInv, TileOf
<1>3. cursor' \in DOMAIN node /\ cursor' \in Nat
  BY <1>1, <1>2 DEF TileAt
<1>4. TypeOK'
  BY <1>1, <1>3 DEF IInv, TypeOK
<1>5. ASSUME NEW a \in DOMAIN node, a < cursor' PROVE ~Fits(a)
  <2>1. a \in Nat
    BY Fields DEF IInv
  <2>2. ~(cursor < a)
    BY <1>1, <1>2, <1>5, <2>1 DEF TileAt, EndIn
  <2>3. a < cursor => ~Fits(a)
    BY <1>1 DEF IInv, WalkInv
  <2> QED
    BY <1>1, <1>2, <2>1, <2>2, <2>3 DEF TileAt
<1>6. \A a \in DOMAIN node : Fits(a)' = Fits(a)
  BY <1>1 DEF Fits, size
<1>7. WalkInv'
  BY <1>1, <1>3, <1>5, <1>6 DEF IInv, WalkInv, FreePair
<1> QED
  BY <1>1, <1>4, <1>7, KeepsNodes

LEMMA MallocFailInv ==
    ASSUME IInv, MallocFail
    PROVE  IInv'
<1>1. TypeOK'
  BY Zenon DEF IInv, TypeOK, MallocFail, Return, NULL
<1>2. WalkInv'
  BY DEF IInv, WalkInv, FreePair, MallocFail, Return
<1> QED
  BY <1>1, <1>2, KeepsNodes DEF MallocFail

LEMMA SweepEndInv ==
    ASSUME IInv, SweepEnd
    PROVE  IInv'
<1>1. TypeOK'
  BY Zenon DEF IInv, TypeOK, SweepEnd, Return, NULL
<1>2. WalkInv'
  BY DEF IInv, WalkInv, FreePair, SweepEnd, Return
<1> QED
  BY <1>1, <1>2, KeepsNodes DEF SweepEnd

LEMMA SweepStepInv ==
    ASSUME IInv, SweepStep
    PROVE  IInv'
<1>1. /\ pc = "free" /\ cursor \in DOMAIN node /\ ~Mergeable(cursor)
      /\ cursor' = node[cursor].next /\ UNCHANGED <<node, owned, pc, want, heap_lock>>
  BY DEF IInv, WalkInv, SweepStep, AfterStep, NULL
<1>2. TileAt(node, cursor)
  BY <1>1, TileFacts DEF IInv, TileOf
<1>3. cursor' \in DOMAIN node \cup {0} /\ cursor' \in Nat
  BY <1>1, <1>2 DEF TileAt
<1>4. TypeOK'
  BY <1>1, <1>3 DEF IInv, TypeOK
<1>5. ASSUME NEW a \in DOMAIN node, NEW b \in DOMAIN node, FreePair(a, b)
      PROVE  cursor' # 0 /\ cursor' <= a
  <2>1. a \in Nat /\ b \in Nat /\ b # 0 /\ TileAt(node, a)
    BY Fields, TileFacts DEF IInv, TileOf
  <2>2. cursor <= a
    BY <1>5 DEF IInv, WalkInv
  <2>3. a # cursor
    BY <1>1, <1>5, <2>1 DEF Mergeable, FreePair, NULL
  <2>4. EndIn(node, cursor) <= a
    BY <1>2, <2>1, <2>2, <2>3 DEF TileAt
  <2>5. a < End
    BY <2>1, BaseFacts DEF TileAt, EndIn
  <2> QED
    BY <1>1, <1>2, <2>1, <2>4, <2>5, BaseFacts DEF TileAt, EndIn
<1>6. WalkInv'
  <2>1. \A a, b \in DOMAIN node : FreePair(a, b)' = FreePair(a, b)
    BY <1>1 DEF FreePair
  <2> QED
    BY <1>1, <1>3, <1>5, <2>1 DEF WalkInv, NULL
<1> QED
  BY <1>1, <1>4, <1>6, KeepsNodes

\* What malloc does to the blocks: c was free and is handed out, other nodes
\* keep their size and their flag, and a new one is free.
LEMMA TakenBlocks ==
    ASSUME IInv, NEW c \in DOMAIN node, node[c].free, want \in Nat,
           DOMAIN node \subseteq DOMAIN node', ~node'[c].free,
           Enough(node'[c].size, want),
           \A b \in DOMAIN node : b # c => node'[b].free = node[b].free /\ node'[b].size = node[b].size,
           \A b \in DOMAIN node' \ DOMAIN node : node'[b].free,
           owned' = owned \cup {[ptr |-> c + 24, want |-> want]}
    PROVE  BlocksAreAllocated' /\ BlocksAreLargeEnough'
<1> DEFINE it == [ptr |-> c + 24, want |-> want]
<1>1. it.ptr = c + 24 /\ it.want = want /\ c \in Nat /\ c % 8 = 0 /\ it.ptr - 24 = c /\ it.ptr % 8 = 0
  BY TileFacts DEF IInv, TileOf, TileAt
<1> HIDE DEF it
<1>2. owned' = owned \cup {it}
  BY DEF it
<1>3. ASSUME NEW b \in owned
      PROVE  /\ b.ptr % 8 = 0 /\ b.ptr - 24 \in DOMAIN node' /\ ~node'[b.ptr - 24].free
             /\ b.ptr # it.ptr
             /\ Enough(node'[b.ptr - 24].size, b.want)
  <2>1. b.ptr % 8 = 0 /\ b.ptr - 24 \in DOMAIN node /\ ~node[b.ptr - 24].free
    BY DEF IInv, BlocksAreAllocated, HeaderSize
  <2>2. b.ptr - 24 # c
    BY <2>1
  <2>3. Enough(node[b.ptr - 24].size, b.want)
    BY DEF IInv, BlocksAreLargeEnough, Enough, HeaderSize, SplitSlack
  <2> QED
    BY <1>1, <2>1, <2>2, <2>3
<1>4. \A b, d \in owned : b.ptr = d.ptr => b = d
  BY DEF IInv, BlocksAreAllocated
<1>5. ASSUME NEW a \in DOMAIN node', ~node'[a].free PROVE \E b \in owned' : b.ptr = a + 24
  <2>1. CASE a = c
    BY <1>1, <1>2, <2>1
  <2>2. CASE a # c
    <3>1. a \in DOMAIN node /\ ~node[a].free
      BY <1>5, <2>2
    <3> QED
      BY <1>2, <3>1 DEF IInv, BlocksAreAllocated, HeaderSize
  <2> QED
    BY <2>1, <2>2
<1>6. ASSUME NEW b \in owned'
      PROVE  /\ b.ptr % 8 = 0 /\ b.ptr - 24 \in DOMAIN node' /\ ~node'[b.ptr - 24].free
             /\ Enough(node'[b.ptr - 24].size, b.want)
  BY <1>1, <1>2, <1>3
<1>7. \A b, d \in owned' : b.ptr = d.ptr => b = d
  BY <1>2, <1>3, <1>4
<1>8. BlocksAreLargeEnough'
  BY <1>6 DEF BlocksAreLargeEnough, Enough, HeaderSize, SplitSlack
<1>9. BlocksAreAllocated'
  BY <1>5, <1>6, <1>7 DEF BlocksAreAllocated, HeaderSize
<1> QED
  BY <1>8, <1>9

\* What the walk of malloc has at hand when it takes a node.
LEMMA TakeFacts ==
    ASSUME IInv, MallocTake
    PROVE  /\ cursor \in DOMAIN node /\ node[cursor].free /\ pc = "malloc"
           /\ want \in Requests /\ want \in Nat
           /\ size \in Nat /\ size % 8 = 0 /\ node[cursor].size >= size
           /\ (want <= WordSize - 8 => size >= want) /\ (want > WordSize - 8 => size = 0)
           /\ size + 56 < WordSize
<1>1. cursor \in DOMAIN node /\ node[cursor].free /\ node[cursor].size >= size /\ pc = "malloc"
  BY DEF IInv, WalkInv, MallocTake, Fits
<1>6. want \in Requests
  BY DEF IInv, WalkInv, MallocTake
<1>2. want \in Requests /\ want \in 0..(WordSize - 1)
  BY <1>6, RequestsAreWords
<1>3. size \in Nat /\ size % 8 = 0 /\ (want <= WordSize - 8 => size >= want)
      /\ (want > WordSize - 8 => size = 0)
  BY <1>2, RoundedFacts, WordHoldsArea DEF size
<1>4. TileAt(node, cursor)
  BY <1>1, TileFacts DEF IInv, TileOf
<1>5. size + 56 < WordSize
  BY <1>1, <1>3, <1>4, BaseFacts, WordHoldsArea DEF TileAt, EndIn
<1> QED
  BY <1>1, <1>2, <1>3, <1>5, WordHoldsArea

LEMMA MallocTakeInv ==
    ASSUME IInv, MallocTake
    PROVE  IInv' /\ BlocksKept
<1> DEFINE c == cursor
           new == cursor + 24 + size
<1>1. /\ c \in DOMAIN node /\ node[c].free /\ pc = "malloc"
      /\ want \in Requests /\ want \in Nat
      /\ size \in Nat /\ size % 8 = 0 /\ node[c].size >= size
      /\ (want <= WordSize - 8 => size >= want) /\ (want > WordSize - 8 => size = 0)
      /\ size + 56 < WordSize
  BY TakeFacts
<1>2. TileOf(node) /\ TileAt(node, c) /\ c \in Nat
  BY <1>1, TileFacts DEF IInv, TileOf, TileAt
<1>3. \A a, b \in DOMAIN node : ~FreePair(a, b)
  BY <1>1 DEF IInv, WalkInv
<1>4. owned' = owned \cup {[ptr |-> c + 24, want |-> want]}
      /\ pc' = "client" /\ heap_lock' = FALSE /\ cursor' = 0 /\ want' = 0
  BY DEF MallocTake, Return, NULL, HeaderSize
<1>5. SUFFICES ASSUME TileOf(node)', DOMAIN node' \subseteq Nat \ {0},
                      \A a \in DOMAIN node' : node'[a] \in Headers,
                      DOMAIN node \subseteq DOMAIN node', ~node'[c].free,
                      node'[c].size >= size, node'[c].size <= size + 56,
                      \A b \in DOMAIN node : b # c => node'[b].free = node[b].free
                                                    /\ node'[b].size = node[b].size,
                      \A b \in DOMAIN node' \ DOMAIN node : node'[b].free,
                      \A a, b \in DOMAIN node' : ~FreePair(a, b)'
               PROVE  IInv' /\ BlocksKept
  <2>1. CASE Splits(c)
    <3>1. node[c].size > size + 56
      BY <1>1, <2>1 DEF Splits, Sum, HeaderSize, SplitSlack
    <3>2. node' = [b \in DOMAIN node \cup {new} |->
                     CASE b = new -> [size |-> node[c].size - size - 24,
                                      next |-> node[c].next, free |-> TRUE]
                       [] b = c -> [size |-> size, next |-> new, free |-> FALSE]
                       [] OTHER -> node[b]]
      BY <2>1 DEF MallocTake, Split, Header, Remainder, HeaderSize
    <3>3. new \in Nat /\ c # new /\ new # 0
      BY <1>1, <1>2
    <3> HIDE DEF new
    <3>4. /\ DOMAIN node' = DOMAIN node \cup {new}
          /\ node'[c] = [size |-> size, next |-> new, free |-> FALSE]
          /\ node'[new] = [size |-> node[c].size - size - 24, next |-> node[c].next, free |-> TRUE]
          /\ \A b \in DOMAIN node : b # c /\ b # new => node'[b] = node[b]
      BY <1>1, <3>2, <3>3
    <3>5. /\ node'[c].size = size /\ node'[c].next = new /\ ~node'[c].free
          /\ node'[new].size = node[c].size - size - 24 /\ node'[new].next = node[c].next
          /\ node'[new].free
      BY <3>4
    <3>6. new \notin DOMAIN node
      BY <1>1, <1>2, <3>1 DEF TileAt, EndIn, new
    <3>7. \A b \in DOMAIN node : b # c => node'[b] = node[b]
      BY <3>4, <3>6
    <3>8. TileOf(node')
      BY <1>1, <1>2, <3>1, <3>4, <3>5, <3>7, TileSplit DEF new
    <3>9. \A a \in DOMAIN node' : node'[a] \in Headers
      <4>1. node'[c] \in Headers
        BY <1>1, <3>3, <3>4 DEF Headers
      <4>2. node'[new] \in Headers
        BY <1>1, <1>2, <3>1, <3>4 DEF Headers, TileAt
      <4> QED
        BY <3>4, <3>7, <4>1, <4>2, Zenon DEF IInv, TypeOK
    <3>10. ASSUME NEW a \in DOMAIN node', NEW b \in DOMAIN node' PROVE ~FreePair(a, b)'
      <4>1. CASE a = c
        BY <3>5, <4>1 DEF FreePair
      <4>2. CASE a = new
        <5>1. b # new /\ b # c => node'[b] = node[b] /\ b \in DOMAIN node
          BY <3>4, <3>7, <3>10
        <5>2. node[c].next # new
          BY <1>2, <3>6, <3>3 DEF TileAt
        <5> QED
          BY <1>1, <1>3, <3>5, <4>2, <5>1, <5>2 DEF FreePair
      <4>3. CASE a # c /\ a # new
        <5>1. a \in DOMAIN node /\ node'[a] = node[a]
          BY <3>4, <3>7, <4>3, <3>10
        <5>2. node[a].next # new
          BY <1>2, <3>3, <3>6, <5>1 DEF TileOf, TileAt
        <5>3. b # new /\ b # c => node'[b] = node[b] /\ b \in DOMAIN node
          BY <3>4, <3>7, <3>10
        <5> QED
          BY <1>3, <3>5, <5>1, <5>2, <5>3 DEF FreePair
      <4> QED
        BY <4>1, <4>2, <4>3
    <3>11. node'[c].size >= size /\ node'[c].size <= size + 56
      BY <1>1, <3>5
    <3>12. DOMAIN node' \subseteq Nat \ {0} /\ DOMAIN node \subseteq DOMAIN node'
      BY <3>3, <3>4 DEF IInv, TypeOK, NULL
    <3>13. \A b \in DOMAIN node' \ DOMAIN node : node'[b].free
      BY <3>4, <3>5
    <3> QED
      BY <3>5, <3>7, <3>8, <3>9, <3>10, <3>11, <3>12, <3>13
  <2>2. CASE ~Splits(c)
    <3>1. node' = [node EXCEPT ![c].free = FALSE]
      BY <2>2 DEF MallocTake, Taken
    <3>2. /\ DOMAIN node' = DOMAIN node
          /\ node'[c] = [node[c] EXCEPT !.free = FALSE]
          /\ \A b \in DOMAIN node : b # c => node'[b] = node[b]
      BY <1>1, <3>1
    <3>3. node[c] \in [size : Nat, next : Nat, free : BOOLEAN]
      BY <1>1 DEF IInv, TypeOK, Headers
    <3>4. node'[c].size = node[c].size /\ node'[c].next = node[c].next /\ ~node'[c].free
      BY <3>2, <3>3
    <3>5. node'[c] \in Headers
      BY <3>2, <3>3, Zenon DEF Headers
    <3>6. TileOf(node')
      BY <1>2, <3>2, <3>4, TileSame, Zenon
    <3>7. \A a \in DOMAIN node' : node'[a] \in Headers
      BY <3>2, <3>5 DEF IInv, TypeOK
    <3>8. \A a, b \in DOMAIN node' : ~FreePair(a, b)'
      BY <1>3, <3>2, <3>4, Zenon DEF FreePair
    <3>9. DOMAIN node' \subseteq Nat \ {0} /\ node'[c].size >= size
      BY <1>1, <3>2, <3>4 DEF IInv, TypeOK, NULL
    <3>10. node'[c].size <= size + 56
      BY <1>1, <2>2, <3>3, <3>4 DEF Splits, Sum, HeaderSize, SplitSlack
    <3> QED
      BY <3>2, <3>4, <3>6, <3>7, <3>8, <3>9, <3>10
  <2> QED
    BY <2>1, <2>2
<1>6. NodesTileArea' /\ InArea'
  BY <1>5, TileBack
<1>7. BlocksAreAllocated' /\ BlocksAreLargeEnough'
  <2>1. node'[c].size \in Nat
    BY <1>1, <1>5 DEF Headers
  <2>2. /\ want <= WordSize - 8 => node'[c].size >= want
        /\ want > WordSize - 8 => node'[c].size <= 56
    BY <1>1, <1>5, <2>1, WordHoldsArea
  <2>3. Enough(node'[c].size, want)
    BY <2>2, <1>1, WordHoldsArea DEF Enough
  <2> HIDE DEF c
  <2> QED
    BY <1>1, <1>4, <1>5, <2>3, TakenBlocks
<1>8. TypeOK'
  <2>1. \A b \in owned' : b.ptr \in Nat /\ b.want \in Requests
    BY <1>1, <1>2, <1>4 DEF IInv, TypeOK
  <2>2. DOMAIN node' \subseteq Nat \ {NULL}
    BY <1>5 DEF NULL
  <2> QED
    BY <1>4, <1>5, <2>1, <2>2, Zenon DEF TypeOK
<1>9. WalkInv'
  BY <1>4, <1>5 DEF WalkInv
<1>10. BlocksKept
  <2>1. \A b \in owned : b.ptr - 24 \in DOMAIN node /\ ~node[b.ptr - 24].free
    BY DEF IInv, BlocksAreAllocated, HeaderSize
  <2> QED
    BY <1>1, <1>5, <2>1 DEF BlocksKept
<1> QED
  BY <1>6, <1>7, <1>8, <1>9, <1>10 DEF IInv

\* free clears the node of the block; the pairs it makes lie ahead of the sweep.
LEMMA FreeCallInv ==
    ASSUME IInv, NEW b \in owned, FreeCall(b)
    PROVE  IInv' /\ BlocksKept
<1> DEFINE c == b.ptr - 24
<1>1. /\ c \in DOMAIN node /\ ~node[c].free /\ b.ptr \in Nat /\ c + 24 = b.ptr
      /\ \A d \in owned : d.ptr = b.ptr => d = b
  BY DEF IInv, TypeOK, BlocksAreAllocated, HeaderSize
<1>2. node' = [node EXCEPT ![c].free = TRUE]
  BY DEF FreeCall, HeaderSize
<1>3. owned' = owned \ {b} /\ pc' = "free" /\ cursor' = Base /\ want' = want /\ heap_lock' = TRUE
  BY DEF FreeCall
<1> HIDE DEF c
<1>4. /\ DOMAIN node' = DOMAIN node
      /\ node'[c] = [node[c] EXCEPT !.free = TRUE]
      /\ \A a \in DOMAIN node : a # c => node'[a] = node[a]
  BY <1>1, <1>2
<1>5. node[c] \in [size : Nat, next : Nat, free : BOOLEAN]
  BY <1>1 DEF IInv, TypeOK, Headers
<1>6. node'[c].size = node[c].size /\ node'[c].next = node[c].next /\ node'[c].free
  BY <1>4, <1>5
<1>7. TileOf(node)
  BY TileFacts DEF IInv
<1>8. TileOf(node')
  BY <1>4, <1>6, <1>7, TileSame, Zenon
<1>9. TypeOK'
  <2>1. node'[c] \in Headers
    BY <1>4, <1>5, Zenon DEF Headers
  <2>2. DOMAIN node' \subseteq Nat \ {NULL} /\ \A a \in DOMAIN node' : node'[a] \in Headers
    BY <1>4, <2>1 DEF IInv, TypeOK
  <2>3. cursor' \in Nat /\ pc' \in {"client", "malloc", "free"} /\ want' \in Requests \cup {0}
    BY <1>3, BaseFacts DEF IInv, TypeOK
  <2>4. heap_lock' \in BOOLEAN
    BY <1>3, Zenon
  <2>5. \A d \in owned' : d.ptr \in Nat /\ d.want \in Requests
    BY <1>3 DEF IInv, TypeOK
  <2> QED
    BY <2>2, <2>3, <2>4, <2>5, Zenon DEF TypeOK
<1>10. NodesTileArea' /\ InArea'
  BY <1>8, <1>9, TileBack
<1>11. ASSUME NEW d \in owned'
       PROVE  /\ d \in owned /\ d.ptr % 8 = 0 /\ d.ptr - 24 \in DOMAIN node' /\ d.ptr - 24 # c
              /\ ~node'[d.ptr - 24].free
              /\ Enough(node'[d.ptr - 24].size, d.want)
  <2>1. d \in owned /\ d # b /\ d.ptr \in Nat
    BY <1>3, <1>11 DEF IInv, TypeOK
  <2>2. d.ptr - 24 # c
    BY <1>1, <2>1
  <2>3. d.ptr % 8 = 0 /\ d.ptr - 24 \in DOMAIN node /\ ~node[d.ptr - 24].free
    BY <2>1 DEF IInv, BlocksAreAllocated, HeaderSize
  <2>4. Enough(node[d.ptr - 24].size, d.want)
    BY <2>1 DEF IInv, BlocksAreLargeEnough, Enough, HeaderSize, SplitSlack
  <2> QED
    BY <1>4, <2>1, <2>2, <2>3, <2>4
<1>12. BlocksAreLargeEnough'
  BY <1>11 DEF BlocksAreLargeEnough, Enough, HeaderSize, SplitSlack
<1>13. BlocksAreAllocated'
  <2>1. \A d, e \in owned' : d.ptr = e.ptr => d = e
    BY <1>11 DEF IInv, BlocksAreAllocated
  <2>2. ASSUME NEW a \in DOMAIN node', ~node'[a].free PROVE \E d \in owned' : d.ptr = a + 24
    <3>1. a # c /\ a \in DOMAIN node /\ ~node[a].free
      BY <1>4, <1>6, <2>2, Zenon
    <3>2. PICK d \in owned : d.ptr = a + 24
      BY <3>1 DEF IInv, BlocksAreAllocated, HeaderSize
    <3>3. a \in Nat
      BY <3>1 DEF IInv, TypeOK
    <3>4. c \in Nat
      BY <1>1 DEF IInv, TypeOK
    <3>5. d # b
      BY <1>1, <3>1, <3>2, <3>3, <3>4
    <3> QED
      BY <1>3, <3>2, <3>5
  <2> QED
    BY <1>11, <2>1, <2>2 DEF BlocksAreAllocated, HeaderSize
<1>14. WalkInv'
  <2>1. \A a \in DOMAIN node' : cursor' <= a /\ cursor' # 0
    BY <1>3, <1>4, <1>7, BaseFacts DEF TileOf, TileAt
  <2>2. cursor' \in DOMAIN node'
    BY <1>3, <1>4, <1>7 DEF TileOf
  <2> QED
    BY <1>3, <2>1, <2>2 DEF WalkInv, NULL
<1>15. BlocksKept
  BY <1>4, <1>11 DEF BlocksKept
<1> QED
  BY <1>9, <1>10, <1>12, <1>13, <1>14, <1>15 DEF IInv

\* A merge: nobody holds the node that is swallowed, and the pairs left behind
\* the sweep stay away.
LEMMA SweepMergeInv ==
    ASSUME IInv, SweepMerge
    PROVE  IInv' /\ BlocksKept
<1> DEFINE c == cursor
           g == node[cursor].next
<1>1. c \in DOMAIN node /\ node[c].free /\ g # 0 /\ node[g].free /\ pc = "free" /\ c # 0
  BY DEF IInv, WalkInv, SweepMerge, Mergeable, NULL
<1>2. TileOf(node)
  BY TileFacts DEF IInv
<1>3. g \in DOMAIN node /\ g \in Nat /\ c \in Nat /\ c < g
  BY <1>1, <1>2 DEF TileOf, TileAt, EndIn
<1>4. node' = [b \in DOMAIN node \ {g} |->
                 IF b = c THEN [size |-> node[b].size + 24 + node[g].size,
                                next |-> node[g].next, free |-> node[b].free]
                 ELSE node[b]]
  BY DEF SweepMerge, Header, HeaderSize
<1>5. owned' = owned /\ pc' = pc /\ want' = want /\ heap_lock' = heap_lock /\ cursor' = c
  BY DEF SweepMerge, AfterMerge
<1>6. node[c].next = g
  OBVIOUS
<1> HIDE DEF c, g
<1>7. /\ DOMAIN node' = DOMAIN node \ {g}
      /\ node'[c] = [size |-> node[c].size + 24 + node[g].size, next |-> node[g].next,
                     free |-> node[c].free]
      /\ \A b \in DOMAIN node' : b # c => node'[b] = node[b]
  <2>1. DOMAIN node' = DOMAIN node \ {g}
    BY <1>4
  <2>2. c \in DOMAIN node \ {g}
    BY <1>1, <1>3
  <2>3. node'[c] = [size |-> node[c].size + 24 + node[g].size, next |-> node[g].next,
                    free |-> node[c].free]
    BY <1>4, <2>2
  <2>4. \A b \in DOMAIN node \ {g} : b # c => node'[b] = node[b]
    BY <1>4
  <2> QED
    BY <2>1, <2>3, <2>4
<1>8. /\ node'[c].size = node[c].size + 24 + node[g].size
      /\ node'[c].next = node[g].next /\ node'[c].free /\ c \in DOMAIN node'
  BY <1>1, <1>3, <1>7
<1>9. TileOf(node')
  BY <1>1, <1>2, <1>3, <1>6, <1>7, <1>8, TileMerge
<1>10. TypeOK'
  <2>1. node[c] \in [size : Nat, next : Nat, free : BOOLEAN]
        /\ node[g] \in [size : Nat, next : Nat, free : BOOLEAN]
    BY <1>1, <1>3 DEF IInv, TypeOK, Headers
  <2>2. node[c].size + 24 + node[g].size \in Nat /\ node[g].next \in Nat
    BY <2>1
  <2>3. node[c].free \in BOOLEAN
    BY <2>1, Zenon
  <2>4. node'[c] \in Headers
    BY <1>7, <2>2, <2>3 DEF Headers
  <2>5. DOMAIN node' \subseteq Nat \ {NULL} /\ \A a \in DOMAIN node' : node'[a] \in Headers
    BY <1>7, <2>4 DEF IInv, TypeOK
  <2>6. \A d \in owned' : d.ptr \in Nat /\ d.want \in Requests
    BY <1>5 DEF IInv, TypeOK
  <2>7. pc' \in {"client", "malloc", "free"} /\ want' \in Requests \cup {0} /\ cursor' \in Nat
    BY <1>3, <1>5 DEF IInv, TypeOK
  <2>8. heap_lock' \in BOOLEAN
    BY <1>5, Zenon DEF IInv, TypeOK
  <2> QED
    BY <2>5, <2>6, <2>7, <2>8, Zenon DEF TypeOK
<1>11. NodesTileArea' /\ InArea'
  BY <1>9, <1>10, TileBack
<1>12. ASSUME NEW d \in owned
       PROVE  /\ d.ptr % 8 = 0 /\ d.ptr - 24 \in DOMAIN node'
              /\ node'[d.ptr - 24] = node[d.ptr - 24] /\ ~node[d.ptr - 24].free
              /\ Enough(node[d.ptr - 24].size, d.want)
  <2>1. d.ptr % 8 = 0 /\ d.ptr - 24 \in DOMAIN node /\ ~node[d.ptr - 24].free
    BY DEF IInv, BlocksAreAllocated, HeaderSize
  <2>2. d.ptr - 24 # c /\ d.ptr - 24 # g
    BY <1>1, <2>1
  <2>3. Enough(node[d.ptr - 24].size, d.want)
    BY DEF IInv, BlocksAreLargeEnough, Enough, HeaderSize, SplitSlack
  <2> QED
    BY <1>7, <2>1, <2>2, <2>3
<1>13. BlocksAreLargeEnough'
  BY <1>5, <1>12 DEF BlocksAreLargeEnough, Enough, HeaderSize, SplitSlack
<1>14. BlocksAreAllocated'
  <2>1. \A d, e \in owned' : d.ptr = e.ptr => d = e
    BY <1>5 DEF IInv, BlocksAreAllocated
  <2>2. ASSUME NEW a \in DOMAIN node', ~node'[a].free PROVE \E d \in owned' : d.ptr = a + 24
    <3>1. a # c /\ a \in DOMAIN node /\ ~node[a].free
      BY <1>7, <1>8, <2>2
    <3> QED
      BY <1>5, <3>1 DEF IInv, BlocksAreAllocated, HeaderSize
  <2>3. \A d \in owned' : d.ptr % 8 = 0 /\ d.ptr - 24 \in DOMAIN node' /\ ~node'[d.ptr - 24].free
    BY <1>5, <1>12
  <2> QED
    BY <2>1, <2>2, <2>3 DEF BlocksAreAllocated, HeaderSize
<1>15. WalkInv'
  <2>1. ASSUME NEW a \in DOMAIN node', NEW b \in DOMAIN node', FreePair(a, b)' PROVE c <= a
    <3>1. CASE a = c
      BY <1>3, <3>1
    <3>2. CASE a # c
      <4>1. a \in DOMAIN node /\ node[a].free /\ node[a].next = b
        BY <1>7, <2>1, <3>2 DEF FreePair
      <4>2. b \in DOMAIN node /\ node[b].free
        BY <1>1, <1>7, <2>1 DEF FreePair
      <4> QED
        BY <4>1, <4>2 DEF IInv, WalkInv, FreePair, c
    <3> QED
      BY <3>1, <3>2
  <2> QED
    BY <1>1, <1>5, <1>8, <2>1 DEF WalkInv, NULL
<1>16. BlocksKept
  BY <1>12 DEF BlocksKept
<1> QED
  BY <1>10, <1>11, <1>13, <1>14, <1>15, <1>16 DEF IInv

-----------------------------------------------------------------------------
(* The theorems.                                                            *)

\* Every step keeps the inductive invariant and moves no block.
LEMMA NextInv ==
    ASSUME IInv, [Next]_vars
    PROVE  IInv' /\ BlocksKept
<1>1. ASSUME NEW n \in Requests, MallocCall(n) PROVE IInv' /\ UNCHANGED node
  BY <1>1, MallocCallInv DEF MallocCall
<1>2. ASSUME NEW b \in owned, FreeCall(b) PROVE IInv' /\ BlocksKept
  BY <1>2, FreeCallInv
<1>3. CASE MallocTake
  BY <1>3, MallocTakeInv
<1>4. CASE MallocStep
  <2>1. IInv' /\ UNCHANGED <<node, owned>>
    BY <1>4, MallocStepInv DEF MallocStep
  <2> QED
    BY <2>1 DEF IInv, BlocksAreAllocated, BlocksKept, HeaderSize
<1>5. CASE MallocFail
  <2>1. IInv' /\ UNCHANGED <<node, owned>>
    BY <1>5, MallocFailInv DEF MallocFail
  <2> QED
    BY <2>1 DEF IInv, BlocksAreAllocated, BlocksKept, HeaderSize
<1>6. CASE SweepMerge
  BY <1>6, SweepMergeInv
<1>7. CASE SweepStep
  <2>1. IInv' /\ UNCHANGED <<node, owned>>
    BY <1>7, SweepStepInv DEF SweepStep
  <2> QED
    BY <2>1 DEF IInv, BlocksAreAllocated, BlocksKept, HeaderSize
<1>8. CASE SweepEnd
  <2>1. IInv' /\ UNCHANGED <<node, owned>>
    BY <1>8, SweepEndInv DEF SweepEnd
  <2> QED
    BY <2>1 DEF IInv, BlocksAreAllocated, BlocksKept, HeaderSize
<1>9. CASE UNCHANGED vars
  <2>1. UNCHANGED <<node, owned>> /\ TypeOK' /\ WalkInv'
    BY <1>9 DEF vars, IInv, TypeOK, WalkInv, FreePair, Fits, size
  <2>2. IInv'
    BY <2>1, KeepsNodes
  <2> QED
    BY <2>1, <2>2 DEF IInv, BlocksAreAllocated, BlocksKept, HeaderSize
<1>10. ASSUME NEW n \in Requests, MallocCall(n) PROVE BlocksKept
  BY <1>1, <1>10 DEF MallocCall, IInv, BlocksAreAllocated, BlocksKept, HeaderSize
<1> QED
  BY <1>1, <1>2, <1>3, <1>4, <1>5, <1>6, <1>7, <1>8, <1>9, <1>10 DEF Next, Walk

\* The inductive invariant of malloc and free holds in every reachable state,
\* in the middle of their walks included.
THEOREM HeapInvariant == Spec => []IInv
<1>1. IInv /\ [Next]_vars => IInv'
  BY NextInv
<1> QED
  BY <1>1, InitInv, PTL DEF Spec

\* However malloc splits and free merges, the nodes cover heap_area without a
\* gap or an overlap.
THEOREM NodesStayTiled == Spec => []NodesTileArea
<1>1. IInv => NodesTileArea
  BY DEF IInv
<1> QED
  BY <1>1, HeapInvariant, PTL

\* malloc never hands out a block twice, and every allocated node has an owner
\* who can free it: nothing leaks inside the heap.
THEOREM BlocksStayAllocated == Spec => []BlocksAreAllocated
<1>1. IInv => BlocksAreAllocated
  BY DEF IInv
<1> QED
  BY <1>1, HeapInvariant, PTL

\* Rounding in malloc and splitting leave a block as large as was asked for, for
\* every size but the last seven of a word.  Those wrap to 0 in malloc, and the
\* block is one of at most 56 bytes, or of none.
THEOREM BlocksStayLargeEnough == Spec => []BlocksAreLargeEnough
<1>1. IInv => BlocksAreLargeEnough
  BY DEF IInv
<1> QED
  BY <1>1, HeapInvariant, PTL

\* One sweep of free is enough to merge all free neighbours.
THEOREM StaysCoalesced == Spec => []FullyCoalesced
<1>1. IInv => FullyCoalesced
  BY DEF IInv, WalkInv, FreePair, FullyCoalesced
<1> QED
  BY <1>1, HeapInvariant, PTL

\* When all clients have called free the heap is one free node again.
THEOREM HeapRecovers == Spec => []EmptyHeapIsWhole
<1>1. ASSUME IInv, pc # "free", owned = {}
      PROVE  DOMAIN node = {Base} /\ node[Base] = Header(AreaSize - HeaderSize, NULL, TRUE)
  <2>1. TileOf(node)
    BY <1>1, TileFacts DEF IInv
  <2>2. \A a \in DOMAIN node : node[a].free
    BY <1>1 DEF IInv, BlocksAreAllocated
  <2>3. \A a \in DOMAIN node : node[a].next = 0
    BY <1>1, <2>1, <2>2 DEF IInv, WalkInv, FreePair, TileOf, TileAt
  <2>4. Base \in DOMAIN node /\ TileAt(node, Base) /\ node[Base].next = 0
    BY <2>1, <2>3 DEF TileOf
  <2>5. EndIn(node, Base) = End
    BY <2>4 DEF TileAt
  <2>6. \A a \in DOMAIN node : a \in Nat /\ Base <= a /\ a < End
    BY <2>1, BaseFacts DEF TileOf, TileAt, EndIn
  <2>7. DOMAIN node = {Base}
    BY <2>4, <2>5, <2>6, BaseFacts DEF TileAt
  <2>8. node[Base].size = AreaSize - 24
    BY <2>4, <2>5, BaseFacts, AreaHoldsHeader DEF EndIn, End, TileAt
  <2>9. node[Base] \in [size : Nat, next : Nat, free : BOOLEAN]
    BY <1>1, <2>4 DEF IInv, TypeOK, Headers
  <2>10. node[Base].free = TRUE
    <3>1. node[Base].free \in BOOLEAN
      BY <2>9, Zenon
    <3> QED
      BY <2>2, <2>4, <3>1, Zenon
  <2> QED
    BY <2>4, <2>7, <2>8, <2>9, <2>10 DEF Header, HeaderSize, NULL
<1>2. IInv => EmptyHeapIsWhole
  BY <1>1 DEF EmptyHeapIsWhole
<1> QED
  BY <1>2, HeapInvariant, PTL

\* malloc returns 0 only after it has passed over every node, and none of them
\* was large enough.
THEOREM MallocFailsOnlyWhenFull == Spec => FailsOnlyWhenFull
<1>1. ASSUME IInv, MallocFail, NEW a \in DOMAIN node PROVE ~Fits(a)
  <2>1. TileOf(node)
    BY <1>1, TileFacts DEF IInv
  <2>2. /\ cursor \in DOMAIN node /\ ~Fits(cursor) /\ node[cursor].next = 0
        /\ \A b \in DOMAIN node : b < cursor => ~Fits(b)
    BY <1>1 DEF IInv, WalkInv, MallocFail, NULL
  <2>3. EndIn(node, cursor) = End /\ cursor \in Nat
    BY <2>1, <2>2 DEF TileOf, TileAt
  <2>4. a \in Nat /\ a < End
    BY <1>1, <2>1, BaseFacts DEF TileOf, TileAt, EndIn
  <2>5. ~(cursor < a)
    BY <1>1, <2>1, <2>2, <2>3, <2>4, BaseFacts DEF TileOf, TileAt
  <2> QED
    BY <1>1, <2>2, <2>3, <2>4, <2>5
<1>2. IInv /\ [Next]_vars => [MallocFail => \A a \in DOMAIN node : ~Fits(a)]_vars
  BY <1>1
<1> QED
  BY <1>2, HeapInvariant, PTL DEF Spec, FailsOnlyWhenFull

\* No step of malloc or free moves, shrinks or swallows a block that a client
\* keeps.
THEOREM BlocksNeverMove == Spec => BlocksStayPut
<1>1. IInv /\ [Next]_vars =>
        [\A b \in owned \cap owned' :
            /\ b.ptr - HeaderSize \in DOMAIN node'
            /\ node'[b.ptr - HeaderSize].size = node[b.ptr - HeaderSize].size]_vars
  BY NextInv DEF BlocksKept, HeaderSize
<1> QED
  BY <1>1, HeapInvariant, PTL DEF Spec, BlocksStayPut

\* How far a call still has to go: to the end of the area, counted from the end
\* of the node its walk is at.
ToGo ==
    IF pc = "client" THEN 0
    ELSE IF cursor = NULL THEN 1
    ELSE End - EndOf(cursor) + 2

\* Every step that is taken while a call is under way brings it nearer to its
\* return: neither walk turns back, and merging does not hold it up.
WalksAdvance ==
    [][pc # "client" => ToGo' \in Nat /\ ToGo' < ToGo]_vars

\* Every walk of malloc and free is finite: each step brings the call nearer to
\* its return, by a measure that is at most the size of the area.
THEOREM WalksAreFinite == Spec => WalksAdvance
<1>1. ASSUME IInv, pc # "client", [Next]_vars, vars' # vars
      PROVE  ToGo' \in Nat /\ ToGo' < ToGo
  <2>1. TileOf(node) /\ \A a \in DOMAIN node : a \in Nat /\ EndOf(a) = EndIn(node, a)
    BY <1>1, TileFacts DEF IInv, TileOf, TileAt, EndOf, EndIn, HeaderSize
  <2>2. \A a \in DOMAIN node : a # 0 /\ EndOf(a) \in Nat /\ EndOf(a) <= End
    BY <1>1, <2>1, BaseFacts DEF TileOf, TileAt, EndIn
  <2>3. pc \in {"malloc", "free"}
    BY <1>1 DEF IInv, TypeOK
  <2>4. cursor \in DOMAIN node => ToGo = End - EndOf(cursor) + 2
    BY <1>1, <2>2 DEF ToGo, NULL
  <2>5. pc = "malloc" => cursor \in DOMAIN node
    BY <1>1 DEF IInv, WalkInv
  <2>6. pc = "free" => cursor \in DOMAIN node \/ cursor = 0
    BY <1>1 DEF IInv, WalkInv, NULL
  <2>7. CASE MallocTake \/ MallocFail \/ SweepEnd
    <3>1. ToGo' = 0
      BY <2>7 DEF MallocTake, MallocFail, SweepEnd, Return, ToGo
    <3>2. cursor = 0 => ToGo = 1
      BY <1>1 DEF ToGo, NULL
    <3> QED
      BY <2>2, <2>3, <2>4, <2>5, <2>6, <3>1, <3>2, BaseFacts
  <2>8. CASE MallocStep \/ (SweepStep /\ node[cursor].next # 0)
    <3>1. /\ cursor \in DOMAIN node /\ cursor' = node[cursor].next /\ node[cursor].next # 0
          /\ node' = node /\ pc' = pc
      BY <2>5, <2>6, <2>8 DEF MallocStep, SweepStep, AfterStep, NULL
    <3>2. cursor' \in DOMAIN node /\ cursor' = EndOf(cursor)
      BY <2>1, <3>1 DEF TileOf, TileAt
    <3>3. EndOf(cursor') > cursor'
      BY <2>1, <3>2 DEF TileOf, TileAt, EndIn
    <3>4. ToGo' = End - EndOf(cursor') + 2
      BY <1>1, <2>2, <3>1, <3>2 DEF ToGo, NULL, EndOf
    <3> QED
      BY <2>2, <2>4, <3>1, <3>2, <3>3, <3>4, BaseFacts
  <2>9. CASE SweepStep /\ node[cursor].next = 0
    <3>1. cursor \in DOMAIN node /\ ToGo' = 1
      BY <2>3, <2>5, <2>6, <2>9 DEF SweepStep, AfterStep, ToGo, NULL
    <3> QED
      BY <2>2, <2>4, <3>1, BaseFacts
  <2>10. CASE SweepMerge
    <3> DEFINE g == node[cursor].next
    <3>1. cursor \in DOMAIN node /\ g # 0 /\ pc' = pc /\ cursor' = cursor
      BY <2>3, <2>6, <2>10 DEF SweepMerge, AfterMerge, Mergeable, NULL
    <3>2. g \in DOMAIN node /\ g # cursor
      BY <2>1, <3>1 DEF TileOf, TileAt, EndIn
    <3>3. node' = [b \in DOMAIN node \ {g} |->
                     IF b = cursor THEN Header(node[b].size + HeaderSize + node[g].size,
                                               node[g].next, node[b].free)
                     ELSE node[b]]
      BY <2>10 DEF SweepMerge
    <3> HIDE DEF g
    <3>4. node'[cursor].size = node[cursor].size + 24 + node[g].size
      BY <3>1, <3>2, <3>3 DEF Header, HeaderSize
    <3>5. node[g].size \in Nat /\ node[cursor].size \in Nat /\ cursor \in Nat
      BY <1>1, <3>1, <3>2, Fields DEF IInv
    <3>6. ToGo' = End - (cursor + 24 + node'[cursor].size) + 2
      BY <1>1, <2>2, <3>1 DEF ToGo, NULL, EndOf, HeaderSize
    <3>7. ToGo = End - (cursor + 24 + node[cursor].size) + 2
      BY <2>4, <3>1 DEF EndOf, HeaderSize
    <3>8. cursor + 24 + node'[cursor].size <= End
      <4>1. IInv'
        BY <1>1, NextInv
      <4>2. cursor \in DOMAIN node'
        BY <3>1, <3>2, <3>3
      <4> QED
        BY <3>1, <4>1, <4>2 DEF IInv, InArea, EndOf, End, HeaderSize
    <3> QED
      BY <3>4, <3>5, <3>6, <3>7, <3>8, BaseFacts
  <2>11. Walk
    BY <1>1, Zenon DEF Next, MallocCall, FreeCall
  <2> QED
    BY <2>7, <2>8, <2>9, <2>10, <2>11, Zenon DEF Walk
<1>2. IInv /\ [Next]_vars => [pc # "client" => ToGo' \in Nat /\ ToGo' < ToGo]_vars
  BY <1>1
<1> QED
  BY <1>2, HeapInvariant, PTL DEF Spec, WalksAdvance

-----------------------------------------------------------------------------
(* The heap implements Allocator.                                           *)

\* The block b as its caller sees it, with the headers nd.
SeenIn(nd, b) == [ptr |-> b.ptr, want |-> b.want, room |-> nd[b.ptr - 24].size]

\* The blocks of callers lie well in the area and apart from each other.
SoundIn(nd, ow) ==
    /\ \A b \in ow : Client!Good(SeenIn(nd, b))
    /\ \A b, c \in ow : b # c => Client!Apart(SeenIn(nd, b), SeenIn(nd, c))

LEMMA BlocksAre == Blocks = {SeenIn(node, b) : b \in owned}
  BY DEF Blocks, SeenIn, HeaderSize

LEMMA IInvSound == IInv => SoundIn(node, owned)
<1> SUFFICES ASSUME IInv PROVE SoundIn(node, owned)
  OBVIOUS
<1>1. TileOf(node)
  BY TileFacts DEF IInv
<1>2. ASSUME NEW b \in owned
      PROVE  /\ b.ptr - 24 \in DOMAIN node /\ TileAt(node, b.ptr - 24)
             /\ b.ptr \in Nat /\ b.ptr % 8 = 0 /\ b.want \in Requests /\ b.want \in Nat
             /\ node[b.ptr - 24].size \in Nat
             /\ Enough(node[b.ptr - 24].size, b.want)
  <2>1. b.ptr - 24 \in DOMAIN node /\ b.ptr % 8 = 0
    BY DEF IInv, BlocksAreAllocated, HeaderSize
  <2>2. b.ptr \in Nat /\ b.want \in Requests
    BY DEF IInv, TypeOK
  <2>3. b.want \in Nat
    <3>1. b.want \in 0..(WordSize - 1) /\ WordSize \in Nat
      BY <2>2, RequestsAreWords, WordHoldsArea, Zenon
    <3> QED
      BY <3>1
  <2>4. Enough(node[b.ptr - 24].size, b.want)
    BY DEF IInv, BlocksAreLargeEnough, Enough, HeaderSize, SplitSlack
  <2>5. TileAt(node, b.ptr - 24)
    BY <1>1, <2>1 DEF TileOf
  <2> QED
    BY <2>1, <2>2, <2>3, <2>4, <2>5 DEF TileAt
<1>3. ASSUME NEW b \in owned PROVE Client!Good(SeenIn(node, b))
  <2>1. SeenIn(node, b).ptr = b.ptr /\ SeenIn(node, b).want = b.want /\ SeenIn(node, b).room = node[b.ptr - 24].size
    BY DEF SeenIn
  <2>2. /\ Base + 24 <= b.ptr
        /\ b.ptr + node[b.ptr - 24].size <= End
    BY <1>2, BaseFacts DEF TileAt, EndIn
  <2>3. node[b.ptr - 24].size >= Promise(b.want)
    BY <1>2, WordHoldsArea DEF Promise, Enough
  <2> QED
    BY <1>2, <2>1, <2>2, <2>3 DEF Client!Good, HeaderSize
<1>4. ASSUME NEW b \in owned, NEW c \in owned, b # c PROVE Client!Apart(SeenIn(node, b), SeenIn(node, c))
  <2>1. /\ SeenIn(node, b).ptr = b.ptr /\ SeenIn(node, b).room = node[b.ptr - 24].size
        /\ SeenIn(node, c).ptr = c.ptr /\ SeenIn(node, c).room = node[c.ptr - 24].size
    BY DEF SeenIn
  <2>2. b.ptr # c.ptr
    BY <1>4 DEF IInv, BlocksAreAllocated
  <2>3. CASE b.ptr < c.ptr
    <3>1. EndIn(node, b.ptr - 24) <= c.ptr - 24
      BY <1>2, <2>3 DEF TileAt
    <3>2. b.ptr + node[b.ptr - 24].size <= c.ptr
      BY <1>2, <3>1 DEF EndIn
    <3> QED
      BY <2>1, <2>2, <3>2 DEF Client!Apart
  <2>4. CASE c.ptr < b.ptr
    <3>1. EndIn(node, c.ptr - 24) <= b.ptr - 24
      BY <1>2, <2>4 DEF TileAt
    <3>2. c.ptr + node[c.ptr - 24].size <= b.ptr
      BY <1>2, <3>1 DEF EndIn
    <3> QED
      BY <2>1, <2>2, <3>2 DEF Client!Apart
  <2> QED
    BY <1>2, <2>2, <2>3, <2>4
<1> QED
  BY <1>3, <1>4 DEF SoundIn

\* A block that stays with its holder looks the same after the step.
LEMMA SeenSame ==
    ASSUME BlocksKept, NEW b \in owned, b \in owned'
    PROVE  SeenIn(node', b) = SeenIn(node, b)
  BY DEF BlocksKept, SeenIn

\* A step that neither hands out nor takes back a block is no step of the
\* allocator.
LEMMA QuietSteps ==
    ASSUME BlocksKept, owned' = owned
    PROVE  Blocks' = Blocks
<1>1. \A b \in owned : SeenIn(node', b) = SeenIn(node, b)
  BY SeenSame
<1>2. Blocks' = {SeenIn(node', b) : b \in owned'}
  BY DEF Blocks, SeenIn, HeaderSize
<1> QED
  BY <1>1, <1>2, BlocksAre

\* The last step of malloc hands out one block.
LEMMA TakeGrants ==
    ASSUME IInv, IInv', BlocksKept, SoundIn(node', owned'), MallocTake
    PROVE  \E b \in Blocks' : Client!Malloc(b)
<1> DEFINE new == [ptr |-> cursor + 24, want |-> want]
<1>1. owned' = owned \cup {new}
  BY DEF MallocTake, HeaderSize
<1>2. new \notin owned
  <2>1. cursor \in DOMAIN node /\ node[cursor].free /\ cursor \in Nat
    BY TakeFacts, Fields DEF IInv
  <2>2. new.ptr = cursor + 24 /\ new.ptr - 24 = cursor
    BY <2>1
  <2> QED
    BY <2>1, <2>2 DEF IInv, BlocksAreAllocated, HeaderSize
<1> HIDE DEF new
<1>3. \A b \in owned : SeenIn(node', b) = SeenIn(node, b) /\ b \in owned' /\ b # new
  BY <1>1, <1>2, SeenSame
<1>4. Blocks' = {SeenIn(node', b) : b \in owned'}
  BY DEF Blocks, SeenIn, HeaderSize
<1>5. Blocks' = Blocks \cup {SeenIn(node', new)}
  <2>1. Blocks' \subseteq Blocks \cup {SeenIn(node', new)}
    BY <1>1, <1>3, <1>4, BlocksAre
  <2>2. Blocks \cup {SeenIn(node', new)} \subseteq Blocks'
    BY <1>1, <1>3, <1>4, BlocksAre
  <2> QED
    BY <2>1, <2>2, Zenon
<1>6. Client!Good(SeenIn(node', new))
  BY <1>1 DEF SoundIn
<1>7. \A b \in owned : Client!Apart(SeenIn(node', new), SeenIn(node, b))
  <2>1. ASSUME NEW b \in owned PROVE Client!Apart(SeenIn(node', new), SeenIn(node', b))
    BY <1>1, <1>3, <2>1 DEF SoundIn
  <2> QED
    BY <1>3, <2>1
<1>8. \A c \in Blocks : Client!Apart(SeenIn(node', new), c)
  BY <1>7, BlocksAre
<1> QED
  BY <1>5, <1>6, <1>8 DEF Client!Malloc

\* free takes back one block.
LEMMA FreeTakesBack ==
    ASSUME IInv, BlocksKept, NEW b \in owned, FreeCall(b)
    PROVE  \E c \in Blocks : Client!Free(c)
<1>1. owned' = owned \ {b}
  BY DEF FreeCall
<1>2. \A c \in owned \ {b} : SeenIn(node', c) = SeenIn(node, c)
  BY <1>1, SeenSame
<1>3. \A c \in owned \ {b} : SeenIn(node, c) # SeenIn(node, b)
  <2> SUFFICES ASSUME NEW c \in owned, c # b, SeenIn(node, c) = SeenIn(node, b) PROVE FALSE
    OBVIOUS
  <2>1. c.ptr = b.ptr
    BY DEF SeenIn
  <2> QED
    BY <2>1 DEF IInv, BlocksAreAllocated
<1>4. Blocks' = {SeenIn(node', c) : c \in owned'}
  BY DEF Blocks, SeenIn, HeaderSize
<1>5. Blocks' = Blocks \ {SeenIn(node, b)}
  BY <1>1, <1>2, <1>3, <1>4, BlocksAre
<1>6. SeenIn(node, b) \in Blocks
  BY BlocksAre
<1> QED
  BY <1>5, <1>6 DEF Client!Free

\* To the code that calls it heap.c is an allocator: every step of malloc and
\* free hands out a good block, takes one back, or changes nothing callers see.
THEOREM HeapIsAllocator == Spec => ImplementsAllocator
<1>1. Init => Blocks = {}
  BY DEF Init, Blocks
<1>2. IInv' => SoundIn(node', owned')
  <2>1. IInv' => SoundIn(node, owned)'
    BY IInvSound, PTL
  <2> QED
    BY <2>1
<1>3. ASSUME IInv, [Next]_vars
      PROVE  [Client!Next]_Blocks
  <2>1. IInv' /\ BlocksKept /\ SoundIn(node', owned')
    BY <1>2, <1>3, NextInv
  <2>2. CASE MallocTake
    BY <1>3, <2>1, <2>2, TakeGrants DEF Client!Next
  <2>3. ASSUME NEW b \in owned, FreeCall(b) PROVE Client!Next
    BY <1>3, <2>1, <2>3, FreeTakesBack DEF Client!Next
  <2>4. \/ MallocTake
        \/ \E b \in owned : FreeCall(b)
        \/ owned' = owned
    BY <1>3 DEF Next, Walk, MallocCall, MallocStep, MallocFail, SweepMerge, SweepStep, SweepEnd, vars
  <2> QED
    BY <2>1, <2>2, <2>3, <2>4, QuietSteps
<1> QED
  BY <1>1, <1>3, HeapInvariant, PTL DEF Spec, ImplementsAllocator, Client!Spec
=============================================================================
