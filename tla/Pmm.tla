-------------------------------- MODULE Pmm --------------------------------
(***************************************************************************)
(* The physical frame allocator of src/mm/pmm.c: one bit per 4 KB frame,   *)
(* set when the frame is in use.  `clear' is the set of bits that are 0.   *)
(* Addresses are counted in frames; a pointer is the virtual address that  *)
(* PHYS_TO_VIRT makes of a physical one, modulo the word size.  Every      *)
(* function holds pmm_lock from its first to its last access, and nothing  *)
(* in an interrupt handler allocates, so each call is one step.            *)
(***************************************************************************)
EXTENDS Integers, FiniteSets

CONSTANTS
    FloorFrame, \* the first frame above 2 MB: lower ones are never handed out
    Half,       \* 2 GB in frames: the higher half starts Half below the top
    WordFrames, \* 2^64 in frames
    Counts,     \* the sizes asked of pmm_alloc_pages
    MaxUsed     \* bound: used_pages at which pmm_alloc_pages is cut off

NULL == 0

ASSUME FloorOnByte == FloorFrame \in Nat /\ FloorFrame % 8 = 0
ASSUME WordWide == Half \in Nat /\ WordFrames \in Nat /\ 0 < Half /\ 2 * Half < WordFrames
ASSUME CountsNat == Counts \subseteq Nat
ASSUME MaxUsedNat == MaxUsed \in Nat

VARIABLES
    clear,          \* the bits of the bitmap that are 0
    total_pages, used_pages,
    holders,        \* how many clients have been given each frame
    shared,         \* history: the frames pmm_alloc_pages handed out with their bit set
    result          \* the pointer the last allocation returned

vars == <<clear, total_pages, used_pages, holders, shared, result>>

\* A bitmap for so many pages takes so many bytes, with a bit for these frames.
BitmapBytes(pages) == (pages + 7) \div 8
FramesOf(pages) == 0..(8 * BitmapBytes(pages) - 1)

bitmap_size == BitmapBytes(total_pages)
Frames == FramesOf(total_pages)

\* PHYS_TO_VIRT: the sum wraps for frames from 2 GB on.
PHYS_TO_VIRT(f) == (f + WordFrames - Half) % WordFrames

TypeOK ==
    /\ total_pages \in Nat /\ used_pages \in Nat
    /\ clear \subseteq 0..(total_pages - 1)
    /\ holders \in [Frames -> Nat] /\ shared \subseteq Frames
    /\ result \in 0..(WordFrames - 1)

-----------------------------------------------------------------------------
\* pmm_init marks every frame used; pages is the size of RAM.
pmm_init(pages) ==
    /\ total_pages' = pages
    /\ used_pages' = pages
    /\ clear' = {}
    /\ holders' = [f \in FramesOf(pages) |-> 0] /\ shared' = {}
    /\ result' = NULL

InRam(f) == f < total_pages

\* A frame number beyond the end of RAM is ignored.
pmm_mark_free(f) ==
    /\ clear' = IF InRam(f) THEN clear \cup {f} ELSE clear
    /\ used_pages' = IF InRam(f) /\ f \notin clear /\ used_pages > 0
                     THEN used_pages - 1 ELSE used_pages

\* mutated: a frame that is in use already is counted again
CountUsed_Again(f) == used_pages' = used_pages + 1

CountUsed(f) == used_pages' = IF f \in clear THEN used_pages + 1 ELSE used_pages

pmm_mark_used(f) ==
    /\ clear' = clear \ {f}
    /\ CountUsed(f)
    /\ UNCHANGED <<total_pages, holders, shared, result>>

Allocatable == {f \in clear : f >= FloorFrame}

\* mutated: the scan runs from the end of the bitmap
FirstFit_Last(f) == f \in Allocatable /\ \A g \in Allocatable : f >= g

\* The lowest clear bit from 2 MB on.
FirstFit(f) == f \in Allocatable /\ \A g \in Allocatable : f <= g

\* mutated: the bit is not set
Take_Unmarked(f) == UNCHANGED clear /\ used_pages' = used_pages + 1

Take(f) == clear' = clear \ {f} /\ used_pages' = used_pages + 1

\* mutated: frame number 0 is returned as a pointer
Refuse_AsPointer == result' = PHYS_TO_VIRT(0) /\ UNCHANGED <<clear, used_pages, holders>>

Refuse == result' = NULL /\ UNCHANGED <<clear, used_pages, holders>>

pmm_alloc_page ==
    /\ IF Allocatable = {} THEN Refuse
       ELSE \E f \in clear :
               /\ FirstFit(f)
               /\ Take(f)
               /\ holders' = [holders EXCEPT ![f] = @ + 1]
               /\ result' = PHYS_TO_VIRT(f)
    /\ UNCHANGED <<total_pages, shared>>

\* The scan of byte i: its first found bits are clear, and it stops at count.
Scans(i, count, found) ==
    /\ found <= count /\ found <= 8
    /\ \A j \in 0..(found - 1) : 8 * i + j \in clear
    /\ found = count \/ found = 8 \/ 8 * i + found \notin clear

\* Byte i is not 0xFF and its scan finds enough.
ByteServes(i, count) ==
    /\ \E j \in 0..7 : 8 * i + j \in clear
    /\ \E found \in 0..8 : Scans(i, count, found) /\ found >= count

\* The frames that are handed out: the last ones of the byte, whether their
\* bits are clear or not.
RunOf(i, count) == {8 * i + (8 - count) + k : k \in 0..(count - 1)}

Serving(count) == {i \in 0..(bitmap_size - 1) : ByteServes(i, count)}

pmm_alloc_pages(count) ==
    /\ used_pages < MaxUsed
    /\ IF Serving(count) = {} THEN Refuse /\ UNCHANGED shared
       ELSE \E i \in Serving(count) :
               /\ \A k \in Serving(count) : i <= k
               /\ clear' = clear \ RunOf(i, count)
               /\ used_pages' = used_pages + count
               /\ holders' = [f \in Frames |->
                                 IF f \in RunOf(i, count) THEN holders[f] + 1 ELSE holders[f]]
               /\ shared' = shared \cup (RunOf(i, count) \ clear)
               /\ result' = PHYS_TO_VIRT(8 * i + (8 - count))
    /\ UNCHANGED total_pages

\* A client gives back frame f by the pointer it was given for it.
pmm_free_page(f) ==
    /\ holders[f] > 0
    /\ pmm_mark_free(PHYS_TO_VIRT(f))
    /\ holders' = [holders EXCEPT ![f] = @ - 1]
    /\ UNCHANGED <<total_pages, shared, result>>

\* The client turns the pointer into the physical address pmm_free_page asks for.
FreePhysical(f) ==
    /\ holders[f] > 0
    /\ pmm_mark_free(f)
    /\ holders' = [holders EXCEPT ![f] = @ - 1]
    /\ UNCHANGED <<total_pages, shared, result>>
=============================================================================
