----------------------------- MODULE BootMemory -----------------------------
(***************************************************************************)
(* How kmain (src/kernel/kernel.c) brings up the frame allocator from the  *)
(* boot loader's memory map, and how the rest of the kernel then uses it.  *)
(* kmain runs with interrupts disabled: the scan of the map is one step,   *)
(* the marking loop takes one step per address it visits.  Addresses are   *)
(* in bytes here and in frames inside Pmm.                                 *)
(***************************************************************************)
EXTENDS Pmm, Sequences

CONSTANTS
    Maps,           \* the memory maps a boot loader may pass: sequences of entries
    KernelEnd,      \* physical address of _kernel_end
    DefaultMax      \* RAM assumed without a usable map: the 0x20000000 of kmain

PageSize == 4096
FloorAddr == FloorFrame * PageSize

ASSUME MapsAreMaps == Maps \subseteq Seq([addr : Nat, len : Nat, available : BOOLEAN])
ASSUME KernelBelowFloor == KernelEnd \in Nat /\ KernelEnd < FloorAddr
ASSUME DefaultMaxNat == DefaultMax \in Nat

VARIABLES
    mmap,               \* the map; empty when there is no such tag
    phase,              \* "scan", "mark" or "run"
    max_physical_addr,
    entry, a            \* the loop variables of the marking loop

bootVars == <<mmap, phase, max_physical_addr, entry, a>>
allVars == <<clear, total_pages, used_pages, holders, shared, result,
             mmap, phase, max_physical_addr, entry, a>>

\* The first page boundary behind the kernel image, or the one after it.
bitmap_phys == ((KernelEnd + PageSize) \div PageSize) * PageSize

\* mutated: no page of slack behind the bitmap
BitmapEnd_NoSlack(max) == bitmap_phys + (max \div 32768)

BitmapEnd(max) == bitmap_phys + (max \div 32768) + 4096

Init ==
    /\ mmap \in Maps
    /\ phase = "scan" /\ max_physical_addr = 0 /\ entry = 1 /\ a = 0
    /\ clear = {} /\ total_pages = 0 /\ used_pages = 0
    /\ holders = [f \in {} |-> 0] /\ shared = {} /\ result = NULL

AvailableEnds == {mmap[i].addr + mmap[i].len : i \in {i \in 1..Len(mmap) : mmap[i].available}}

\* The tag walk finds the highest end of available memory; pmm_init follows.
ScanMap ==
    /\ phase = "scan"
    /\ \E max \in AvailableEnds \cup {0} :
          LET top == IF max = 0 THEN DefaultMax ELSE max IN
          /\ \A e \in AvailableEnds : e <= max
          /\ max_physical_addr' = top
          /\ pmm_init(top \div PageSize)
    /\ phase' = "mark"
    /\ entry' = 1 /\ a' = IF mmap = <<>> THEN 0 ELSE mmap[1].addr
    /\ UNCHANGED mmap

\* The addresses the loop leaves alone; max is the size of RAM.
Excluded(x, max) == x < FloorAddr \/ (x >= bitmap_phys /\ x < BitmapEnd(max))

\* mutated: the type of the entry is not looked at
MoreOf_AnyType(e) == a < mmap[e].addr + mmap[e].len

\* The inner loop has an address to visit in entry e.
MoreOf(e) == mmap[e].available /\ a < mmap[e].addr + mmap[e].len

\* One turn of the inner loop.
MarkAddress ==
    /\ phase = "mark" /\ entry <= Len(mmap)
    /\ MoreOf(entry)
    /\ IF Excluded(a, max_physical_addr) THEN UNCHANGED <<clear, used_pages>>
       ELSE pmm_mark_free(a \div PageSize)
    /\ a' = a + PageSize
    /\ UNCHANGED <<total_pages, holders, shared, result, mmap, phase, max_physical_addr, entry>>

\* The outer loop moves on to the next entry.
NextEntry ==
    /\ phase = "mark" /\ entry <= Len(mmap)
    /\ ~MoreOf(entry)
    /\ entry' = entry + 1
    /\ a' = IF entry < Len(mmap) THEN mmap[entry + 1].addr ELSE 0
    /\ UNCHANGED <<clear, total_pages, used_pages, holders, shared, result,
                   mmap, phase, max_physical_addr>>

BootDone ==
    /\ phase = "mark" /\ entry > Len(mmap)
    /\ phase' = "run"
    /\ UNCHANGED <<clear, total_pages, used_pages, holders, shared, result,
                   mmap, max_physical_addr, entry, a>>

\* The callers of the allocator, once the kernel is up.
Run ==
    /\ phase = "run"
    /\ \/ pmm_alloc_page
       \/ \E c \in Counts : pmm_alloc_pages(c)
       \/ \E f \in Frames : pmm_free_page(f) \/ FreePhysical(f) \/ pmm_mark_used(f)
    /\ UNCHANGED bootVars

Next == ScanMap \/ MarkAddress \/ NextEntry \/ BootDone \/ Run

Spec == Init /\ [][Next]_allVars

-----------------------------------------------------------------------------
\* The bytes of frame f.
FirstByte(f) == f * PageSize
LastByte(f) == f * PageSize + PageSize - 1

\* Frame f overlaps neither the low memory and the kernel image in it nor a
\* bitmap for so many pages.
OutsideKernel(f, pages) ==
    /\ FloorAddr <= FirstByte(f)
    /\ LastByte(f) < bitmap_phys \/ bitmap_phys + BitmapBytes(pages) <= FirstByte(f)

\* The frames the allocator deals in: those that are free or handed out.
Dealt == clear \cup {f \in Frames : holders[f] > 0}

\* No frame that is free or handed out overlaps the kernel image, the memory
\* below 2 MB or the bitmap itself, whatever map below 2 GB there is: the two
\* tests of the marking loop look at the visited address only, which need not
\* be the first byte of its frame, and kmain's estimate of the size of the
\* bitmap is not the one of pmm_init.  Not even pmm_alloc_pages, which hands
\* out frames it has not found free, reaches them.
KernelFramesNeverDealt == \A f \in Dealt : OutsideKernel(f, total_pages)

\* A free frame was reported as available memory.  With page-aligned entries
\* all of it was; otherwise at least the part of it the loop visited.  The same
\* goes for a frame that was handed out, unless pmm_alloc_pages did so with the
\* frame's bit set: such a frame may be any at the end of a byte of the bitmap.
FreeFramesAreRam ==
    \A f \in Dealt \ shared : \E i \in 1..Len(mmap) :
        LET e == mmap[i] IN
        /\ e.available
        /\ e.addr <= LastByte(f) /\ FirstByte(f) < e.addr + e.len
        /\ e.addr % PageSize = 0 => e.addr <= FirstByte(f)
        /\ e.addr % PageSize = 0 /\ e.len % PageSize = 0 => LastByte(f) < e.addr + e.len

\* A frame is handed out to one client at a time and is marked used meanwhile.
\* The code does not keep this.
FramesExclusive ==
    \A f \in Frames : holders[f] <= 1 /\ (holders[f] > 0 => f \notin clear)

\* It keeps this much: pmm_alloc_pages handing out a frame whose bit is set is
\* the one way a frame comes to have two clients, or to be free while it has
\* one.  Every other call, in any order, leaves frames exclusive.
SharedOnlyByRuns ==
    \A f \in Frames \ shared : holders[f] <= 1 /\ (holders[f] > 0 => f \notin clear)

\* used_pages, which pmm_get_used_kb reports, counts the bits that are set; it
\* never reports fewer, and more only once pmm_alloc_pages has counted a frame
\* whose bit was set already.
UsedPagesCountBits ==
    /\ used_pages >= total_pages - Cardinality(clear)
    /\ shared = {} => used_pages = total_pages - Cardinality(clear)

\* What becomes of the "automatic expansion" of the heap (MEM.md:7): 4096 pages,
\* the one request the kernel makes (malloc through vmm_alloc), and any other
\* of more than eight, is refused whatever is free.
LargeRequestsRefused ==
    [][\A c \in Counts : c > 8 /\ phase = "run" /\ pmm_alloc_pages(c)
         => result' = NULL /\ clear' = clear]_allVars

-----------------------------------------------------------------------------
(* What the theorems of BootMemoryProofs suppose of a machine: no RAM       *)
(* beyond the 2 GB that the higher half can address.                        *)

SmallRam ==
    /\ Half % 8 = 0
    /\ DefaultMax \div PageSize <= Half
    /\ \A m \in Maps : \A i \in 1..Len(m) : (m[i].addr + m[i].len) \div PageSize <= Half

\* The progress of kmain.
BootInv ==
    /\ mmap \in Maps /\ phase \in {"scan", "mark", "run"}
    /\ max_physical_addr \in Nat /\ entry \in Nat \ {0} /\ a \in Nat
    /\ total_pages = max_physical_addr \div PageSize
    /\ total_pages <= Half
    /\ phase # "run" => \A f \in Frames : holders[f] = 0

\* The bits behind the last frame of RAM stay set.
DealtInRam == \A f \in Dealt \ shared : f < total_pages

\* The inductive invariant.
IInv ==
    /\ TypeOK /\ BootInv /\ DealtInRam
    /\ KernelFramesNeverDealt /\ SharedOnlyByRuns /\ UsedPagesCountBits
=============================================================================
