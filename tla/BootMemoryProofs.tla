-------------------------- MODULE BootMemoryProofs --------------------------
(***************************************************************************)
(* Theorems about the frame allocator and its start-up: module BootMemory, *)
(* for every memory map and every size of RAM.                             *)
(***************************************************************************)
EXTENDS BootMemory, FiniteSetTheorems, TLAPS

USE DEF NULL

-----------------------------------------------------------------------------
(* Requests of more than eight pages.                                       *)

\* The scan of pmm_alloc_pages stays within a byte of the bitmap: no byte
\* serves a request of more than eight pages.
LEMMA NoByteServes ==
    ASSUME NEW i \in Nat, NEW count \in Nat, count > 8
    PROVE  ~ByteServes(i, count)
BY DEF ByteServes, Scans

\* pmm_alloc_pages refuses such a request and leaves everything as it is.
LEMMA LargeCallRefused ==
    ASSUME NEW count \in Nat, count > 8, total_pages \in Nat, pmm_alloc_pages(count)
    PROVE  result' = 0 /\ UNCHANGED <<clear, used_pages, holders, shared, total_pages>>
<1>1. bitmap_size \in Nat
  BY DEF bitmap_size, BitmapBytes
<1>2. Serving(count) = {}
  BY <1>1, NoByteServes DEF Serving
<1> QED
  BY <1>2 DEF pmm_alloc_pages, Refuse

-----------------------------------------------------------------------------
(* Arithmetic of the marking loop.                                          *)

\* A frame the loop frees lies outside the low memory and outside the bitmap,
\* although only one address within it was looked at: the 4096 in kmain's
\* estimate of the bitmap's size is just enough.
LEMMA VisitedFrameIsOutside ==
    ASSUME NEW x \in Nat, NEW max \in Nat, ~Excluded(x, max)
    PROVE  OutsideKernel(x \div PageSize, max \div PageSize)
<1> DEFINE f == x \div 4096
           b == (KernelEnd + 4096) \div 4096
           p == max \div 4096
           q == max \div 32768
           s == (p + 7) \div 8
<1>1. /\ f \in Nat /\ b \in Nat /\ p \in Nat /\ q \in Nat /\ s \in Nat
      /\ FloorFrame \in Nat
  BY KernelBelowFloor, FloorOnByte
<1>2. 4096 * f <= x /\ x <= 4096 * f + 4095
  OBVIOUS
<1>3. s <= q + 1
  <2>1. max < 32768 * q + 32768
    OBVIOUS
  <2>2. 4096 * p <= max
    OBVIOUS
  <2>3. p <= 8 * q + 7
    BY <1>1, <2>1, <2>2
  <2>4. 8 * s <= p + 7
    BY <1>1
  <2> QED
    BY <1>1, <2>3, <2>4
<1>4. ~(x < FloorFrame * 4096)
  BY DEF Excluded, FloorAddr, PageSize
<1>5. x < b * 4096 \/ b * 4096 + q + 4096 <= x
  <2>1. b * 4096 \in Nat /\ b * 4096 + q + 4096 \in Nat
    BY <1>1
  <2> HIDE DEF b, q
  <2>2. ~(x >= b * 4096 /\ x < b * 4096 + q + 4096)
    BY DEF Excluded, bitmap_phys, BitmapEnd, PageSize, b, q
  <2> QED
    BY <2>1, <2>2
<1> HIDE DEF f, b, p, q, s
<1>6. FloorFrame * 4096 <= f * 4096
  BY <1>1, <1>2, <1>4
<1>7. f * 4096 + 4096 - 1 < b * 4096 \/ b * 4096 + s <= f * 4096
  BY <1>1, <1>2, <1>3, <1>5
<1> QED
  BY <1>6, <1>7
     DEF OutsideKernel, FloorAddr, FirstByte, LastByte, bitmap_phys, BitmapBytes,
         PageSize, f, b, p, s

\* The kernel and its bitmap lie below every frame that is outside them, so a
\* frame above such a frame is outside them too.
LEMMA OutsideAbove ==
    ASSUME NEW f \in Nat, NEW g \in Nat, f <= g, NEW pages \in Nat, OutsideKernel(f, pages)
    PROVE  OutsideKernel(g, pages)
<1> DEFINE b == (KernelEnd + 4096) \div 4096
           s == (pages + 7) \div 8
<1>1. b \in Nat /\ s \in Nat /\ FloorFrame \in Nat
  BY KernelBelowFloor, FloorOnByte
<1>2. b <= FloorFrame
  BY <1>1, KernelBelowFloor DEF FloorAddr, PageSize
<1>3. /\ FloorFrame * 4096 <= f * 4096
      /\ f * 4096 + 4096 - 1 < b * 4096 \/ b * 4096 + s <= f * 4096
  BY DEF OutsideKernel, FloorAddr, FirstByte, LastByte, bitmap_phys, BitmapBytes, PageSize
<1> HIDE DEF b, s
<1>4. FloorFrame * 4096 <= g * 4096 /\ b * 4096 + s <= g * 4096
  BY <1>1, <1>2, <1>3
<1> QED
  BY <1>4
     DEF OutsideKernel, FloorAddr, FirstByte, LastByte, bitmap_phys, BitmapBytes,
         PageSize, b, s

-----------------------------------------------------------------------------
(* Facts about the bitmap.                                                  *)

LEMMA FrameFacts ==
    ASSUME NEW pages \in Nat
    PROVE  /\ BitmapBytes(pages) \in Nat
           /\ FramesOf(pages) \subseteq Nat
           /\ 0..(pages - 1) \subseteq FramesOf(pages)
BY DEF BitmapBytes, FramesOf

\* The pointer of a frame below 2 GB lies above all of RAM, when that ends
\* there: pmm_free_page ignores it.
LEMMA PointerBeyondRam ==
    ASSUME NEW f \in Nat, f < Half
    PROVE  PHYS_TO_VIRT(f) \in Nat /\ PHYS_TO_VIRT(f) > Half
<1>1. f + WordFrames - Half \in 0..(WordFrames - 1) /\ f + WordFrames - Half > Half
  BY WordWide
<1>2. (f + WordFrames - Half) % WordFrames = f + WordFrames - Half
  BY <1>1, WordWide
<1> QED
  BY <1>1, <1>2 DEF PHYS_TO_VIRT

\* So has every bit of the bitmap, those behind the last frame included.
LEMMA FramesBelowHalf ==
    ASSUME SmallRam, IInv, NEW f \in Frames
    PROVE  f \in Nat /\ f < Half
<1>1. total_pages \in Nat /\ total_pages <= Half /\ Half \in Nat /\ Half % 8 = 0
  BY WordWide DEF SmallRam, IInv, TypeOK, BootInv
<1>2. PICK h \in Nat : Half = 8 * h
  BY <1>1
<1>3. PICK b \in Nat : b = (total_pages + 7) \div 8 /\ f \in 0..(8 * b - 1)
  BY <1>1 DEF Frames, FramesOf, BitmapBytes
<1>4. b <= h
  BY <1>1, <1>2, <1>3
<1> QED
  BY <1>2, <1>3, <1>4

LEMMA PointerIsWord ==
    ASSUME NEW f \in Nat
    PROVE  PHYS_TO_VIRT(f) \in 0..(WordFrames - 1)
<1>1. f + WordFrames - Half \in Nat /\ WordFrames \in Nat \ {0}
  BY WordWide
<1> QED
  BY <1>1 DEF PHYS_TO_VIRT

LEMMA ClearFacts ==
    ASSUME NEW n \in Nat, NEW c \in SUBSET (0..(n - 1))
    PROVE  /\ IsFiniteSet(c) /\ Cardinality(c) \in Nat
           /\ \A f \in 0..(n - 1) : f \notin c =>
                 /\ Cardinality(c \cup {f}) = Cardinality(c) + 1
                 /\ Cardinality(c) < n
           /\ \A f \in c : Cardinality(c \ {f}) = Cardinality(c) - 1
<1>1. IsFiniteSet(0..(n - 1)) /\ Cardinality(0..(n - 1)) = n
  <2>1. IsFiniteSet(0..(n - 1)) /\ Cardinality(0..(n - 1)) =
            IF 0 > n - 1 THEN 0 ELSE (n - 1) - 0 + 1
    BY FS_Interval
  <2> QED
    BY <2>1
<1>2. IsFiniteSet(c) /\ Cardinality(c) \in Nat
  BY <1>1, FS_Subset, FS_CardinalityType, Zenon
<1>3. ASSUME NEW f \in 0..(n - 1), f \notin c
      PROVE  Cardinality(c \cup {f}) = Cardinality(c) + 1 /\ Cardinality(c) < n
  <2>1. Cardinality(c \cup {f}) = Cardinality(c) + 1
    BY <1>2, <1>3, FS_AddElement
  <2>2. c \cup {f} \subseteq 0..(n - 1)
    BY <1>3
  <2>3. Cardinality(c \cup {f}) <= n
    BY <1>1, <2>2, FS_Subset, Zenon
  <2> QED
    BY <1>2, <2>1, <2>3
<1>4. ASSUME NEW f \in c
      PROVE  Cardinality(c \ {f}) = Cardinality(c) - 1
  BY <1>2, FS_RemoveElement
<1> QED
  BY <1>2, <1>3, <1>4

\* Taking a run of count frames makes at most count bits fewer clear, and just
\* count when all of them were clear.
LEMMA RunFacts ==
    ASSUME NEW n \in Nat, NEW c \in SUBSET (0..(n - 1)), NEW i \in Nat, NEW count \in 0..8
    PROVE  /\ RunOf(i, count) = (8 * i + (8 - count))..(8 * i + 7)
           /\ Cardinality(c \ RunOf(i, count)) \in Nat
           /\ Cardinality(c \ RunOf(i, count)) >= Cardinality(c) - count
           /\ RunOf(i, count) \subseteq c =>
                 Cardinality(c \ RunOf(i, count)) = Cardinality(c) - count
<1> DEFINE r == RunOf(i, count)
           lo == 8 * i + (8 - count)
           hi == 8 * i + 7
<1>1. r = lo..hi
  <2>1. ASSUME NEW x \in lo..hi PROVE x \in r
    <3>1. x - lo \in 0..(count - 1) /\ x = 8 * i + (8 - count) + (x - lo)
      OBVIOUS
    <3> QED
      BY <3>1 DEF RunOf
  <2>2. ASSUME NEW x \in r PROVE x \in lo..hi
    BY DEF RunOf
  <2> QED
    BY <2>1, <2>2, Zenon
<1>2. IsFiniteSet(r) /\ Cardinality(r) = count
  <2>1. lo \in Int /\ hi \in Int /\ (IF lo > hi THEN 0 ELSE hi - lo + 1) = count
    OBVIOUS
  <2> HIDE DEF r, lo, hi
  <2>2. IsFiniteSet(lo..hi) /\ Cardinality(lo..hi) = IF lo > hi THEN 0 ELSE hi - lo + 1
    BY <2>1, FS_Interval
  <2> QED
    BY <1>1, <2>1, <2>2
<1>3. IsFiniteSet(c) /\ Cardinality(c) \in Nat
  BY ClearFacts, Zenon
<1> HIDE DEF r, lo, hi
<1>4. Cardinality(c \ r) = Cardinality(c) - Cardinality(c \cap r) /\ IsFiniteSet(c \ r)
  BY <1>3, FS_Difference, Zenon
<1>5. Cardinality(c \cap r) <= Cardinality(r) /\ Cardinality(c \cap r) \in Nat
  BY <1>2, FS_Subset, FS_CardinalityType, c \cap r \subseteq r, Zenon
<1>6. r \subseteq c => c \cap r = r
  BY Zenon
<1>7. Cardinality(c \ r) \in Nat
  BY <1>4, FS_CardinalityType, Zenon
<1>8. Cardinality(c \ r) >= Cardinality(c) - count
  BY <1>2, <1>3, <1>4, <1>5
<1>9. r \subseteq c => Cardinality(c \ r) = Cardinality(c) - count
  BY <1>2, <1>4, <1>6, Zenon
<1> QED
  BY <1>1, <1>7, <1>8, <1>9 DEF r, lo, hi

-----------------------------------------------------------------------------
(* The inductive invariant.                                                 *)

LEMMA EntryFacts ==
    ASSUME NEW m \in Maps, NEW i \in 1..Len(m)
    PROVE  m[i].addr \in Nat /\ m[i].len \in Nat
<1> DEFINE Entries == [addr : Nat, len : Nat, available : BOOLEAN]
<1>1. m \in Seq(Entries)
  BY MapsAreMaps
<1>2. m[i] \in Entries
  <2> HIDE DEF Entries
  <2> QED BY <1>1
<1> QED
  BY <1>2

LEMMA InitIInv ==
    ASSUME Init PROVE IInv
<1>1. FramesOf(0) = {}
  BY DEF FramesOf, BitmapBytes
<1>2. TypeOK
  BY <1>1, WordWide DEF Init, TypeOK, Frames
<1>3. BootInv
  BY <1>1, WordWide DEF Init, BootInv, Frames, PageSize
<1>4. Cardinality({}) = 0
  BY FS_EmptySet
<1> QED
  BY <1>1, <1>2, <1>3, <1>4
     DEF Init, IInv, KernelFramesNeverDealt, DealtInRam, Dealt, SharedOnlyByRuns, UsedPagesCountBits, Frames

LEMMA ScanMapIInv ==
    ASSUME SmallRam, IInv, ScanMap PROVE IInv'
<1>1. PICK max \in AvailableEnds \cup {0} :
         /\ max_physical_addr' = IF max = 0 THEN DefaultMax ELSE max
         /\ pmm_init((IF max = 0 THEN DefaultMax ELSE max) \div PageSize)
  BY DEF ScanMap
<1> DEFINE top == IF max = 0 THEN DefaultMax ELSE max
           pages == top \div PageSize
<1>2. \A i \in 1..Len(mmap) : mmap[i].addr \in Nat /\ mmap[i].len \in Nat
  BY EntryFacts DEF IInv, BootInv
<1>3. top \in Nat /\ pages \in Nat /\ pages <= Half
  <2>1. CASE max = 0
    BY <2>1, DefaultMaxNat DEF SmallRam, PageSize
  <2>2. CASE max # 0
    <3>1. PICK i \in 1..Len(mmap) : max = mmap[i].addr + mmap[i].len
      BY <2>2 DEF AvailableEnds
    <3> QED
      BY <1>2, <2>2, <3>1, SMTT(30) DEF SmallRam, PageSize, IInv, BootInv
  <2> QED
    BY <2>1, <2>2
<1>4. PICK M \in Nat, P \in Nat : /\ M = top /\ P = M \div PageSize /\ P <= Half
                               /\ max_physical_addr' = M /\ pmm_init(P)
  BY <1>1, <1>3
<1>5. /\ total_pages' = P /\ used_pages' = P /\ clear' = {} /\ result' = 0
      /\ holders' = [f \in FramesOf(P) |-> 0] /\ Frames' = FramesOf(P) /\ shared' = {}
  BY <1>4 DEF pmm_init, Frames
<1>6. TypeOK'
  BY <1>4, <1>5, WordWide DEF TypeOK
<1>7. BootInv'
  <2>1. mmap' = mmap /\ phase' = "mark" /\ entry' = 1
    BY DEF ScanMap
  <2>2. a' \in Nat
    <3>1. CASE mmap = <<>>
      BY <3>1 DEF ScanMap
    <3>2. CASE mmap # <<>>
      <4>1. 1 \in 1..Len(mmap)
        BY <3>2, MapsAreMaps DEF IInv, BootInv
      <4> QED
        BY <1>2, <3>2, <4>1 DEF ScanMap
    <3> QED
      BY <3>1, <3>2
  <2> QED
    BY <1>4, <1>5, <2>1, <2>2 DEF IInv, BootInv
<1>8. KernelFramesNeverDealt' /\ DealtInRam' /\ SharedOnlyByRuns'
  BY <1>5 DEF KernelFramesNeverDealt, DealtInRam, Dealt, SharedOnlyByRuns
<1>9. UsedPagesCountBits'
  <2>1. Cardinality({}) = 0
    BY FS_EmptySet
  <2> QED
    BY <1>4, <1>5, <2>1 DEF UsedPagesCountBits
<1> QED
  BY <1>6, <1>7, <1>8, <1>9 DEF IInv

\* What pmm_mark_free does to the bitmap and its counter.
LEMMA MarkFreeFacts ==
    ASSUME IInv, NEW f \in Nat, pmm_mark_free(f), UNCHANGED <<total_pages, shared>>
    PROVE  /\ used_pages' \in Nat
           /\ clear' \subseteq 0..(total_pages' - 1)
           /\ UsedPagesCountBits'
           /\ clear' = IF f < total_pages THEN clear \cup {f} ELSE clear
<1>1. /\ total_pages \in Nat /\ used_pages \in Nat /\ clear \subseteq 0..(total_pages - 1)
      /\ used_pages >= total_pages - Cardinality(clear)
      /\ shared = {} => used_pages = total_pages - Cardinality(clear)
  BY DEF IInv, TypeOK, UsedPagesCountBits
<1>2. PICK n \in Nat : n = total_pages /\ n = total_pages'
  BY <1>1
<1>3. Cardinality(clear) \in Nat
  BY <1>1, ClearFacts
<1>4. CASE f < n /\ f \notin clear
  <2>1. f \in 0..(n - 1)
    BY <1>4
  <2>2. Cardinality(clear \cup {f}) = Cardinality(clear) + 1 /\ Cardinality(clear) < n
    BY <1>1, <1>2, <1>4, <2>1, ClearFacts, Zenon
  <2>3. clear' = clear \cup {f} /\ used_pages' = used_pages - 1 /\ used_pages > 0
    BY <1>1, <1>2, <1>3, <1>4, <2>2 DEF pmm_mark_free, InRam
  <2>4. /\ used_pages - 1 >= n - Cardinality(clear \cup {f})
        /\ shared = {} => used_pages - 1 = n - Cardinality(clear \cup {f})
    BY <1>1, <1>2, <1>3, <2>2
  <2>5. UsedPagesCountBits'
    BY <1>2, <2>3, <2>4 DEF UsedPagesCountBits
  <2> QED
    BY <1>1, <1>2, <1>4, <2>1, <2>3, <2>5
<1>5. CASE ~(f < n /\ f \notin clear)
  <2>1. clear' = clear /\ used_pages' = used_pages
    BY <1>2, <1>5 DEF pmm_mark_free, InRam
  <2>2. UsedPagesCountBits'
    BY <1>1, <2>1 DEF UsedPagesCountBits
  <2> QED
    BY <1>1, <1>2, <1>5, <2>1, <2>2
<1> QED
  BY <1>4, <1>5

\* A step that leaves kmain and its map alone.
LEMMA RunBootInv ==
    ASSUME IInv, phase = "run", UNCHANGED <<total_pages, bootVars>>
    PROVE  BootInv'
BY DEF IInv, BootInv, bootVars

LEMMA MarkAddressIInv ==
    ASSUME IInv, MarkAddress PROVE IInv'
<1>0. /\ a \in Nat /\ max_physical_addr \in Nat /\ TypeOK /\ BootInv
      /\ total_pages \in Nat /\ total_pages = max_physical_addr \div PageSize
      /\ phase = "mark" /\ \A f \in Frames : holders[f] = 0
  BY DEF IInv, BootInv, TypeOK, MarkAddress
<1>1. UNCHANGED <<total_pages, holders, shared, result, mmap, phase, max_physical_addr, entry>>
  BY DEF MarkAddress
<1>2. Frames' = Frames
  BY <1>1 DEF Frames
<1>3. a' \in Nat
  BY <1>0 DEF MarkAddress, PageSize
<1>4. BootInv'
  BY <1>0, <1>1, <1>2, <1>3 DEF BootInv
<1>5. SharedOnlyByRuns'
  BY <1>0, <1>1, <1>2 DEF SharedOnlyByRuns
<1>6. CASE Excluded(a, max_physical_addr)
  <2>1. clear' = clear /\ used_pages' = used_pages
    BY <1>6 DEF MarkAddress
  <2> QED
    BY <1>1, <1>2, <1>4, <1>5, <2>1
       DEF IInv, TypeOK, KernelFramesNeverDealt, DealtInRam, Dealt, UsedPagesCountBits
<1>7. CASE ~Excluded(a, max_physical_addr)
  <2> DEFINE f == a \div PageSize
  <2>1. f \in Nat
    BY <1>0 DEF PageSize
  <2>2. pmm_mark_free(f)
    BY <1>7 DEF MarkAddress
  <2>3. OutsideKernel(f, total_pages)
    BY <1>0, <1>7, VisitedFrameIsOutside
  <2> HIDE DEF f
  <2>4. /\ used_pages' \in Nat /\ clear' \subseteq 0..(total_pages' - 1)
        /\ UsedPagesCountBits' /\ clear' \subseteq clear \cup {f}
    BY <1>1, <2>1, <2>2, MarkFreeFacts
  <2>5. TypeOK'
    BY <1>0, <1>1, <1>2, <2>4 DEF TypeOK
  <2>6. KernelFramesNeverDealt' /\ DealtInRam'
    BY <1>0, <1>1, <1>2, <2>3, <2>4 DEF IInv, KernelFramesNeverDealt, DealtInRam, Dealt
  <2> QED
    BY <1>4, <1>5, <2>4, <2>5, <2>6 DEF IInv
<1> QED
  BY <1>6, <1>7

LEMMA NextEntryIInv ==
    ASSUME IInv, NextEntry PROVE IInv'
<1>1. UNCHANGED <<clear, total_pages, used_pages, holders, shared, result, mmap, phase, max_physical_addr>>
  BY DEF NextEntry
<1>2. entry' \in Nat \ {0}
  BY DEF NextEntry, IInv, BootInv
<1>3. a' \in Nat
  <2>1. CASE entry < Len(mmap)
    <3>1. Len(mmap) \in Nat
      BY MapsAreMaps DEF IInv, BootInv
    <3>2. entry + 1 \in 1..Len(mmap)
      BY <2>1, <3>1 DEF IInv, BootInv
    <3> QED
      BY <2>1, <3>2, EntryFacts DEF NextEntry, IInv, BootInv
  <2> QED
    BY <2>1 DEF NextEntry
<1> QED
  BY <1>1, <1>2, <1>3
     DEF IInv, TypeOK, BootInv, KernelFramesNeverDealt, DealtInRam, Dealt, SharedOnlyByRuns,
         UsedPagesCountBits, Frames

LEMMA BootDoneIInv ==
    ASSUME IInv, BootDone PROVE IInv'
BY DEF BootDone, IInv, TypeOK, BootInv, KernelFramesNeverDealt, DealtInRam, Dealt,
       SharedOnlyByRuns, UsedPagesCountBits, Frames

LEMMA StutterIInv ==
    ASSUME IInv, UNCHANGED allVars PROVE IInv'
BY DEF allVars, IInv, TypeOK, BootInv, KernelFramesNeverDealt, DealtInRam, Dealt,
       SharedOnlyByRuns, UsedPagesCountBits, Frames

LEMMA AllocPageIInv ==
    ASSUME IInv, phase = "run", UNCHANGED bootVars, pmm_alloc_page PROVE IInv'
<1>1. total_pages' = total_pages /\ Frames' = Frames /\ shared' = shared
  BY DEF pmm_alloc_page, Frames
<1>2. BootInv'
  BY <1>1, RunBootInv
<1>3. CASE Allocatable = {}
  <2>1. result' = 0 /\ UNCHANGED <<clear, used_pages, holders>>
    BY <1>3 DEF pmm_alloc_page, Refuse
  <2> QED
    BY <1>1, <1>2, <2>1, WordWide
       DEF IInv, TypeOK, KernelFramesNeverDealt, DealtInRam, Dealt, SharedOnlyByRuns, UsedPagesCountBits
<1>4. CASE Allocatable # {}
  <2>1. PICK f \in clear :
           /\ clear' = clear \ {f} /\ used_pages' = used_pages + 1
           /\ holders' = [holders EXCEPT ![f] = @ + 1]
           /\ result' = PHYS_TO_VIRT(f)
    BY <1>4 DEF pmm_alloc_page, Take
  <2>2. /\ f \in 0..(total_pages - 1) /\ f \in Frames /\ f \in Nat
        /\ f \notin shared => holders[f] = 0
        /\ total_pages \in Nat /\ used_pages \in Nat
        /\ clear \subseteq 0..(total_pages - 1)
    BY FrameFacts DEF IInv, TypeOK, SharedOnlyByRuns, Frames
  <2>3. \A g \in Frames : holders'[g] = IF g = f THEN holders[f] + 1 ELSE holders[g]
    BY <2>1, <2>2 DEF IInv, TypeOK
  <2>4. TypeOK'
    <3>1. result' \in 0..(WordFrames - 1)
      BY <2>1, <2>2, PointerIsWord
    <3>2. holders' \in [Frames -> Nat]
      BY <2>1, <2>2 DEF IInv, TypeOK
    <3>3. shared \subseteq Frames
      BY DEF IInv, TypeOK
    <3> QED
      BY <1>1, <2>1, <2>2, <3>1, <3>2, <3>3 DEF TypeOK
  <2>5. KernelFramesNeverDealt' /\ DealtInRam'
    BY <1>1, <2>1, <2>2, <2>3 DEF IInv, KernelFramesNeverDealt, DealtInRam, Dealt
  <2>6. SharedOnlyByRuns'
    <3>1. \A g \in Frames \ shared : holders[g] <= 1 /\ (holders[g] > 0 => g \notin clear)
      BY DEF IInv, SharedOnlyByRuns
    <3>2. ASSUME NEW g \in Frames \ shared
          PROVE  holders'[g] <= 1 /\ (holders'[g] > 0 => g \notin clear')
      BY <2>1, <2>2, <2>3, <3>1
    <3> QED
      BY <1>1, <3>2 DEF SharedOnlyByRuns
  <2>7. UsedPagesCountBits'
    <3>1. Cardinality(clear \ {f}) = Cardinality(clear) - 1 /\ Cardinality(clear) \in Nat
      BY <2>2, ClearFacts, SMTT(30)
    <3>2. /\ used_pages + 1 >= total_pages - Cardinality(clear \ {f})
          /\ shared = {} => used_pages + 1 = total_pages - Cardinality(clear \ {f})
      BY <2>2, <3>1 DEF IInv, UsedPagesCountBits
    <3> QED
      BY <1>1, <2>1, <3>2 DEF UsedPagesCountBits
  <2> QED
    BY <1>2, <2>4, <2>5, <2>6, <2>7 DEF IInv
<1> QED
  BY <1>3, <1>4

\* What a request that is served does: it finds the first frame of a byte free
\* and takes the last ones of it.
LEMMA AllocPagesOutcome ==
    ASSUME IInv, NEW c \in Counts, pmm_alloc_pages(c), Serving(c) # {}
    PROVE  \E i \in Nat :
              /\ c \in 0..8 /\ i < bitmap_size /\ (c > 0 => 8 * i \in clear)
              /\ clear' = clear \ RunOf(i, c) /\ used_pages' = used_pages + c
              /\ holders' = [f \in Frames |->
                                IF f \in RunOf(i, c) THEN holders[f] + 1 ELSE holders[f]]
              /\ shared' = shared \cup (RunOf(i, c) \ clear)
              /\ result' = PHYS_TO_VIRT(8 * i + (8 - c))
              /\ RunOf(i, c) \subseteq Frames
              /\ \A f \in RunOf(i, c) : f >= 8 * i
<1>1. PICK i \in Serving(c) :
         /\ clear' = clear \ RunOf(i, c) /\ used_pages' = used_pages + c
         /\ holders' = [f \in Frames |->
                           IF f \in RunOf(i, c) THEN holders[f] + 1 ELSE holders[f]]
         /\ shared' = shared \cup (RunOf(i, c) \ clear)
         /\ result' = PHYS_TO_VIRT(8 * i + (8 - c))
  BY DEF pmm_alloc_pages
<1>2. bitmap_size \in Nat /\ Frames = 0..(8 * bitmap_size - 1)
  BY FrameFacts DEF bitmap_size, Frames, FramesOf, IInv, TypeOK
<1>3. i \in Nat /\ i < bitmap_size /\ ByteServes(i, c)
  BY <1>2 DEF Serving
<1>4. PICK found \in 0..8 : Scans(i, c, found) /\ found >= c
  BY <1>3 DEF ByteServes
<1>5. c \in 0..8
  BY <1>4, CountsNat
<1>6. ASSUME c > 0 PROVE 8 * i \in clear
  <2>1. 0 \in 0..(found - 1)
    BY <1>4, <1>5, <1>6
  <2>2. 8 * i + 0 \in clear
    BY <1>4, <2>1 DEF Scans
  <2> QED
    BY <1>3, <2>2
<1>7. ASSUME NEW f \in RunOf(i, c) PROVE f \in Frames /\ f >= 8 * i
  <2>1. PICK k \in 0..(c - 1) : f = 8 * i + (8 - c) + k
    BY DEF RunOf
  <2> QED
    BY <1>2, <1>3, <1>5, <2>1
<1> QED
  BY <1>1, <1>3, <1>5, <1>6, <1>7

LEMMA AllocPagesIInv ==
    ASSUME IInv, phase = "run", UNCHANGED bootVars, NEW c \in Counts, pmm_alloc_pages(c)
    PROVE  IInv'
<1>1. total_pages' = total_pages /\ Frames' = Frames
  BY DEF pmm_alloc_pages, Frames
<1>2. BootInv'
  BY <1>1, RunBootInv
<1>3. CASE Serving(c) = {}
  <2>1. result' = 0 /\ UNCHANGED <<clear, used_pages, holders, shared>>
    BY <1>3 DEF pmm_alloc_pages, Refuse
  <2> QED
    BY <1>1, <1>2, <2>1, WordWide
       DEF IInv, TypeOK, KernelFramesNeverDealt, DealtInRam, Dealt, SharedOnlyByRuns, UsedPagesCountBits
<1>4. CASE Serving(c) # {}
  <2>1. PICK i \in Nat :
           /\ c \in 0..8 /\ i < bitmap_size /\ (c > 0 => 8 * i \in clear)
           /\ clear' = clear \ RunOf(i, c) /\ used_pages' = used_pages + c
           /\ holders' = [f \in Frames |->
                             IF f \in RunOf(i, c) THEN holders[f] + 1 ELSE holders[f]]
           /\ shared' = shared \cup (RunOf(i, c) \ clear)
           /\ result' = PHYS_TO_VIRT(8 * i + (8 - c))
           /\ RunOf(i, c) \subseteq Frames
           /\ \A f \in RunOf(i, c) : f >= 8 * i
    BY <1>4, AllocPagesOutcome, Zenon
  <2>2. /\ total_pages \in Nat /\ used_pages \in Nat /\ clear \subseteq 0..(total_pages - 1)
        /\ holders \in [Frames -> Nat] /\ shared \subseteq Frames /\ Frames \subseteq Nat
        /\ 0..(total_pages - 1) \subseteq Frames
    BY FrameFacts DEF IInv, TypeOK, Frames
  <2> DEFINE r == RunOf(i, c)
  <2> HIDE DEF r
  <2>3. \A f \in Frames : holders'[f] = IF f \in r THEN holders[f] + 1 ELSE holders[f]
    BY <2>1 DEF r
  <2>4. TypeOK'
    <3>1. result' \in 0..(WordFrames - 1)
      BY <2>1, PointerIsWord
    <3>2. holders' \in [Frames -> Nat]
      BY <2>1, <2>2
    <3>3. used_pages' \in Nat
      BY <2>1, <2>2
    <3>4. clear' \subseteq 0..(total_pages - 1) /\ shared' \subseteq Frames
      BY <2>1, <2>2, Zenon
    <3> QED
      BY <1>1, <2>2, <3>1, <3>2, <3>3, <3>4, Zenon DEF TypeOK
  <2>5. DealtInRam' /\ SharedOnlyByRuns'
    <3>1. clear' = clear \ r /\ shared' = shared \cup (r \ clear)
      BY <2>1 DEF r
    <3> QED
      BY <1>1, <2>2, <2>3, <3>1 DEF IInv, DealtInRam, SharedOnlyByRuns, Dealt
  <2>6. KernelFramesNeverDealt'
    <3>1. ASSUME NEW f \in r PROVE OutsideKernel(f, total_pages)
      <4>1. c > 0
        BY <2>1 DEF r, RunOf
      <4>2. 8 * i \in clear /\ 8 * i \in Nat /\ f \in Nat /\ 8 * i <= f
        BY <2>1, <2>2, <4>1, Zenon DEF r
      <4>3. OutsideKernel(8 * i, total_pages)
        BY <4>2 DEF IInv, KernelFramesNeverDealt, Dealt
      <4> QED
        BY <2>2, <4>2, <4>3, OutsideAbove
    <3>2. clear' \subseteq clear
      BY <2>1
    <3> QED
      BY <1>1, <2>3, <3>1, <3>2 DEF IInv, KernelFramesNeverDealt, Dealt
  <2>7. UsedPagesCountBits'
    <3>1. /\ Cardinality(clear \ r) \in Nat /\ Cardinality(clear \ r) >= Cardinality(clear) - c
          /\ r \subseteq clear => Cardinality(clear \ r) = Cardinality(clear) - c
      BY <2>1, <2>2, RunFacts, Zenon DEF r
    <3>2. Cardinality(clear) \in Nat
      BY <2>2, ClearFacts, Zenon
    <3>3. shared' = {} => shared = {} /\ r \subseteq clear
      BY <2>1 DEF r
    <3>4. /\ used_pages + c >= total_pages - Cardinality(clear \ r)
          /\ shared' = {} => used_pages + c = total_pages - Cardinality(clear \ r)
      BY <2>1, <2>2, <3>1, <3>2, <3>3 DEF IInv, UsedPagesCountBits
    <3> QED
      BY <1>1, <2>1, <3>4 DEF UsedPagesCountBits, r
  <2> QED
    BY <1>2, <2>4, <2>5, <2>6, <2>7 DEF IInv
<1> QED
  BY <1>3, <1>4

\* What giving back frame f, by whatever address, does to its holders.
LEMMA GiveBackFacts ==
    ASSUME IInv, NEW f \in Frames, holders[f] > 0,
           holders' = [holders EXCEPT ![f] = @ - 1], UNCHANGED total_pages
    PROVE  /\ holders' \in [Frames' -> Nat] /\ Frames' = Frames
           /\ f \notin shared => holders'[f] = 0
           /\ f \in Dealt
           /\ \A g \in Frames : g # f => holders'[g] = holders[g]
BY DEF IInv, TypeOK, SharedOnlyByRuns, Dealt, Frames

LEMMA FreePageIInv ==
    ASSUME SmallRam, IInv, phase = "run", UNCHANGED bootVars, NEW f \in Frames, pmm_free_page(f)
    PROVE  IInv'
<1>1. /\ UNCHANGED <<total_pages, shared, result>> /\ holders[f] > 0
      /\ holders' = [holders EXCEPT ![f] = @ - 1] /\ pmm_mark_free(PHYS_TO_VIRT(f))
  BY DEF pmm_free_page
<1>2. total_pages \in Nat /\ total_pages <= Half /\ f \in Nat
  BY FrameFacts DEF IInv, TypeOK, BootInv, Frames
<1>3. PHYS_TO_VIRT(f) \in Nat /\ ~(PHYS_TO_VIRT(f) < total_pages)
  <2>2. f < Half
    BY FramesBelowHalf
  <2>3. PHYS_TO_VIRT(f) \in Nat /\ PHYS_TO_VIRT(f) > Half
    BY <1>2, <2>2, PointerBeyondRam
  <2> QED
    BY <1>2, <2>3, WordWide
<1>4. clear' = clear /\ used_pages' = used_pages
  BY <1>1, <1>3 DEF pmm_mark_free, InRam
<1>5. /\ holders' \in [Frames' -> Nat] /\ Frames' = Frames /\ f \in Dealt
      /\ f \notin shared => holders'[f] = 0
      /\ \A g \in Frames : g # f => holders'[g] = holders[g]
  BY <1>1, GiveBackFacts, Zenon
<1>6. KernelFramesNeverDealt' /\ DealtInRam' /\ SharedOnlyByRuns'
  BY <1>1, <1>4, <1>5 DEF IInv, KernelFramesNeverDealt, DealtInRam, Dealt, SharedOnlyByRuns
<1>7. TypeOK' /\ UsedPagesCountBits'
  BY <1>1, <1>4, <1>5 DEF IInv, TypeOK, UsedPagesCountBits
<1> QED
  BY <1>1, <1>6, <1>7, RunBootInv DEF IInv

LEMMA FreePhysicalIInv ==
    ASSUME IInv, phase = "run", UNCHANGED bootVars, NEW f \in Frames, FreePhysical(f)
    PROVE  IInv'
<1>1. /\ UNCHANGED <<total_pages, shared, result>> /\ holders[f] > 0
      /\ holders' = [holders EXCEPT ![f] = @ - 1] /\ pmm_mark_free(f)
  BY DEF FreePhysical
<1>2. f \in Nat
  BY FrameFacts DEF IInv, TypeOK, Frames
<1>3. /\ holders' \in [Frames' -> Nat] /\ Frames' = Frames /\ f \in Dealt
      /\ f \notin shared => holders'[f] = 0
      /\ \A g \in Frames : g # f => holders'[g] = holders[g]
  BY <1>1, GiveBackFacts, Zenon
<1>4. /\ used_pages' \in Nat /\ clear' \subseteq 0..(total_pages' - 1)
      /\ UsedPagesCountBits' /\ clear' \subseteq clear \cup {f} /\ total_pages \in Nat
  BY <1>1, <1>2, MarkFreeFacts DEF IInv, TypeOK
<1>5. KernelFramesNeverDealt' /\ DealtInRam' /\ SharedOnlyByRuns'
  BY <1>1, <1>3, <1>4 DEF IInv, KernelFramesNeverDealt, DealtInRam, Dealt, SharedOnlyByRuns
<1>6. TypeOK'
  BY <1>1, <1>3, <1>4 DEF IInv, TypeOK
<1> QED
  BY <1>1, <1>4, <1>5, <1>6, RunBootInv DEF IInv

LEMMA MarkUsedIInv ==
    ASSUME IInv, phase = "run", UNCHANGED bootVars, NEW f \in Frames, pmm_mark_used(f)
    PROVE  IInv'
<1>1. UNCHANGED <<total_pages, holders, shared, result>> /\ Frames' = Frames /\ clear' = clear \ {f}
  BY DEF pmm_mark_used, Frames
<1>2. KernelFramesNeverDealt' /\ DealtInRam' /\ SharedOnlyByRuns'
  BY <1>1 DEF IInv, KernelFramesNeverDealt, DealtInRam, Dealt, SharedOnlyByRuns
<1>3. used_pages' \in Nat /\ UsedPagesCountBits'
  <2>1. CASE f \in clear
    <3>1. Cardinality(clear \ {f}) = Cardinality(clear) - 1 /\ Cardinality(clear) \in Nat
      BY <2>1, ClearFacts, SMTT(30) DEF IInv, TypeOK
    <3>2. /\ used_pages + 1 \in Nat /\ used_pages + 1 >= total_pages - Cardinality(clear \ {f})
          /\ shared = {} => used_pages + 1 = total_pages - Cardinality(clear \ {f})
      BY <3>1 DEF IInv, TypeOK, UsedPagesCountBits
    <3> QED
      BY <1>1, <2>1, <3>2 DEF pmm_mark_used, CountUsed, UsedPagesCountBits
  <2>2. CASE f \notin clear
    <3>1. used_pages' = used_pages /\ clear' = clear
      BY <1>1, <2>2 DEF pmm_mark_used, CountUsed
    <3> QED
      BY <1>1, <3>1 DEF IInv, TypeOK, UsedPagesCountBits
  <2> QED
    BY <2>1, <2>2
<1>4. TypeOK'
  BY <1>1, <1>3, Zenon DEF IInv, TypeOK
<1> QED
  BY <1>1, <1>2, <1>3, <1>4, RunBootInv DEF IInv

-----------------------------------------------------------------------------
(* Where the free frames come from.                                         *)

\* Entry e of a map reports frame f as RAM: what FreeFramesAreRam says of it.
Reports(e, f) ==
    /\ e.available
    /\ e.addr <= LastByte(f) /\ FirstByte(f) < e.addr + e.len
    /\ e.addr % PageSize = 0 => e.addr <= FirstByte(f)
    /\ e.addr % PageSize = 0 /\ e.len % PageSize = 0 => LastByte(f) < e.addr + e.len

IsRam(f) == \E i \in 1..Len(mmap) : Reports(mmap[i], f)

\* The marking loop walks through its entry in pages from the entry's start.
LoopInv ==
    phase = "mark" /\ entry <= Len(mmap) =>
        mmap[entry].addr <= a /\ a % PageSize = mmap[entry].addr % PageSize

\* The frames that came from the map.
Owned == Dealt \ shared

RamInv == LoopInv /\ \A f \in Owned : IsRam(f)

\* The frame of an address that the loop visits in entry e.
LEMMA VisitedFrameIsRam ==
    ASSUME NEW e, e.addr \in Nat, e.len \in Nat, e.available,
           NEW x \in Nat, e.addr <= x, x < e.addr + e.len, x % PageSize = e.addr % PageSize
    PROVE  Reports(e, x \div PageSize)
<1> DEFINE f == x \div 4096
           s == e.addr
           n == e.len
<1>1. f \in Nat /\ s \in Nat /\ n \in Nat /\ s <= x /\ x < s + n /\ x % 4096 = s % 4096
  BY DEF PageSize
<1>2. 4096 * f <= x /\ x <= 4096 * f + 4095
  OBVIOUS
<1>6. x = 4096 * (x \div 4096) + (x % 4096)
  OBVIOUS
<1> HIDE DEF f, s, n
<1>3. s <= f * 4096 + 4096 - 1 /\ f * 4096 < s + n
  BY <1>1, <1>2
<1>4. ASSUME s % 4096 = 0 PROVE s <= f * 4096 /\ x = f * 4096
  BY <1>1, <1>4, <1>6, SMTT(30) DEF f
<1>5. ASSUME s % 4096 = 0, n % 4096 = 0 PROVE f * 4096 + 4096 - 1 < s + n
  <2>1. x = f * 4096
    BY <1>4, <1>5
  <2>2. PICK i \in Nat, j \in Nat : s = 4096 * i /\ n = 4096 * j
    <3>1. s = 4096 * (s \div 4096) /\ n = 4096 * (n \div 4096)
      BY <1>1, <1>5
    <3>2. s \div 4096 \in Nat /\ n \div 4096 \in Nat
      BY <1>1
    <3> QED
      BY <3>1, <3>2
  <2>3. f < i + j
    BY <1>1, <2>1, <2>2
  <2> QED
    BY <1>1, <2>2, <2>3
<1> QED
  BY <1>3, <1>4, <1>5 DEF Reports, FirstByte, LastByte, PageSize, f, s, n

\* A step that deals in no new frame, under the same map.
LEMMA SameRam ==
    ASSUME RamInv, Owned' \subseteq Owned, UNCHANGED mmap, LoopInv'
    PROVE  RamInv'
<1>1. \A f : IsRam(f)' <=> IsRam(f)
  BY DEF IsRam
<1> QED
  BY <1>1 DEF RamInv

\* The calls of the running kernel deal only in frames that were dealt in,
\* unless they are frames of a run whose bits were set.
LEMMA RunDealsNothingNew ==
    ASSUME SmallRam, IInv, Run
    PROVE  Owned' \subseteq Owned
<1>1. /\ total_pages \in Nat /\ holders \in [Frames -> Nat] /\ clear \subseteq Frames
      /\ Frames \subseteq Nat
  BY FrameFacts DEF IInv, TypeOK, Frames
<1>2. ASSUME UNCHANGED <<clear, holders, shared, total_pages>> PROVE Owned' \subseteq Owned
  BY <1>2 DEF Owned, Dealt, Frames
<1>3. CASE pmm_alloc_page
  <2>1. Frames' = Frames /\ shared' = shared
    BY <1>3 DEF pmm_alloc_page, Frames
  <2>2. CASE Allocatable = {}
    BY <1>2, <1>3, <2>2 DEF pmm_alloc_page, Refuse
  <2>3. CASE Allocatable # {}
    <3>1. PICK f \in clear : clear' = clear \ {f} /\ holders' = [holders EXCEPT ![f] = @ + 1]
      BY <1>3, <2>3 DEF pmm_alloc_page, Take
    <3>2. \A g \in Frames : g # f => holders'[g] = holders[g]
      BY <1>1, <3>1
    <3> QED
      BY <2>1, <3>1, <3>2 DEF Owned, Dealt
  <2> QED
    BY <2>2, <2>3
<1>4. ASSUME NEW c \in Counts, pmm_alloc_pages(c) PROVE Owned' \subseteq Owned
  <2>1. CASE Serving(c) = {}
    BY <1>2, <1>4, <2>1 DEF pmm_alloc_pages, Refuse
  <2>2. CASE Serving(c) # {}
    <3>1. PICK i \in Nat :
             /\ clear' = clear \ RunOf(i, c)
             /\ holders' = [f \in Frames |->
                               IF f \in RunOf(i, c) THEN holders[f] + 1 ELSE holders[f]]
             /\ shared' = shared \cup (RunOf(i, c) \ clear)
      BY <1>4, <2>2, AllocPagesOutcome, Zenon
    <3>2. Frames' = Frames
      BY <1>4 DEF pmm_alloc_pages, Frames
    <3> QED
      BY <3>1, <3>2 DEF Owned, Dealt
  <2> QED
    BY <2>1, <2>2
<1>5. ASSUME NEW f \in Frames, pmm_free_page(f) PROVE Owned' \subseteq Owned
  <2>1. /\ UNCHANGED <<total_pages, shared>> /\ holders[f] > 0
        /\ holders' = [holders EXCEPT ![f] = @ - 1] /\ pmm_mark_free(PHYS_TO_VIRT(f))
    BY <1>5 DEF pmm_free_page
  <2>2. f \in Nat /\ f < Half /\ total_pages <= Half
    BY FramesBelowHalf DEF IInv, BootInv
  <2>3. PHYS_TO_VIRT(f) \in Nat /\ PHYS_TO_VIRT(f) > Half
    BY <2>2, PointerBeyondRam
  <2>4. clear' = clear
    BY <1>1, <2>1, <2>2, <2>3, WordWide DEF pmm_mark_free, InRam
  <2>5. /\ Frames' = Frames /\ f \in Dealt
        /\ \A g \in Frames : g # f => holders'[g] = holders[g]
    BY <2>1, GiveBackFacts, Zenon
  <2> QED
    BY <2>1, <2>4, <2>5 DEF Owned, Dealt
<1>6. ASSUME NEW f \in Frames, FreePhysical(f) PROVE Owned' \subseteq Owned
  <2>1. /\ UNCHANGED <<total_pages, shared>> /\ holders[f] > 0
        /\ holders' = [holders EXCEPT ![f] = @ - 1] /\ pmm_mark_free(f)
    BY <1>6 DEF FreePhysical
  <2>2. clear' \subseteq clear \cup {f}
    BY <2>1 DEF pmm_mark_free
  <2>3. /\ Frames' = Frames /\ f \in Dealt
        /\ \A g \in Frames : g # f => holders'[g] = holders[g]
    BY <2>1, GiveBackFacts, Zenon
  <2> QED
    BY <2>1, <2>2, <2>3 DEF Owned, Dealt
<1>7. ASSUME NEW f \in Frames, pmm_mark_used(f) PROVE Owned' \subseteq Owned
  BY <1>7 DEF pmm_mark_used, Owned, Dealt, Frames
<1> QED
  BY <1>3, <1>4, <1>5, <1>6, <1>7 DEF Run

\* Every step of kmain and of the running kernel keeps it.
LEMMA NextRamInv ==
    ASSUME SmallRam, IInv, RamInv, [Next]_allVars
    PROVE  RamInv'
<1>0. /\ mmap \in Maps /\ Len(mmap) \in Nat /\ entry \in Nat \ {0} /\ a \in Nat
      /\ holders \in [Frames -> Nat]
  BY MapsAreMaps DEF IInv, BootInv, TypeOK
<1>1. CASE ScanMap
  <2>1. PICK pages \in Int : pmm_init(pages)
    BY <1>1, <1>0, EntryFacts, DefaultMaxNat DEF ScanMap, AvailableEnds, PageSize
  <2>2. clear' = {} /\ holders' = [f \in Frames' |-> 0]
    BY <2>1 DEF pmm_init, Frames
  <2>3. Owned' = {}
    BY <2>2 DEF Owned, Dealt
  <2>4. LoopInv'
    <3> SUFFICES ASSUME entry' <= Len(mmap') PROVE mmap[1].addr <= a' /\ a' % PageSize = mmap[1].addr % PageSize
      BY <1>1 DEF LoopInv, ScanMap
    <3>1. entry' = 1 /\ mmap' = mmap
      BY <1>1 DEF ScanMap
    <3>2. Len(mmap) # 0 /\ 1 \in 1..Len(mmap)
      BY <1>0, <3>1
    <3>3. mmap # <<>>
      BY <3>2
    <3>4. a' = mmap[1].addr /\ mmap[1].addr \in Nat
      BY <1>0, <1>1, <3>2, <3>3, EntryFacts DEF ScanMap
    <3> QED
      BY <3>4
  <2> QED
    BY <2>3, <2>4 DEF RamInv
<1>2. CASE MarkAddress
  <2> DEFINE e == mmap[entry]
             f == a \div PageSize
  <2>1. /\ phase = "mark" /\ entry \in 1..Len(mmap) /\ e.available /\ a < e.addr + e.len
        /\ a' = a + PageSize /\ UNCHANGED <<total_pages, holders, shared, mmap, phase, entry>>
    BY <1>0, <1>2 DEF MarkAddress, MoreOf
  <2>2. e.addr \in Nat /\ e.len \in Nat
    BY <1>0, <2>1, EntryFacts
  <2>3. e.addr <= a /\ a % PageSize = e.addr % PageSize
    BY <2>1, <1>0 DEF RamInv, LoopInv
  <2> HIDE DEF e
  <2>4. Reports(e, f)
    BY <1>0, <2>1, <2>2, <2>3, VisitedFrameIsRam
  <2>5. IsRam(f)
    BY <2>1, <2>4 DEF IsRam, e
  <2>6. e.addr <= a + PageSize /\ (a + PageSize) % PageSize = e.addr % PageSize
    BY <1>0, <2>2, <2>3 DEF PageSize
  <2>7. LoopInv'
    BY <2>1, <2>6 DEF LoopInv, e
  <2>8. Frames' = Frames
    BY <2>1 DEF Frames
  <2>9. clear' \subseteq clear \cup {f}
    BY <1>2 DEF MarkAddress, pmm_mark_free
  <2> HIDE DEF f
  <2>10. Owned' \subseteq Owned \cup {f}
    BY <2>1, <2>8, <2>9 DEF Owned, Dealt
  <2>11. \A g : IsRam(g)' <=> IsRam(g)
    BY <2>1 DEF IsRam
  <2> QED
    BY <2>5, <2>7, <2>10, <2>11 DEF RamInv
<1>3. CASE NextEntry
  <2>1. UNCHANGED <<clear, holders, shared, total_pages, mmap, phase>> /\ entry' = entry + 1
    BY <1>3 DEF NextEntry
  <2>2. Owned' = Owned
    BY <2>1 DEF Owned, Dealt, Frames
  <2>3. LoopInv'
    <3> SUFFICES ASSUME entry + 1 <= Len(mmap)
                 PROVE  mmap[entry + 1].addr <= a' /\ a' % PageSize = mmap[entry + 1].addr % PageSize
      BY <2>1 DEF LoopInv
    <3>1. entry < Len(mmap) /\ entry + 1 \in 1..Len(mmap)
      BY <1>0
    <3>2. a' = mmap[entry + 1].addr /\ a' \in Nat
      BY <1>0, <1>3, <3>1, EntryFacts DEF NextEntry
    <3> QED
      BY <3>2
  <2> QED
    BY <2>1, <2>2, <2>3, SameRam
<1>4. CASE BootDone
  BY <1>4, SameRam DEF BootDone, Owned, Dealt, Frames, LoopInv
<1>5. CASE Run
  <2>1. Owned' \subseteq Owned
    BY <1>5, RunDealsNothingNew
  <2>2. UNCHANGED mmap /\ LoopInv'
    BY <1>5 DEF Run, bootVars, LoopInv
  <2> QED
    BY <2>1, <2>2, SameRam
<1>6. CASE UNCHANGED allVars
  <2>1. UNCHANGED <<clear, total_pages, holders, shared, mmap, phase, entry, a>>
    BY <1>6 DEF allVars
  <2>2. Owned' = Owned /\ LoopInv'
    BY <2>1 DEF Owned, Dealt, Frames, LoopInv, RamInv
  <2> QED
    BY <2>1, <2>2, SameRam
<1> QED
  BY <1>1, <1>2, <1>3, <1>4, <1>5, <1>6 DEF Next

-----------------------------------------------------------------------------
(* The theorems.                                                            *)

\* The invariant holds in every state of every machine with at most 2 GB,
\* whatever sizes are asked of pmm_alloc_pages.
THEOREM Invariance ==
    ASSUME SmallRam
    PROVE  Spec => []IInv
<1>1. Init => IInv
  BY InitIInv
<1>2. IInv /\ [Next]_allVars => IInv'
  <2> SUFFICES ASSUME IInv, [Next]_allVars PROVE IInv'
    OBVIOUS
  <2>1. CASE ScanMap
    BY <2>1, ScanMapIInv
  <2>2. CASE MarkAddress
    BY <2>2, MarkAddressIInv
  <2>3. CASE NextEntry
    BY <2>3, NextEntryIInv
  <2>4. CASE BootDone
    BY <2>4, BootDoneIInv
  <2>5. CASE Run
    <3>1. phase = "run" /\ UNCHANGED bootVars
      BY <2>5 DEF Run
    <3>2. CASE pmm_alloc_page
      BY <3>1, <3>2, AllocPageIInv
    <3>3. CASE \E c \in Counts : pmm_alloc_pages(c)
      BY <3>1, <3>3, AllocPagesIInv
    <3>4. CASE \E f \in Frames : pmm_free_page(f)
      BY <3>1, <3>4, FreePageIInv
    <3>5. CASE \E f \in Frames : FreePhysical(f)
      BY <3>1, <3>5, FreePhysicalIInv
    <3>6. CASE \E f \in Frames : pmm_mark_used(f)
      BY <3>1, <3>6, MarkUsedIInv
    <3> QED
      BY <2>5, <3>2, <3>3, <3>4, <3>5, <3>6 DEF Run
  <2>6. CASE UNCHANGED allVars
    BY <2>6, StutterIInv
  <2> QED
    BY <2>1, <2>2, <2>3, <2>4, <2>5, <2>6 DEF Next
<1> QED
  BY <1>1, <1>2, PTL DEF Spec

\* The kernel image, the low memory and the bitmap are never free and never
\* handed out, whatever map below 2 GB the boot loader passes and whatever is
\* asked of the allocator: a request that is served out of a byte of the bitmap
\* finds the byte's first frame free, and all above that one are outside.
THEOREM KernelStaysProtected ==
    ASSUME SmallRam
    PROVE  Spec => []KernelFramesNeverDealt
<1>1. IInv => KernelFramesNeverDealt
  BY DEF IInv
<1> QED
  BY <1>1, Invariance, PTL

\* Every frame that is free or handed out was reported as available, all of it
\* when the map is page-aligned: the marking loop frees nothing else, and only
\* pmm_alloc_pages, taking frames whose bits are set, brings in any other.
THEOREM FreeFramesStayRam ==
    ASSUME SmallRam
    PROVE  Spec => []FreeFramesAreRam
<1>1. Init => RamInv
  BY DEF Init, RamInv, LoopInv, Owned, Dealt, Frames, FramesOf, BitmapBytes
<1>2. IInv /\ RamInv /\ [Next]_allVars => RamInv'
  BY NextRamInv
<1>3. RamInv => FreeFramesAreRam
  BY Zenon DEF RamInv, Owned, IsRam, Reports, FreeFramesAreRam
<1> QED
  BY <1>1, <1>2, <1>3, Invariance, PTL DEF Spec

\* No frame has two clients, and none that has a client is free, but for frames
\* that pmm_alloc_pages has handed out with their bits set.
THEOREM OnlyRunsShare ==
    ASSUME SmallRam
    PROVE  Spec => []SharedOnlyByRuns
<1>1. IInv => SharedOnlyByRuns
  BY DEF IInv
<1> QED
  BY <1>1, Invariance, PTL

\* used_pages is never less than the number of set bits, and is that number as
\* long as pmm_alloc_pages has counted no frame twice (pmm.c:147 counts without
\* looking at the bit): the guarded decrement of pmm_mark_free never skips.
THEOREM CounterCountsBits ==
    ASSUME SmallRam
    PROVE  Spec => [](TypeOK /\ UsedPagesCountBits)
<1>1. IInv => TypeOK /\ UsedPagesCountBits
  BY DEF IInv
<1> QED
  BY <1>1, Invariance, PTL

\* On every machine, whatever its clients do, a request of more than eight
\* pages is refused and takes nothing.  malloc makes no other (4096 pages), so
\* the heap never grows beyond heap_area.
THEOREM LargeRequestsFail == Spec => LargeRequestsRefused
<1> DEFINE Sized == total_pages \in Nat /\ mmap \in Maps
<1>1. Init => Sized
  BY DEF Init
<1>2. Sized /\ [Next]_allVars => Sized'
  <2> SUFFICES ASSUME Sized, [Next]_allVars PROVE Sized'
    OBVIOUS
  <2>1. CASE ScanMap
    <3>1. PICK max \in AvailableEnds \cup {0} :
             total_pages' = (IF max = 0 THEN DefaultMax ELSE max) \div PageSize
      BY <2>1 DEF ScanMap, pmm_init
    <3>2. max \in Nat
      BY EntryFacts DEF AvailableEnds
    <3> QED
      BY <2>1, <3>1, <3>2, DefaultMaxNat DEF ScanMap, PageSize
  <2>2. CASE MarkAddress \/ NextEntry \/ BootDone
    BY <2>2 DEF MarkAddress, NextEntry, BootDone
  <2>3. CASE Run
    BY <2>3 DEF Run, bootVars, pmm_alloc_page, pmm_alloc_pages, pmm_free_page,
                FreePhysical, pmm_mark_used
  <2>4. CASE UNCHANGED allVars
    BY <2>4 DEF allVars
  <2> QED
    BY <2>1, <2>2, <2>3, <2>4 DEF Next
<1>3. Sized => \A c \in Counts :
         c > 8 /\ phase = "run" /\ pmm_alloc_pages(c) => result' = NULL /\ clear' = clear
  BY CountsNat, LargeCallRefused
<1> HIDE DEF Sized
<1> QED
  BY <1>1, <1>2, <1>3, PTL DEF Spec, LargeRequestsRefused
=============================================================================
