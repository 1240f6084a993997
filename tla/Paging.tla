------------------------------- MODULE Paging -------------------------------
(***************************************************************************)
(* The page tables of src/mm/paging.c and src/mm/vmm.c on the tables that  *)
(* src/arch/x86_64/boot.s leaves, and on the frames of Pmm.  Addresses are *)
(* counted in pages.  A call takes a step per level of the walk; calls do  *)
(* not overlap: one CPU, no task switch inside them, and no interrupt      *)
(* handler maps or allocates, so paging_lock and vmm_lock are never found  *)
(* taken.  A walk that leaves the tables ends the behaviour: what it would *)
(* read and overwrite is no longer described by them.                      *)
(***************************************************************************)
EXTENDS Pmm

CONSTANTS
    Entries,    \* slots of a table: 512
    Ram,        \* total_pages
    FreeSets,   \* the frames that may be free once the kernel has booted
    Requests,   \* what is asked of vmm_map_range: virt, phys, pages, present
    Watched     \* the virtual pages whose translation is looked at

ASSUME EntriesFew == Entries \in Nat /\ Entries > 2
ASSUME FourLevels ==
    WordFrames = Entries * Entries * Entries * Entries /\ Half = 2 * Entries * Entries
ASSUME BootTablesLow == FloorFrame > 3 /\ Ram \in Nat
ASSUME FreeSetsAboveFloor == FreeSets \subseteq SUBSET (FloorFrame..(Ram - 1))
ASSUME WatchedPages == Watched \subseteq 0..(WordFrames - 1)
ASSUME RequestsTyped ==
    Requests \subseteq [virt : 0..(WordFrames - 1), phys : Nat, pages : Nat, present : BOOLEAN]

VARIABLES
    tables,         \* the frames in use as page tables: their level and slots
    call,           \* the call in progress; its level is 0 when there is none
    next_virt_addr,
    broken          \* how the walk left the tables, "no" as long as it has not

pagingVars == <<tables, call, next_virt_addr, broken>>
allVars == <<clear, total_pages, used_pages, holders, shared, result,
             tables, call, next_virt_addr, broken>>

Slots == 0..(Entries - 1)
Pages == 0..(WordFrames - 1)
Reach == Entries * Entries          \* 1 GB: the frames the boot mapping reaches
KernelBase == WordFrames - Half     \* KERNEL_VIRT_OFFSET
VIRT_TO_PHYS(v) == (v + Half) % WordFrames

\* The slot of a virtual page in the table of each level, PML4 being level 4.
Index(virt, level) ==
    CASE level = 4 -> (virt \div (Entries * Entries * Entries)) % Entries
      [] level = 3 -> (virt \div (Entries * Entries)) % Entries
      [] level = 2 -> (virt \div Entries) % Entries
      [] level = 1 -> virt % Entries

Absent == [present |-> FALSE, huge |-> FALSE, addr |-> 0]
Refer(frame) == [present |-> TRUE, huge |-> FALSE, addr |-> frame]
HugePage(frame) == [present |-> TRUE, huge |-> TRUE, addr |-> frame]

\* boot.s: the three tables behind each other in the kernel image; the first
\* gigabyte in huge pages, at 0 and at KERNEL_VIRT_OFFSET.
p4_table == 1
p3_table == 2
p2_table == 3
Table(level, slot) == [level |-> level, slot |-> slot]
BootTables ==
    [t \in {p4_table, p3_table, p2_table} |->
        CASE t = p4_table ->
                Table(4, [i \in Slots |->
                             IF i \in {0, Entries - 1} THEN Refer(p3_table) ELSE Absent])
          [] t = p3_table ->
                Table(3, [i \in Slots |->
                             IF i \in {0, Entries - 2} THEN Refer(p2_table) ELSE Absent])
          [] t = p2_table -> Table(2, [i \in Slots |-> HugePage(i * Entries)])]

Idle == [virt |-> 0, phys |-> 0, left |-> 0, grow |-> 0, present |-> FALSE,
         level |-> 0, table |-> p4_table]

Init ==
    /\ total_pages = Ram /\ clear \in FreeSets
    /\ used_pages = total_pages - Cardinality(clear)
    /\ holders = [f \in Frames |-> 0] /\ shared = {} /\ result = NULL
    /\ tables = BootTables /\ call = Idle /\ broken = "no"
    /\ next_virt_addr = KernelBase + Reach

-----------------------------------------------------------------------------
Free == call.level = 0 /\ broken = "no"

\* Begin to map so many pages, the first at the PML4.
Begin(virt, phys, pages, grow, present) ==
    call' = [virt |-> virt, phys |-> phys, left |-> pages, grow |-> grow, present |-> present,
             level |-> 4, table |-> p4_table]

\* vmm_map, vmm_map_range, paging_map and paging_map_range.
vmm_map_range(r) ==
    /\ Free
    /\ Begin(r.virt, r.phys, r.pages, 0, r.present)
    /\ UNCHANGED <<clear, total_pages, used_pages, holders, shared, result,
                   tables, next_virt_addr, broken>>

\* The frames come first; the pointer to them is what is then mapped.
vmm_alloc(pages) ==
    /\ Free
    /\ pmm_alloc_pages(pages)
    /\ IF result' = NULL THEN UNCHANGED call
       ELSE Begin(next_virt_addr, result', pages, pages, TRUE)
    /\ UNCHANGED <<tables, next_virt_addr, broken>>

\* Another client of the frame allocator.
OtherAlloc ==
    /\ Free
    /\ pmm_alloc_page
    /\ UNCHANGED pagingVars

Walking == call.level > 0 /\ call.left > 0 /\ broken = "no"
Slot == Index(call.virt, call.level)
Here == tables[call.table].slot[Slot]

\* Present at levels 4, 3 and 2: go down.  The huge bit is not looked at.
Follow ==
    /\ Walking /\ call.level > 1 /\ Here.present
    /\ IF Here.huge
       THEN broken' = "huge page" /\ UNCHANGED call
       ELSE /\ call' = [call EXCEPT !.level = @ - 1, !.table = Here.addr]
            /\ UNCHANGED broken
    /\ UNCHANGED <<clear, total_pages, used_pages, holders, shared, result, tables, next_virt_addr>>

\* mutated: the new table is not cleared
NewTable_NotCleared(level) == Table(level, [i \in Slots |-> Refer(p4_table)])

NewTable(level) == Table(level, [i \in Slots |-> Absent])

\* Not present: take a frame, clear it through its pointer, enter it.  The
\* result of pmm_alloc_page is not looked at, and the pointer is in the boot
\* mapping only for the first gigabyte.
Extend ==
    /\ Walking /\ call.level > 1 /\ ~Here.present
    /\ pmm_alloc_page
    /\ LET new == VIRT_TO_PHYS(result') IN
       CASE result' = NULL -> broken' = "no memory" /\ UNCHANGED <<tables, call>>
         [] result' # NULL /\ new >= Reach ->
               broken' = "unmapped" /\ UNCHANGED <<tables, call>>
         [] OTHER ->
               /\ tables' = [f \in DOMAIN tables \cup {new} |->
                                IF f = new THEN NewTable(call.level - 1)
                                ELSE IF f = call.table
                                     THEN [tables[f] EXCEPT !.slot[Slot] = Refer(new)]
                                     ELSE tables[f]]
               /\ call' = [call EXCEPT !.level = @ - 1, !.table = new]
               /\ UNCHANGED broken
    /\ UNCHANGED next_virt_addr

\* mutated: the flags are not those that were asked for
Leaf_AlwaysPresent(c) == Refer(c.phys)

Leaf(c) == [present |-> c.present, huge |-> FALSE, addr |-> c.phys]

\* Level 1: the entry itself, whatever was there; on to the next page.
SetEntry ==
    /\ Walking /\ call.level = 1
    /\ tables' = [tables EXCEPT ![call.table].slot[Slot] = Leaf(call)]
    /\ call' = [call EXCEPT !.virt = (@ + 1) % WordFrames, !.phys = @ + 1, !.left = @ - 1,
                            !.level = 4, !.table = p4_table]
    /\ UNCHANGED <<clear, total_pages, used_pages, holders, shared, result, next_virt_addr, broken>>

Return ==
    /\ call.level > 0 /\ call.left = 0
    /\ call' = Idle
    /\ next_virt_addr' = (next_virt_addr + call.grow) % WordFrames
    /\ UNCHANGED <<clear, total_pages, used_pages, holders, shared, result, tables, broken>>

Next ==
    \/ \E r \in Requests : vmm_map_range(r)
    \/ \E c \in Counts : vmm_alloc(c)
    \/ OtherAlloc \/ Follow \/ Extend \/ SetEntry \/ Return

Spec == Init /\ [][Next]_allVars

-----------------------------------------------------------------------------
(* The walks of vmm_get_phys, over a set of tables tb.                       *)

EntryOf(tb, table, virt, level) == tb[table].slot[Index(virt, level)]
pml4e(tb, virt) == EntryOf(tb, p4_table, virt, 4)
pdpte(tb, virt) == EntryOf(tb, pml4e(tb, virt).addr, virt, 3)
pde(tb, virt) == EntryOf(tb, pdpte(tb, virt).addr, virt, 2)
pte(tb, virt) == EntryOf(tb, pde(tb, virt).addr, virt, 1)

\* 0 where there is no translation.
Translate(tb, virt) ==
    IF ~pml4e(tb, virt).present \/ ~pdpte(tb, virt).present THEN 0
    ELSE IF pdpte(tb, virt).huge THEN pdpte(tb, virt).addr + (virt % (Entries * Entries))
    ELSE IF ~pde(tb, virt).present THEN 0
    ELSE IF pde(tb, virt).huge THEN pde(tb, virt).addr + (virt % Entries)
    ELSE IF pte(tb, virt).present THEN pte(tb, virt).addr ELSE 0

vmm_get_phys(virt) == Translate(tables, virt)

\* The pages of the boot mapping, and the pages that share a translation
\* because two slots of the PML4 refer to p3_table.
BootMapped == {v \in Pages : Index(v, 4) \in {0, Entries - 1} /\ Index(v, 3) \in {0, Entries - 2}}
SharePdpt(v, w) == {Index(v, 4), Index(w, 4)} \subseteq {0, Entries - 1}
Shares(v, w) ==
    /\ Index(v, 4) = Index(w, 4) \/ SharePdpt(v, w)
    /\ \A k \in 1..3 : Index(v, k) = Index(w, k)

Space == INSTANCE AddressSpace WITH
    Pages <- Watched, Fixed <- BootMapped,
    BootSpace <- [v \in Watched |-> 
                    IF v \in BootMapped THEN Index(v, 2) * Entries + Index(v, 1) ELSE 0],
    space <- [v \in Watched |-> vmm_get_phys(v)],
    page <- call.virt, frame <- IF call.present THEN call.phys ELSE 0

\* The slots, as <<table, index>>, of the tables tb that refer to another one.
Leads(e) == e.present /\ ~e.huge
Target(tb, r) == tb[r[1]].slot[r[2]].addr
References(tb) ==
    {r \in (DOMAIN tb) \X Slots : tb[r[1]].level > 1 /\ Leads(tb[r[1]].slot[r[2]])}

Tree(tb) ==
    /\ \A t \in DOMAIN tb : \A i \in Slots : tb[t].slot[i].huge <=> t = p2_table
    /\ \A r \in References(tb) :
          /\ Target(tb, r) \in DOMAIN tb
          /\ tb[Target(tb, r)].level = tb[r[1]].level - 1
          /\ Target(tb, r) \notin {p3_table, p2_table} =>
                \A s \in References(tb) : Target(tb, s) = Target(tb, r) => s = r

\* The tables form a tree apart from the two slots of the boot code: an entry
\* above the last level refers to a table of the next level or is one of the
\* huge pages of p2_table, and a table that paging_map made is entered once.
TablesAreTree == Tree(tables)

\* A frame that is a page table belongs to paging_map alone: it is marked used
\* and nobody else has been given it, whatever else is allocated, of whatever
\* size.  pmm_alloc_pages does hand out frames that are in use, but only above
\* the first free one, and tables are taken from the bottom.  That holds as
\* long as no frame is given back: no caller in the kernel does.
TablesAreOwned ==
    \A t \in DOMAIN tables \ {p4_table, p3_table, p2_table} :
        t \notin clear /\ holders[t] = 1

\* A walk leaves the tables only when the allocator has nothing left, or
\* nothing left in the first gigabyte, or when the page that was asked for is
\* one of the boot mapping.
BreakHasCause ==
    /\ broken = "no memory" => Allocatable = {}
    /\ broken = "unmapped" => \A f \in Allocatable : f >= Reach
    /\ broken = "huge page" => call.virt \in BootMapped

\* MEM.md: paging_map "Maps a single 4KB virtual page to a physical address."
\* A walk over several levels, with the tables it makes on the way, changes
\* the translation of the page that was asked for and of no other page, but for
\* its twin (Shares): two slots of the PML4 of boot.s refer to one table.
MapsOnePage == Space!Spec
=============================================================================
