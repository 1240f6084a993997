------------------------------ MODULE MCPaging ------------------------------
(* Model-checking instance of Paging: tables of five slots, so that 1 GB is *)
(* 25 frames and the address space has 625 pages.  The requests are for     *)
(* pages of an unused slot of the PML4 (in one table, and in two), of the   *)
(* area of vmm_alloc, of its alias in the lower half and of the boot        *)
(* mapping; a request without the present bit takes a mapping away.         *)
EXTENDS Paging

Page(i4, i3, i2, i1) == ((i4 * Entries + i3) * Entries + i2) * Entries + i1

Ask(virt, phys, pages, present) ==
    [virt |-> virt, phys |-> phys, pages |-> pages, present |-> present]

MCRequests == {
    Ask(Page(1, 0, 0, 4), 40, 2, TRUE),
    Ask(Page(4, 4, 0, 0), 50, 1, TRUE),
    Ask(Page(0, 4, 0, 0), 51, 1, FALSE),
    Ask(Page(4, 3, 1, 0), 60, 1, TRUE) }

MCFreeSets == {10..23, 9..12, 22..27}

MCWatched ==
    {Page(i, j, k, l) : i \in {0, 1, 4}, j \in {0, 3, 4}, k \in {0, 1}, l \in {0, 4}}
=============================================================================
