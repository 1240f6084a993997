---------------------------- MODULE AddressSpace ----------------------------
(***************************************************************************)
(* What the page tables are for: a map from virtual pages to page frames   *)
(* in which one page at a time is given the frame that was asked for.      *)
(* Pages that share a translation (the boot code enters one table twice)   *)
(* move together; the pages of the kernel's own mapping never move.        *)
(***************************************************************************)
CONSTANTS
    Pages,      \* the virtual pages that are looked at
    Shares(_, _), \* two pages share their translation
    Fixed,      \* the pages of the boot mapping
    BootSpace   \* the mapping that the boot code leaves

VARIABLES
    space,          \* the frame of every page; 0: none
    page, frame     \* what is being asked for

Init == space = BootSpace

Map ==
    /\ page \notin Fixed
    /\ space' = [w \in Pages |-> IF Shares(page, w) THEN frame ELSE space[w]]

Spec == Init /\ [][Map]_space
=============================================================================
