---------------------------- MODULE PagingProofs ----------------------------
(***************************************************************************)
(* Theorems about the page tables: module Paging, for every number of      *)
(* slots per table, every set of free frames and every request.            *)
(***************************************************************************)
EXTENDS Paging, TLAPS

\* What the theorems suppose of the machine: no RAM beyond the 2 GB of the
\* higher half.
SmallRam == Ram <= Half

-----------------------------------------------------------------------------
(* The inductive invariant.                                                 *)

EntrySet == [present : BOOLEAN, huge : BOOLEAN, addr : Nat]
TableSet == [level : 1..4, slot : [Slots -> EntrySet]]
CallSet == [virt : Pages, phys : Nat, left : Nat, grow : Nat, present : BOOLEAN,
            level : 0..4, table : Nat]

FramesOK ==
    /\ total_pages = Ram /\ clear \subseteq FloorFrame..(Ram - 1)
    /\ holders \in [Frames -> Nat] /\ result \in Nat
    /\ \A f \in clear : holders[f] = 0

TablesOK ==
    /\ tables \in [DOMAIN tables -> TableSet] /\ DOMAIN tables \subseteq Nat
    /\ DOMAIN tables \ {p4_table, p3_table, p2_table} \subseteq Frames
    /\ call \in CallSet /\ next_virt_addr \in Pages
    /\ broken \in {"no", "no memory", "unmapped", "huge page"}
    /\ broken # "no" => call.left > 0

\* The tables of the boot code keep their places.
BootKept(tb) ==
    /\ {p4_table, p3_table, p2_table} \subseteq DOMAIN tb
    /\ \A t \in DOMAIN tb : tb[t].level = 4 <=> t = p4_table
    /\ tb[p3_table].level = 3 /\ tb[p2_table].level = 2
    /\ \A i \in Slots : tb[p2_table].slot[i] = HugePage(i * Entries)
    /\ \A i \in {0, Entries - 1} : tb[p4_table].slot[i] = Refer(p3_table)
    /\ \A i \in {0, Entries - 2} : tb[p3_table].slot[i] = Refer(p2_table)
    /\ \A r \in References(tb) :
          /\ Target(tb, r) = p3_table => r[1] = p4_table /\ r[2] \in {0, Entries - 1}
          /\ Target(tb, r) = p2_table => r[1] = p3_table /\ r[2] \in {0, Entries - 2}

\* The walk of page v has come to table t of a level.
At(tb, v, level, t) ==
    /\ level > 0 => t \in DOMAIN tb /\ tb[t].level = level
    /\ level \in 1..3 => Leads(pml4e(tb, v))
    /\ level = 3 => t = pml4e(tb, v).addr
    /\ level \in 1..2 => Leads(pdpte(tb, v))
    /\ level = 2 => t = pdpte(tb, v).addr
    /\ level = 1 => Leads(pde(tb, v)) /\ t = pde(tb, v).addr

\* The call in progress has followed the entries of its page.
OnPath(tb, c) == At(tb, c.virt, c.level, c.table)

\* Frames are taken from the bottom and never given back, so a table lies below
\* every frame that is still free.
BelowClear(f) == \A g \in clear : f < g
TablesBelow == \A t \in DOMAIN tables \ {p4_table, p3_table, p2_table} : BelowClear(t)

IInv ==
    /\ FramesOK /\ TablesOK /\ TablesBelow
    /\ TablesAreTree /\ BootKept(tables) /\ OnPath(tables, call)
    /\ TablesAreOwned /\ BreakHasCause

-----------------------------------------------------------------------------
(* Walks over well-formed tables.                                           *)

Good(tb) ==
    /\ tb \in [DOMAIN tb -> TableSet] /\ DOMAIN tb \subseteq Nat
    /\ Tree(tb) /\ BootKept(tb)

LEMMA SlotFacts ==
    /\ Entries \in Nat /\ Entries > 2
    /\ 0 \in Slots /\ Entries - 1 \in Slots /\ Entries - 2 \in Slots
    /\ Slots \subseteq Nat
BY EntriesFew DEF Slots

LEMMA EntryFields ==
    /\ \A x : HugePage(x).present /\ HugePage(x).huge /\ HugePage(x).addr = x
    /\ \A x : Refer(x).present /\ ~Refer(x).huge /\ Refer(x).addr = x
    /\ ~Absent.present /\ ~Absent.huge
BY DEF HugePage, Refer, Absent

LEMMA ModFacts ==
    ASSUME NEW n \in Nat, NEW m \in Nat, m > 0
    PROVE  n % m \in 0..(m - 1) /\ n \div m \in Nat
OBVIOUS

\* An index is a slot.
LEMMA IndexIsSlot ==
    ASSUME NEW v \in Pages, NEW k \in 1..4
    PROVE  Index(v, k) \in Slots
<1>1. v \in Nat /\ Entries \in Nat /\ Entries > 0
  BY EntriesFew, WordWide DEF Pages
<1>2. /\ Entries * Entries \in Nat /\ Entries * Entries > 0
      /\ Entries * Entries * Entries \in Nat /\ Entries * Entries * Entries > 0
  <2>1. ASSUME NEW x \in Nat, x > 0 PROVE x * Entries \in Nat /\ x * Entries > 0
    BY <1>1, <2>1
  <2> QED
    BY <1>1, <2>1
<1>3. CASE k = 4
  BY <1>1, <1>2, <1>3, ModFacts, Zenon DEF Index, Slots
<1>4. CASE k = 3
  BY <1>1, <1>2, <1>4, ModFacts, Zenon DEF Index, Slots
<1>5. CASE k = 2
  BY <1>1, <1>2, <1>5, ModFacts, Zenon DEF Index, Slots
<1>6. CASE k = 1
  BY <1>1, <1>6, ModFacts DEF Index, Slots
<1> QED
  BY <1>3, <1>4, <1>5, <1>6

\* An entry that leads anywhere leads to a table one level down.
LEMMA LeadsDown ==
    ASSUME NEW tb, Good(tb)
    PROVE  \A t \in DOMAIN tb : \A i \in Slots :
              tb[t].level > 1 /\ Leads(tb[t].slot[i]) =>
                 /\ tb[t].slot[i].addr \in DOMAIN tb
                 /\ tb[tb[t].slot[i].addr].level = tb[t].level - 1
                 /\ <<t, i>> \in References(tb)
<1> SUFFICES ASSUME NEW t \in DOMAIN tb, NEW i \in Slots,
                    tb[t].level > 1, Leads(tb[t].slot[i])
             PROVE  /\ tb[t].slot[i].addr \in DOMAIN tb
                    /\ tb[tb[t].slot[i].addr].level = tb[t].level - 1
                    /\ <<t, i>> \in References(tb)
  OBVIOUS
<1>1. <<t, i>> \in References(tb) /\ Target(tb, <<t, i>>) = tb[t].slot[i].addr
  BY DEF References, Target
<1> QED
  BY <1>1 DEF Good, Tree

\* The tables that the walk of a page goes through.
LEMMA WalkFacts ==
    ASSUME NEW tb, Good(tb), NEW v \in Pages
    PROVE  /\ tb[p4_table].level = 4 /\ p4_table \in DOMAIN tb
           /\ ~pml4e(tb, v).huge
           /\ Leads(pml4e(tb, v)) =>
                 /\ pml4e(tb, v).addr \in DOMAIN tb /\ tb[pml4e(tb, v).addr].level = 3
                 /\ ~pdpte(tb, v).huge
                 /\ Leads(pdpte(tb, v)) =>
                       /\ pdpte(tb, v).addr \in DOMAIN tb /\ tb[pdpte(tb, v).addr].level = 2
                       /\ Leads(pde(tb, v)) =>
                             pde(tb, v).addr \in DOMAIN tb /\ tb[pde(tb, v).addr].level = 1
<1>0. \A k \in 1..4 : Index(v, k) \in Slots
  BY IndexIsSlot
<1>1. tb[p4_table].level = 4 /\ p4_table \in DOMAIN tb /\ tb[p2_table].level = 2
  BY DEF Good, BootKept
<1>d. \A t \in DOMAIN tb : \A i \in Slots :
         tb[t].level > 1 /\ Leads(tb[t].slot[i]) =>
            /\ tb[t].slot[i].addr \in DOMAIN tb
            /\ tb[tb[t].slot[i].addr].level = tb[t].level - 1
  BY LeadsDown, Zenon
<1>2. ~pml4e(tb, v).huge
  BY <1>0, <1>1 DEF pml4e, EntryOf, Good, Tree
<1>3. ASSUME Leads(pml4e(tb, v))
      PROVE  /\ pml4e(tb, v).addr \in DOMAIN tb /\ tb[pml4e(tb, v).addr].level = 3
             /\ ~pdpte(tb, v).huge
  <2>0. pml4e(tb, v) = tb[p4_table].slot[Index(v, 4)] /\ tb[p4_table].level = 4 /\ p4_table \in DOMAIN tb
    BY <1>1 DEF pml4e, EntryOf
  <2>1. pml4e(tb, v).addr \in DOMAIN tb /\ tb[pml4e(tb, v).addr].level = 4 - 1
    BY <1>0, <1>3, <2>0, <1>d
  <2>2. pml4e(tb, v).addr # p2_table
    BY <1>1, <2>1
  <2> QED
    BY <1>0, <2>1, <2>2 DEF pdpte, EntryOf, Good, Tree
<1>4. ASSUME Leads(pml4e(tb, v)), Leads(pdpte(tb, v))
      PROVE  pdpte(tb, v).addr \in DOMAIN tb /\ tb[pdpte(tb, v).addr].level = 2
  <2>0. pdpte(tb, v) = tb[pml4e(tb, v).addr].slot[Index(v, 3)] /\ tb[pml4e(tb, v).addr].level = 3 /\ pml4e(tb, v).addr \in DOMAIN tb
    BY <1>3, <1>4 DEF pdpte, EntryOf
  <2>1. pdpte(tb, v).addr \in DOMAIN tb /\ tb[pdpte(tb, v).addr].level = 3 - 1
    BY <1>0, <1>4, <2>0, <1>d
  <2> QED
    BY <2>1
<1>5. ASSUME Leads(pml4e(tb, v)), Leads(pdpte(tb, v)), Leads(pde(tb, v))
      PROVE  pde(tb, v).addr \in DOMAIN tb /\ tb[pde(tb, v).addr].level = 1
  <2>0. pde(tb, v) = tb[pdpte(tb, v).addr].slot[Index(v, 2)] /\ tb[pdpte(tb, v).addr].level = 2 /\ pdpte(tb, v).addr \in DOMAIN tb
    BY <1>4, <1>5 DEF pde, EntryOf
  <2>1. pde(tb, v).addr \in DOMAIN tb /\ tb[pde(tb, v).addr].level = 2 - 1
    BY <1>0, <1>5, <2>0, <1>d
  <2> QED
    BY <2>1
<1> QED
  BY <1>1, <1>2, <1>3, <1>4, <1>5

\* What Extend does to the tables: the table n, empty, is entered in slot i of
\* table t, which held nothing.
Extended(A, B, t, i, n) ==
    /\ n \in Nat /\ n \notin DOMAIN A /\ DOMAIN B = DOMAIN A \cup {n}
    /\ t \in DOMAIN A /\ A[t].level > 1 /\ i \in Slots /\ ~A[t].slot[i].present
    /\ B \in [DOMAIN B -> TableSet]
    /\ B[n].level = A[t].level - 1 /\ \A j \in Slots : B[n].slot[j] = Absent
    /\ B[t].slot[i] = Refer(n)
    /\ \A u \in DOMAIN A :
          /\ B[u].level = A[u].level
          /\ \A j \in Slots : (u = t /\ j = i) \/ B[u].slot[j] = A[u].slot[j]

LEMMA ExtendedReferences ==
    ASSUME NEW A, NEW B, NEW t, NEW i, NEW n, Good(A), Extended(A, B, t, i, n)
    PROVE  /\ References(B) = References(A) \cup {<<t, i>>}
           /\ <<t, i>> \notin References(A)
           /\ Target(B, <<t, i>>) = n
           /\ \A r \in References(A) : Target(B, r) = Target(A, r) /\ r[1] \in DOMAIN A
<1>1. ASSUME NEW u \in DOMAIN B, NEW j \in Slots
      PROVE  <<u, j>> \in References(B) <=>
                <<u, j>> \in References(A) \/ (u = t /\ j = i)
  BY DEF Extended, References, Leads, Refer, Absent
<1>2. References(B) \subseteq (DOMAIN B) \X Slots
  BY DEF References
<1>3. References(A) \subseteq (DOMAIN B) \X Slots /\ <<t, i>> \in (DOMAIN B) \X Slots
  BY DEF References, Extended
<1>4. <<t, i>> \notin References(A)
  BY DEF References, Extended, Leads
<1>5. ASSUME NEW r \in References(A)
      PROVE  Target(B, r) = Target(A, r) /\ r[1] \in DOMAIN A
  <2>1. PICK u \in DOMAIN A, j \in Slots : r = <<u, j>>
    BY DEF References
  <2>2. ~(u = t /\ j = i)
    BY <1>4, <2>1
  <2> QED
    BY <2>1, <2>2 DEF Extended, Target
<1>6. Target(B, <<t, i>>) = n
  BY DEF Extended, Target, Refer
<1> QED
  BY <1>1, <1>2, <1>3, <1>4, <1>5, <1>6

LEMMA ExtendedGood ==
    ASSUME NEW A, NEW B, NEW t, NEW i, NEW n, Good(A), Extended(A, B, t, i, n)
    PROVE  Good(B)
<1>1. /\ References(B) = References(A) \cup {<<t, i>>}
      /\ <<t, i>> \notin References(A)
      /\ Target(B, <<t, i>>) = n
      /\ \A r \in References(A) : Target(B, r) = Target(A, r) /\ r[1] \in DOMAIN A
  BY ExtendedReferences, Zenon
<1>2. B \in [DOMAIN B -> TableSet] /\ DOMAIN B \subseteq Nat
  BY DEF Extended, Good
<1>3. {p4_table, p3_table, p2_table} \subseteq DOMAIN A /\ n \notin {p4_table, p3_table, p2_table}
  BY DEF Good, BootKept, Extended
<1>4. t # p2_table
  <2>1. i \in Slots /\ ~A[t].slot[i].present
    BY DEF Extended
  <2>2. \A j \in Slots : A[p2_table].slot[j].present
    BY EntryFields DEF Good, BootKept
  <2> QED
    BY <2>1, <2>2
<1>5. Tree(B)
  <2>1. ASSUME NEW u \in DOMAIN B, NEW j \in Slots
        PROVE  B[u].slot[j].huge <=> u = p2_table
    <3>1. CASE u = n
      BY <1>3, <3>1 DEF Extended, Absent
    <3>2. CASE u = t /\ j = i
      BY <1>4, <3>2 DEF Extended, Refer
    <3>3. CASE u # n /\ ~(u = t /\ j = i)
      BY <3>3 DEF Extended, Good, Tree
    <3> QED
      BY <3>1, <3>2, <3>3
  <2>2. ASSUME NEW r \in References(A)
        PROVE  /\ Target(B, r) \in DOMAIN A
               /\ B[Target(B, r)].level = B[r[1]].level - 1
    <3>1. Target(A, r) \in DOMAIN A /\ A[Target(A, r)].level = A[r[1]].level - 1
      BY DEF Good, Tree
    <3> QED
      BY <1>1, <3>1 DEF Extended
  <2>3. n \in DOMAIN B /\ B[n].level = B[t].level - 1
    BY DEF Extended
  <2>4. ASSUME NEW r \in References(B), NEW s \in References(B),
               Target(B, r) \notin {p3_table, p2_table}, Target(B, s) = Target(B, r)
        PROVE  s = r
    <3>1. CASE r \in References(A) /\ s \in References(A)
      BY <1>1, <2>4, <3>1 DEF Good, Tree
    <3>2. CASE r = <<t, i>> /\ s \in References(A)
      BY <1>1, <2>2, <2>4, <3>2 DEF Extended
    <3>3. CASE s = <<t, i>> /\ r \in References(A)
      BY <1>1, <2>2, <2>4, <3>3 DEF Extended
    <3> QED
      BY <1>1, <3>1, <3>2, <3>3
  <2>5. DOMAIN A \subseteq DOMAIN B
    BY DEF Extended
  <2> QED
    BY <1>1, <2>1, <2>2, <2>3, <2>4, <2>5 DEF Tree
<1>6. BootKept(B)
  <2>1. \A u \in DOMAIN B : B[u].level = 4 <=> u = p4_table
    <3>1. A[t].level \in 1..4
      BY DEF Good, Extended, TableSet
    <3>2. B[n].level # 4
      BY <3>1 DEF Extended
    <3> QED
      BY <1>3, <3>2, ZenonT(30) DEF Good, BootKept, Extended
  <2>2. \A j \in Slots : B[p2_table].slot[j] = HugePage(j * Entries)
    BY <1>3, <1>4 DEF Good, BootKept, Extended
  <2>3. \A j \in {0, Entries - 1} : B[p4_table].slot[j] = Refer(p3_table)
    BY <1>3, SlotFacts DEF Good, BootKept, Extended, Refer
  <2>4. \A j \in {0, Entries - 2} : B[p3_table].slot[j] = Refer(p2_table)
    BY <1>3, SlotFacts DEF Good, BootKept, Extended, Refer
  <2>5. B[p3_table].level = 3 /\ B[p2_table].level = 2
    BY <1>3 DEF Good, BootKept, Extended
  <2>6. ASSUME NEW r \in References(B)
        PROVE  /\ Target(B, r) = p3_table => r[1] = p4_table /\ r[2] \in {0, Entries - 1}
               /\ Target(B, r) = p2_table => r[1] = p3_table /\ r[2] \in {0, Entries - 2}
    BY <1>1, <1>3 DEF Good, BootKept
  <2> QED
    BY <1>3, <2>1, <2>2, <2>3, <2>4, <2>5, <2>6 DEF BootKept, Extended
<1> QED
  BY <1>2, <1>5, <1>6 DEF Good

\* Entering an empty table changes no translation.
LEMMA ExtendedTranslate ==
    ASSUME NEW A, NEW B, NEW t, NEW i, NEW n, Good(A), Extended(A, B, t, i, n),
           NEW v \in Pages
    PROVE  Translate(B, v) = Translate(A, v)
<1>0. \A k \in 1..4 : Index(v, k) \in Slots
  BY IndexIsSlot
<1>w. /\ A[p4_table].level = 4 /\ p4_table \in DOMAIN A
      /\ ~pml4e(A, v).huge
      /\ Leads(pml4e(A, v)) =>
            /\ pml4e(A, v).addr \in DOMAIN A /\ A[pml4e(A, v).addr].level = 3
            /\ ~pdpte(A, v).huge
            /\ Leads(pdpte(A, v)) =>
                  /\ pdpte(A, v).addr \in DOMAIN A /\ A[pdpte(A, v).addr].level = 2
                  /\ Leads(pde(A, v)) =>
                        pde(A, v).addr \in DOMAIN A /\ A[pde(A, v).addr].level = 1
  BY WalkFacts
<1>h. t \in DOMAIN A /\ A[t].level > 1 /\ i \in Slots /\ ~A[t].slot[i].present
  BY DEF Extended
<1>n. \A k \in 1..4 : ~EntryOf(B, n, v, k).present
  BY <1>0, EntryFields DEF EntryOf, Extended
<1>s. \A u \in DOMAIN A, k \in 1..4 :
         \/ u = t /\ Index(v, k) = i
         \/ EntryOf(B, u, v, k) = EntryOf(A, u, v, k)
  BY <1>0 DEF EntryOf, Extended
<1>r. B[t].slot[i].present /\ ~B[t].slot[i].huge /\ B[t].slot[i].addr = n
  BY EntryFields DEF Extended
<1>1. CASE p4_table = t /\ Index(v, 4) = i
  <2>1. ~pml4e(A, v).present
    BY <1>1, <1>h DEF pml4e, EntryOf
  <2>2. pml4e(B, v).addr = n
    BY <1>1, <1>r DEF pml4e, EntryOf
  <2>3. ~pdpte(B, v).present
    BY <1>n, <2>2 DEF pdpte
  <2> QED
    BY <2>1, <2>3 DEF Translate
<1>2. CASE ~(p4_table = t /\ Index(v, 4) = i)
  <2>1. pml4e(B, v) = pml4e(A, v)
    BY <1>2, <1>s, <1>w DEF pml4e
  <2>2. CASE ~pml4e(A, v).present
    BY <2>1, <2>2 DEF Translate
  <2>3. CASE pml4e(A, v).present
    <3> DEFINE u3 == pml4e(A, v).addr
    <3>1. u3 \in DOMAIN A /\ A[u3].level = 3 /\ ~pdpte(A, v).huge
      BY <1>w, <2>3 DEF Leads
    <3>2. CASE u3 = t /\ Index(v, 3) = i
      <4>1. ~pdpte(A, v).present
        BY <1>h, <3>2 DEF pdpte, EntryOf
      <4>2. ~pdpte(B, v).huge /\ pdpte(B, v).addr = n
        BY <1>r, <2>1, <3>2 DEF pdpte, EntryOf
      <4>3. ~pde(B, v).present
        BY <1>n, <4>2 DEF pde
      <4> QED
        BY <4>1, <4>2, <4>3 DEF Translate
    <3>3. CASE ~(u3 = t /\ Index(v, 3) = i)
      <4>1. pdpte(B, v) = pdpte(A, v)
        BY <1>s, <2>1, <3>1, <3>3 DEF pdpte
      <4>2. CASE ~pdpte(A, v).present
        BY <4>1, <4>2 DEF Translate
      <4>3. CASE pdpte(A, v).present
        <5> DEFINE u2 == pdpte(A, v).addr
        <5>1. u2 \in DOMAIN A /\ A[u2].level = 2
          BY <1>w, <2>3, <4>3 DEF Leads
        <5>2. CASE u2 = t /\ Index(v, 2) = i
          <6>1. ~pde(A, v).present
            BY <1>h, <5>2 DEF pde, EntryOf
          <6>2. ~pde(B, v).huge /\ pde(B, v).addr = n
            BY <1>r, <4>1, <5>2 DEF pde, EntryOf
          <6>3. ~pte(B, v).present
            BY <1>n, <6>2 DEF pte
          <6> QED
            BY <2>1, <4>1, <3>1, <6>1, <6>2, <6>3 DEF Translate
        <5>3. CASE ~(u2 = t /\ Index(v, 2) = i)
          <6>1. pde(B, v) = pde(A, v)
            BY <1>s, <4>1, <5>1, <5>3 DEF pde
          <6>2. CASE Leads(pde(A, v))
            <7>1. pde(A, v).addr \in DOMAIN A /\ pde(A, v).addr # t
              BY <1>h, <1>w, <2>3, <4>3, <6>2 DEF Leads
            <7>2. pte(B, v) = pte(A, v)
              BY <1>s, <6>1, <7>1 DEF pte
            <7> QED
              BY <2>1, <4>1, <6>1, <7>2 DEF Translate
          <6>3. CASE ~Leads(pde(A, v))
            BY <2>1, <4>1, <6>1, <6>3 DEF Translate, Leads
          <6> QED
            BY <6>2, <6>3
        <5> QED
          BY <5>2, <5>3
      <4> QED
        BY <4>2, <4>3
    <3> QED
      BY <3>2, <3>3
  <2> QED
    BY <2>2, <2>3
<1> QED
  BY <1>1, <1>2

\* The walk of page v ends in the last-level table t.
Reaches(tb, v, t) ==
    Leads(pml4e(tb, v)) /\ Leads(pdpte(tb, v)) /\ Leads(pde(tb, v)) /\ pde(tb, v).addr = t

\* Two pages have their entries in the same slot exactly when they share their
\* translation, and no page of the boot mapping has an entry at all.
LEMMA SharedSlot ==
    ASSUME NEW A, Good(A), NEW v \in Pages, NEW w \in Pages, NEW t, Reaches(A, v, t)
    PROVE  /\ Reaches(A, w, t) /\ Index(v, 1) = Index(w, 1) <=> Shares(v, w)
           /\ v \notin BootMapped
<1> DEFINE u3(x) == pml4e(A, x).addr
           u2(x) == pdpte(A, x).addr
<1>0. \A x \in Pages : \A k \in 1..4 : Index(x, k) \in Slots
  BY IndexIsSlot
<1>k. /\ \A j \in Slots : A[p2_table].slot[j] = HugePage(j * Entries)
      /\ \A j \in {0, Entries - 1} : A[p4_table].slot[j] = Refer(p3_table)
      /\ \A j \in {0, Entries - 2} : A[p3_table].slot[j] = Refer(p2_table)
      /\ A[p3_table].level = 3 /\ A[p2_table].level = 2
  BY DEF Good, BootKept
<1>w. ASSUME NEW x \in Pages, Reaches(A, x, t)
      PROVE  /\ t \in DOMAIN A /\ A[t].level = 1
             /\ u2(x) \in DOMAIN A /\ A[u2(x)].level = 2 /\ u2(x) # p2_table
             /\ u3(x) \in DOMAIN A /\ A[u3(x)].level = 3
             /\ <<p4_table, Index(x, 4)>> \in References(A)
             /\ <<u3(x), Index(x, 3)>> \in References(A)
             /\ <<u2(x), Index(x, 2)>> \in References(A)
             /\ Target(A, <<p4_table, Index(x, 4)>>) = u3(x)
             /\ Target(A, <<u3(x), Index(x, 3)>>) = u2(x)
             /\ Target(A, <<u2(x), Index(x, 2)>>) = t
  <2>1. /\ Leads(pml4e(A, x)) /\ Leads(pdpte(A, x)) /\ Leads(pde(A, x)) /\ pde(A, x).addr = t
    BY <1>w DEF Reaches
  <2>2. /\ p4_table \in DOMAIN A /\ A[p4_table].level = 4
        /\ u3(x) \in DOMAIN A /\ A[u3(x)].level = 3
        /\ u2(x) \in DOMAIN A /\ A[u2(x)].level = 2
        /\ t \in DOMAIN A /\ A[t].level = 1
    BY <2>1, WalkFacts
  <2>3. /\ Index(x, 4) \in Slots /\ Index(x, 3) \in Slots /\ Index(x, 2) \in Slots
    BY <1>0
  <2>4. /\ <<p4_table, Index(x, 4)>> \in References(A)
        /\ Target(A, <<p4_table, Index(x, 4)>>) = u3(x)
    BY <2>1, <2>2, <2>3 DEF References, Target, pml4e, EntryOf
  <2>5. /\ <<u3(x), Index(x, 3)>> \in References(A)
        /\ Target(A, <<u3(x), Index(x, 3)>>) = u2(x)
    BY <2>1, <2>2, <2>3 DEF References, Target, pdpte, EntryOf
  <2>6. /\ <<u2(x), Index(x, 2)>> \in References(A)
        /\ Target(A, <<u2(x), Index(x, 2)>>) = t
    BY <2>1, <2>2, <2>3 DEF References, Target, pde, EntryOf
  <2>7. u2(x) # p2_table
    <3>1. A[u2(x)].slot[Index(x, 2)] = pde(A, x)
      BY DEF pde, EntryOf
    <3>2. ~A[u2(x)].slot[Index(x, 2)].huge
      BY <2>1, <3>1, Zenon DEF Leads
    <3> QED
      BY <2>2, <2>3, <3>2 DEF Good, Tree
  <2> QED
    BY <2>2, <2>4, <2>5, <2>6, <2>7
<1>u. \A r, s \in References(A) :
         Target(A, r) = Target(A, s) /\ Target(A, r) \notin {p3_table, p2_table} => r = s
  BY DEF Good, Tree
<1> HIDE DEF u3, u2
<1>1. ASSUME Reaches(A, w, t), Index(v, 1) = Index(w, 1)
      PROVE  Shares(v, w)
  <2>0. /\ t \notin {p3_table, p2_table} /\ u2(v) \notin {p3_table, p2_table}
        /\ u3(v) # p2_table
    <3>1. /\ A[t].level = 1 /\ A[u2(v)].level = 2 /\ u2(v) # p2_table /\ A[u3(v)].level = 3
      BY <1>w, Zenon
    <3> QED
      BY <1>k, <3>1
  <2>1. u2(v) = u2(w) /\ Index(v, 2) = Index(w, 2)
    <3>1. <<u2(v), Index(v, 2)>> = <<u2(w), Index(w, 2)>>
      <4>1. /\ <<u2(v), Index(v, 2)>> \in References(A) /\ Target(A, <<u2(v), Index(v, 2)>>) = t
            /\ <<u2(w), Index(w, 2)>> \in References(A) /\ Target(A, <<u2(w), Index(w, 2)>>) = t
        BY <1>1, <1>w, Zenon
      <4> QED
        BY <1>u, <2>0, <4>1
    <3> QED
      BY <3>1
  <2>2. u3(v) = u3(w) /\ Index(v, 3) = Index(w, 3)
    <3>1. <<u3(v), Index(v, 3)>> = <<u3(w), Index(w, 3)>>
      <4>1. /\ <<u3(v), Index(v, 3)>> \in References(A) /\ Target(A, <<u3(v), Index(v, 3)>>) = u2(v)
            /\ <<u3(w), Index(w, 3)>> \in References(A) /\ Target(A, <<u3(w), Index(w, 3)>>) = u2(w)
        BY <1>1, <1>w, Zenon
      <4> QED
        BY <1>u, <2>0, <2>1, <4>1
    <3> QED
      BY <3>1
  <2>3. Index(v, 4) = Index(w, 4) \/ SharePdpt(v, w)
    <3>1. CASE u3(v) = p3_table
      <4>1. Index(v, 4) \in {0, Entries - 1} /\ Index(w, 4) \in {0, Entries - 1}
        BY <1>1, <1>w, <2>2, <3>1, ZenonT(30) DEF Good, BootKept
      <4> QED
        BY <4>1 DEF SharePdpt
    <3>2. CASE u3(v) # p3_table
      <4>1. <<p4_table, Index(v, 4)>> = <<p4_table, Index(w, 4)>>
        BY <1>1, <1>w, <1>u, <2>0, <2>2, <3>2, ZenonT(30)
      <4> QED
        BY <4>1
    <3> QED
      BY <3>1, <3>2
  <2> QED
    BY <1>1, <2>1, <2>2, <2>3 DEF Shares
<1>2. ASSUME Shares(v, w)
      PROVE  Reaches(A, w, t) /\ Index(v, 1) = Index(w, 1)
  <2>1. pml4e(A, w) = pml4e(A, v)
    BY <1>2, <1>k DEF Shares, SharePdpt, pml4e, EntryOf
  <2>2. pdpte(A, w) = pdpte(A, v)
    BY <1>2, <2>1 DEF Shares, pdpte, EntryOf
  <2>3. pde(A, w) = pde(A, v)
    BY <1>2, <2>2 DEF Shares, pde, EntryOf
  <2> QED
    BY <1>2, <2>1, <2>2, <2>3 DEF Shares, Reaches
<1>3. v \notin BootMapped
  <2> SUFFICES ASSUME v \in BootMapped PROVE FALSE
    OBVIOUS
  <2>1. Index(v, 4) \in {0, Entries - 1} /\ Index(v, 3) \in {0, Entries - 2}
    BY DEF BootMapped
  <2>2. u3(v) = p3_table
    BY <1>k, <2>1, EntryFields DEF pml4e, EntryOf, u3
  <2>3. u2(v) = p2_table
    BY <1>k, <2>1, <2>2, EntryFields DEF pdpte, EntryOf, u3, u2
  <2> QED
    BY <1>w, <2>3, Zenon
<1> QED
  BY <1>1, <1>2, <1>3

\* What SetEntry does to the tables.
Written(A, B, t, i, e) ==
    /\ DOMAIN B = DOMAIN A /\ B \in [DOMAIN B -> TableSet]
    /\ t \in DOMAIN A /\ A[t].level = 1 /\ i \in Slots /\ ~e.huge
    /\ B[t].slot[i] = e
    /\ \A u \in DOMAIN A :
          /\ B[u].level = A[u].level
          /\ \A j \in Slots : (u = t /\ j = i) \/ B[u].slot[j] = A[u].slot[j]

LEMMA WrittenGood ==
    ASSUME NEW A, NEW B, NEW t, NEW i, NEW e, Good(A), Written(A, B, t, i, e)
    PROVE  Good(B)
<1>1. \A u \in DOMAIN A : A[u].level > 1 => \A j \in Slots : B[u].slot[j] = A[u].slot[j]
  BY DEF Written
<1>2. References(B) = References(A)
  <2>1. ASSUME NEW u \in DOMAIN A, NEW j \in Slots
        PROVE  <<u, j>> \in References(B) <=> <<u, j>> \in References(A)
    BY <1>1 DEF Written, References
  <2>2. References(B) \subseteq (DOMAIN A) \X Slots /\ References(A) \subseteq (DOMAIN A) \X Slots
    BY DEF Written, References
  <2> QED
    BY <2>1, <2>2
<1>3. ASSUME NEW r \in References(A)
      PROVE  Target(B, r) = Target(A, r) /\ r[1] \in DOMAIN A
  <2>1. PICK u \in DOMAIN A, j \in Slots : r = <<u, j>> /\ A[u].level > 1
    BY DEF References
  <2> QED
    BY <1>1, <2>1 DEF Target
<1>4. {p4_table, p3_table, p2_table} \subseteq DOMAIN A /\ t # p2_table /\ t # p3_table /\ t # p4_table
  BY DEF Good, BootKept, Written
<1>5. Tree(B)
  <2>1. ASSUME NEW u \in DOMAIN B, NEW j \in Slots
        PROVE  B[u].slot[j].huge <=> u = p2_table
    <3>1. CASE u = t /\ j = i
      BY <1>4, <3>1 DEF Written
    <3>2. CASE ~(u = t /\ j = i)
      BY <3>2 DEF Written, Good, Tree
    <3> QED
      BY <3>1, <3>2
  <2>2. ASSUME NEW r \in References(A)
        PROVE  /\ Target(B, r) \in DOMAIN B
               /\ B[Target(B, r)].level = B[r[1]].level - 1
               /\ Target(B, r) \notin {p3_table, p2_table} =>
                     \A s \in References(A) : Target(B, s) = Target(B, r) => s = r
    BY <1>3 DEF Written, Good, Tree
  <2> QED
    BY <1>2, <2>1, <2>2 DEF Tree
<1>6. BootKept(B)
  <2>1. /\ \A j \in Slots : B[p2_table].slot[j] = HugePage(j * Entries)
        /\ \A j \in {0, Entries - 1} : B[p4_table].slot[j] = Refer(p3_table)
        /\ \A j \in {0, Entries - 2} : B[p3_table].slot[j] = Refer(p2_table)
    BY <1>4, SlotFacts DEF Written, Good, BootKept
  <2>2. /\ \A u \in DOMAIN B : B[u].level = 4 <=> u = p4_table
        /\ B[p3_table].level = 3 /\ B[p2_table].level = 2
    BY <1>4 DEF Written, Good, BootKept
  <2> QED
    BY <1>2, <1>3, <1>4, <2>1, <2>2 DEF Written, Good, BootKept
<1>7. B \in [DOMAIN B -> TableSet] /\ DOMAIN B \subseteq Nat
  BY DEF Written, Good
<1> QED
  BY <1>5, <1>6, <1>7 DEF Good

\* The translation changes for the pages that have their entry there.
LEMMA WrittenTranslate ==
    ASSUME NEW A, NEW B, NEW t, NEW i, NEW e, Good(A), Written(A, B, t, i, e), NEW v \in Pages
    PROVE  Translate(B, v) = IF Reaches(A, v, t) /\ Index(v, 1) = i
                             THEN IF e.present THEN e.addr ELSE 0
                             ELSE Translate(A, v)
<1>0. \A k \in 1..4 : Index(v, k) \in Slots
  BY IndexIsSlot
<1>w. /\ A[p4_table].level = 4 /\ p4_table \in DOMAIN A
      /\ ~pml4e(A, v).huge
      /\ Leads(pml4e(A, v)) =>
            /\ pml4e(A, v).addr \in DOMAIN A /\ A[pml4e(A, v).addr].level = 3
            /\ ~pdpte(A, v).huge
            /\ Leads(pdpte(A, v)) =>
                  /\ pdpte(A, v).addr \in DOMAIN A /\ A[pdpte(A, v).addr].level = 2
                  /\ Leads(pde(A, v)) =>
                        pde(A, v).addr \in DOMAIN A /\ A[pde(A, v).addr].level = 1
  BY WalkFacts
<1>s. \A u \in DOMAIN A, k \in 1..4 :
         \/ u = t /\ Index(v, k) = i
         \/ EntryOf(B, u, v, k) = EntryOf(A, u, v, k)
  BY <1>0 DEF EntryOf, Written
<1>t. A[t].level = 1
  BY DEF Written
<1>1. pml4e(B, v) = pml4e(A, v)
  BY <1>s, <1>t, <1>w DEF pml4e
<1>2. CASE ~pml4e(A, v).present
  BY <1>1, <1>2 DEF Translate, Reaches, Leads
<1>3. CASE pml4e(A, v).present /\ ~pdpte(A, v).present
  <2>1. pdpte(B, v) = pdpte(A, v)
    BY <1>1, <1>3, <1>s, <1>t, <1>w DEF pdpte, Leads
  <2> QED
    BY <1>1, <1>3, <2>1, SMTT(30) DEF Translate, Reaches, Leads
<1>4. CASE pml4e(A, v).present /\ pdpte(A, v).present
  <2>0. Leads(pml4e(A, v)) /\ Leads(pdpte(A, v)) /\ ~pdpte(A, v).huge
    BY <1>4, <1>w DEF Leads
  <2>1. pdpte(B, v) = pdpte(A, v)
    BY <1>1, <2>0, <1>s, <1>t, <1>w DEF pdpte
  <2>2. pde(B, v) = pde(A, v)
    BY <2>0, <2>1, <1>s, <1>t, <1>w DEF pde
  <2>3. CASE ~Leads(pde(A, v))
    BY <1>1, <2>0, <2>1, <2>2, <2>3 DEF Translate, Reaches, Leads
  <2>4. CASE Leads(pde(A, v)) /\ pde(A, v).addr = t /\ Index(v, 1) = i
    <3>1. pte(B, v) = e
      BY <2>2, <2>4 DEF pte, EntryOf, Written
    <3>2. Reaches(A, v, t)
      BY <2>0, <2>4 DEF Reaches
    <3>3. pml4e(B, v).present /\ pdpte(B, v).present /\ ~pdpte(B, v).huge
          /\ pde(B, v).present /\ ~pde(B, v).huge
      BY <1>1, <1>4, <2>0, <2>1, <2>2, <2>4 DEF Leads
    <3> QED
      BY <2>4, <3>1, <3>2, <3>3 DEF Translate
  <2>5. CASE Leads(pde(A, v)) /\ ~(pde(A, v).addr = t /\ Index(v, 1) = i)
    <3>1. pte(B, v) = pte(A, v)
      BY <1>s, <1>w, <2>0, <2>2, <2>5 DEF pte
    <3>2. ~(Reaches(A, v, t) /\ Index(v, 1) = i)
      BY <2>5 DEF Reaches
    <3>3. Translate(B, v) = Translate(A, v)
      BY <1>1, <2>1, <2>2, <3>1 DEF Translate
    <3> QED
      BY <3>2, <3>3
  <2> QED
    BY <2>3, <2>4, <2>5
<1> QED
  BY <1>2, <1>3, <1>4

-----------------------------------------------------------------------------
(* The frame allocator below the tables.                                    *)

\* Below 2 GB the two conversions of addresses are inverse, and no frame has
\* the pointer NULL.
LEMMA PointerRound ==
    ASSUME NEW f \in Nat, f < Half
    PROVE  VIRT_TO_PHYS(PHYS_TO_VIRT(f)) = f /\ PHYS_TO_VIRT(f) # NULL /\ PHYS_TO_VIRT(f) \in Nat
<1> DEFINE p == f + WordFrames - Half
<1>1. p \in 1..(WordFrames - 1) /\ WordFrames \in Nat
  BY WordWide
<1>2. PHYS_TO_VIRT(f) = p
  BY <1>1 DEF PHYS_TO_VIRT
<1>3. (p + Half) % WordFrames = f
  <2>1. p + Half = WordFrames + f /\ f < WordFrames
    BY WordWide
  <2>2. (WordFrames + f) % WordFrames = f
    BY <1>1, <2>1
  <2> QED
    BY <2>1, <2>2
<1> HIDE DEF p
<1> QED
  BY <1>1, <1>2, <1>3 DEF VIRT_TO_PHYS, NULL

LEMMA FramesFacts ==
    ASSUME FramesOK
    PROVE  clear \subseteq Frames /\ Frames \subseteq Nat /\ Ram \in Nat /\ FloorFrame \in Nat
<1>1. Ram \in Nat /\ FloorFrame \in Nat
  BY BootTablesLow, FloorOnByte
<1>2. 0..(Ram - 1) \subseteq 0..(8 * ((Ram + 7) \div 8) - 1)
  BY <1>1
<1> QED
  BY <1>1, <1>2 DEF FramesOK, Frames, FramesOf, BitmapBytes

LEMMA AllocPage ==
    ASSUME SmallRam, FramesOK, pmm_alloc_page
    PROVE  /\ FramesOK' /\ Frames' = Frames
           /\ \/ Allocatable = {} /\ result' = NULL /\ clear' = clear /\ holders' = holders
              \/ \E f \in clear :
                    /\ f \in Nat /\ f >= FloorFrame /\ \A g \in Allocatable : f <= g
                    /\ clear' = clear \ {f} /\ holders' = [holders EXCEPT ![f] = 1]
                    /\ result' # NULL /\ VIRT_TO_PHYS(result') = f
<1>0. clear \subseteq Frames /\ Frames \subseteq Nat /\ Ram \in Nat /\ FloorFrame \in Nat
  BY FramesFacts
<1>1. total_pages' = total_pages /\ Frames' = Frames
  BY DEF pmm_alloc_page, Frames
<1>2. CASE Allocatable = {}
  <2>1. result' = NULL /\ clear' = clear /\ holders' = holders
    BY <1>2 DEF pmm_alloc_page, Refuse
  <2> QED
    BY <1>1, <1>2, <2>1 DEF FramesOK, NULL
<1>3. CASE Allocatable # {}
  <2>1. PICK f \in clear :
           /\ FirstFit(f) /\ clear' = clear \ {f}
           /\ holders' = [holders EXCEPT ![f] = @ + 1] /\ result' = PHYS_TO_VIRT(f)
    BY <1>3 DEF pmm_alloc_page, Take
  <2>2. f \in Nat /\ f >= FloorFrame /\ f < Half /\ \A g \in Allocatable : f <= g
    BY <1>0, <2>1, WordWide DEF FirstFit, Allocatable, FramesOK, SmallRam
  <2>3. VIRT_TO_PHYS(result') = f /\ result' # NULL /\ result' \in Nat
    BY <2>1, <2>2, PointerRound
  <2>4. holders' = [holders EXCEPT ![f] = 1]
    <3>1. holders[f] + 1 = 1
      BY DEF FramesOK
    <3> QED
      BY <2>1, <3>1, Zenon
  <2>5. FramesOK'
    BY <1>0, <1>1, <2>1, <2>3, <2>4 DEF FramesOK
  <2> QED
    BY <1>1, <2>1, <2>2, <2>3, <2>4, <2>5, Zenon
<1> QED
  BY <1>2, <1>3

\* A request for some pages finds the first frame of a byte free and takes
\* frames of that byte, free or not: none that lies below all free frames.
LEMMA AllocPages ==
    ASSUME FramesOK, NEW c \in Counts, pmm_alloc_pages(c)
    PROVE  /\ FramesOK' /\ Frames' = Frames /\ clear' \subseteq clear
           /\ \A f \in Frames : BelowClear(f) => holders'[f] = holders[f]
<1>0. clear \subseteq Frames /\ Frames \subseteq Nat /\ Ram \in Nat /\ FloorFrame \in Nat
  BY FramesFacts
<1>1. total_pages' = total_pages /\ Frames' = Frames
  BY DEF pmm_alloc_pages, Frames
<1>2. c \in Nat
  BY CountsNat
<1>b. bitmap_size \in Nat
  BY <1>0 DEF bitmap_size, BitmapBytes, FramesOK
<1>3. CASE Serving(c) = {}
  <2>1. result' = NULL /\ clear' = clear /\ holders' = holders
    BY <1>3 DEF pmm_alloc_pages, Refuse
  <2> QED
    BY <1>1, <2>1 DEF FramesOK, NULL
<1>4. CASE Serving(c) # {}
  <2>1. PICK i \in Serving(c) :
           /\ clear' = clear \ RunOf(i, c)
           /\ holders' = [f \in Frames |-> IF f \in RunOf(i, c) THEN holders[f] + 1 ELSE holders[f]]
           /\ result' = PHYS_TO_VIRT(8 * i + (8 - c))
    BY <1>4 DEF pmm_alloc_pages
  <2>2. i \in Nat /\ ByteServes(i, c)
    BY <1>b DEF Serving
  <2>3. PICK found \in 0..8 : Scans(i, c, found) /\ found >= c
    BY <2>2 DEF ByteServes
  <2>4. c <= 8
    BY <1>2, <2>3
  <2>5. ASSUME NEW f \in Frames, BelowClear(f) PROVE f \notin RunOf(i, c)
    <3> SUFFICES ASSUME NEW k \in 0..(c - 1), f = 8 * i + (8 - c) + k PROVE FALSE
      BY DEF RunOf
    <3>1. 0 \in 0..(found - 1)
      BY <1>2, <2>3
    <3>2. 8 * i + 0 \in clear
      BY <2>3, <3>1 DEF Scans
    <3>3. f < 8 * i + 0
      BY <2>5, <3>2 DEF BelowClear
    <3> QED
      BY <1>2, <2>2, <2>4, <3>3
  <2>6. result' \in Nat
    <3>1. 8 * i + (8 - c) + WordFrames - Half \in Nat /\ WordFrames \in Nat /\ WordFrames > 0
      BY <1>2, <2>2, <2>4, WordWide
    <3> QED
      BY <2>1, <3>1, ModFacts DEF PHYS_TO_VIRT
  <2>7. holders' \in [Frames -> Nat]
    BY <2>1 DEF FramesOK
  <2>8. FramesOK'
    BY <1>0, <1>1, <2>1, <2>6, <2>7, Zenon DEF FramesOK
  <2> QED
    BY <1>1, <2>1, <2>5, <2>8
<1> QED
  BY <1>3, <1>4

-----------------------------------------------------------------------------
(* The steps.                                                               *)

LEMMA BootTablesGood == Good(BootTables)
<1>1. /\ DOMAIN BootTables = {p4_table, p3_table, p2_table}
      /\ BootTables[p4_table].level = 4 /\ BootTables[p3_table].level = 3
      /\ BootTables[p2_table].level = 2
      /\ \A i \in Slots :
            /\ BootTables[p4_table].slot[i] =
                  IF i \in {0, Entries - 1} THEN Refer(p3_table) ELSE Absent
            /\ BootTables[p3_table].slot[i] =
                  IF i \in {0, Entries - 2} THEN Refer(p2_table) ELSE Absent
            /\ BootTables[p2_table].slot[i] = HugePage(i * Entries)
  BY DEF BootTables, p4_table, p3_table, p2_table, Table
<1>2. p4_table # p3_table /\ p4_table # p2_table /\ p3_table # p2_table
      /\ {p4_table, p3_table, p2_table} \subseteq Nat
  BY DEF p4_table, p3_table, p2_table
<1>3. BootTables \in [DOMAIN BootTables -> TableSet]
  <2>1. \A i \in Slots : i * Entries \in Nat
    BY SlotFacts
  <2>2. /\ \A x \in Nat : Refer(x) \in EntrySet /\ HugePage(x) \in EntrySet
        /\ Absent \in EntrySet
    BY DEF EntrySet, Refer, HugePage, Absent
  <2> DEFINE s4 == [i \in Slots |-> IF i \in {0, Entries - 1} THEN Refer(p3_table) ELSE Absent]
             s3 == [i \in Slots |-> IF i \in {0, Entries - 2} THEN Refer(p2_table) ELSE Absent]
             s2 == [i \in Slots |-> HugePage(i * Entries)]
  <2>3. /\ s4 \in [Slots -> EntrySet] /\ s3 \in [Slots -> EntrySet] /\ s2 \in [Slots -> EntrySet]
    BY <1>2, <2>1, <2>2
  <2>4. /\ BootTables[p4_table] = Table(4, s4) /\ BootTables[p3_table] = Table(3, s3)
        /\ BootTables[p2_table] = Table(2, s2)
    BY DEF BootTables, p4_table, p3_table, p2_table
  <2> HIDE DEF s4, s3, s2
  <2>5. \A t \in DOMAIN BootTables : BootTables[t] \in TableSet
    BY <1>1, <2>3, <2>4 DEF Table, TableSet
  <2>6. BootTables = [t \in DOMAIN BootTables |-> BootTables[t]]
    BY DEF BootTables
  <2> QED
    BY <2>5, <2>6
<1>4. \A r \in References(BootTables) :
         \/ r[1] = p4_table /\ r[2] \in {0, Entries - 1} /\ Target(BootTables, r) = p3_table
         \/ r[1] = p3_table /\ r[2] \in {0, Entries - 2} /\ Target(BootTables, r) = p2_table
  <2>1. ASSUME NEW t \in DOMAIN BootTables, NEW i \in Slots, Leads(BootTables[t].slot[i])
        PROVE  \/ t = p4_table /\ i \in {0, Entries - 1} /\ BootTables[t].slot[i].addr = p3_table
               \/ t = p3_table /\ i \in {0, Entries - 2} /\ BootTables[t].slot[i].addr = p2_table
    BY <1>1, <2>1, EntryFields DEF Leads
  <2> QED
    BY <2>1 DEF References, Target
<1>5. Tree(BootTables)
  <2>1. \A t \in DOMAIN BootTables : \A i \in Slots :
           BootTables[t].slot[i].huge <=> t = p2_table
    BY <1>1, <1>2, EntryFields
  <2> QED
    BY <1>1, <1>4, <2>1 DEF Tree
<1>6. BootKept(BootTables)
  BY <1>1, <1>2, <1>4, SlotFacts DEF BootKept
<1> QED
  BY <1>1, <1>2, <1>3, <1>5, <1>6 DEF Good

LEMMA PageFacts == 0 \in Pages /\ KernelBase + Reach \in Pages
<1>1. PICK r \in Nat : r = Entries * Entries /\ Half = 2 * r
  <2>1. Entries * Entries \in Nat
    BY EntriesFew
  <2>2. Half = 2 * Entries * Entries
    BY FourLevels
  <2>3. 2 * Entries * Entries = 2 * (Entries * Entries)
    BY EntriesFew
  <2> QED
    BY <2>1, <2>2, <2>3
<1> QED
  BY <1>1, WordWide DEF Pages, KernelBase, Reach

LEMMA IdleFacts ==
    Idle \in CallSet /\ Idle.level = 0 /\ Idle.left = 0
BY PageFacts DEF Idle, CallSet, p4_table

LEMMA InitIInv ==
    ASSUME Init PROVE IInv
<1>1. FramesOK
  <2>1. holders = [f \in Frames |-> 0] /\ total_pages = Ram /\ result = 0
        /\ clear \subseteq FloorFrame..(Ram - 1)
    BY FreeSetsAboveFloor DEF Init, NULL
  <2>2. clear \subseteq Frames
    BY <2>1, BootTablesLow, FloorOnByte DEF Frames, FramesOf, BitmapBytes
  <2> QED
    BY <2>1, <2>2 DEF FramesOK
<1>2. Good(tables) /\ DOMAIN tables = {p4_table, p3_table, p2_table}
  BY BootTablesGood DEF Init, BootTables
<1>3. TablesOK
  BY <1>2, IdleFacts, PageFacts DEF Init, TablesOK, Good
<1>4. OnPath(tables, call)
  BY IdleFacts DEF Init, OnPath, At
<1>5. TablesAreOwned /\ TablesBelow /\ BreakHasCause
  BY <1>2 DEF TablesAreOwned, TablesBelow, BreakHasCause, Init
<1> QED
  BY <1>1, <1>2, <1>3, <1>4, <1>5 DEF IInv, Good, TablesAreTree

LEMMA CallFields ==
    ASSUME NEW c \in CallSet
    PROVE  /\ c.virt \in Pages /\ c.phys \in Nat /\ c.left \in Nat /\ c.grow \in Nat
           /\ c.present \in BOOLEAN /\ c.level \in 0..4 /\ c.table \in Nat
BY DEF CallSet

LEMMA LowerCall ==
    ASSUME NEW c \in CallSet, c.level > 1, NEW n \in Nat
    PROVE  [c EXCEPT !.level = @ - 1, !.table = n] \in CallSet
<1>1. c.level - 1 \in 0..4
  BY CallFields
<1> QED
  BY <1>1, Zenon DEF CallSet

\* What a call looks like when Begin has set it up.
LEMMA BeginFacts ==
    ASSUME NEW v \in Pages, NEW p \in Nat, NEW n \in Nat, NEW g \in Nat, NEW b \in BOOLEAN,
           Begin(v, p, n, g, b)
    PROVE  call' \in CallSet /\ call'.level = 4 /\ call'.table = p4_table
BY DEF Begin, CallSet, p4_table

LEMMA GoodTables ==
    ASSUME IInv PROVE Good(tables)
BY Zenon DEF IInv, Good, TablesOK, TablesAreTree

\* At the start of a page the walk is at the PML4.
LEMMA StartOnPath ==
    ASSUME NEW tb, BootKept(tb), NEW c, c.level = 4, c.table = p4_table
    PROVE  OnPath(tb, c)
BY DEF OnPath, At, BootKept

\* A step of the frame allocator between two calls.
LEMMA AllocIInv ==
    ASSUME IInv, broken = "no", FramesOK', Frames' = Frames, clear' \subseteq clear,
           \A f \in Frames : BelowClear(f) => holders'[f] = holders[f],
           UNCHANGED <<tables, next_virt_addr, broken>>,
           call' \in CallSet, OnPath(tables, call')
    PROVE  IInv'
<1>1. TablesOK'
  BY DEF IInv, TablesOK
<1>2. TablesAreOwned' /\ TablesBelow'
  BY DEF IInv, TablesOK, TablesAreOwned, TablesBelow, BelowClear
<1>3. BreakHasCause'
  BY DEF BreakHasCause
<1>4. TablesAreTree' /\ BootKept(tables') /\ OnPath(tables', call')
  BY DEF IInv, TablesAreTree
<1> QED
  BY <1>1, <1>2, <1>3, <1>4 DEF IInv

LEMMA MapRangeIInv ==
    ASSUME IInv, NEW r \in Requests, vmm_map_range(r) PROVE IInv'
<1>1. r.virt \in Pages /\ r.phys \in Nat /\ r.pages \in Nat /\ r.present \in BOOLEAN
  BY RequestsTyped DEF Pages
<1>2. /\ call' \in CallSet /\ call'.level = 4 /\ call'.table = p4_table
  BY <1>1, BeginFacts DEF vmm_map_range
<1>3. OnPath(tables, call')
  BY <1>2, StartOnPath DEF IInv
<1>4. /\ broken = "no" /\ UNCHANGED <<clear, total_pages, holders, result, tables, next_virt_addr, broken>>
  BY DEF vmm_map_range, Free
<1>5. FramesOK' /\ Frames' = Frames
  BY <1>4 DEF IInv, FramesOK, Frames
<1> QED
  BY <1>2, <1>3, <1>4, <1>5, AllocIInv

LEMMA VmmAllocIInv ==
    ASSUME IInv, NEW c \in Counts, vmm_alloc(c) PROVE IInv'
<1>1. /\ FramesOK' /\ Frames' = Frames /\ clear' \subseteq clear
      /\ \A f \in Frames : BelowClear(f) => holders'[f] = holders[f]
  BY AllocPages DEF IInv, vmm_alloc
<1>2. /\ broken = "no" /\ UNCHANGED <<tables, next_virt_addr, broken>>
  BY DEF vmm_alloc, Free
<1>3. call' \in CallSet /\ OnPath(tables, call')
  <2>1. CASE result' = NULL
    BY <2>1, Zenon DEF vmm_alloc, IInv, TablesOK
  <2>2. CASE result' # NULL
    <3>1. result' \in Nat /\ c \in Nat /\ next_virt_addr \in Pages
      BY <1>1, CountsNat, Zenon DEF FramesOK, IInv, TablesOK
    <3>2. call' \in CallSet /\ call'.level = 4 /\ call'.table = p4_table
      BY <2>2, <3>1, BeginFacts, Zenon DEF vmm_alloc
    <3> QED
      BY <3>2, StartOnPath DEF IInv
  <2> QED
    BY <2>1, <2>2
<1> QED
  BY <1>1, <1>2, <1>3, AllocIInv

LEMMA OtherAllocIInv ==
    ASSUME SmallRam, IInv, OtherAlloc PROVE IInv'
<1>1. /\ FramesOK' /\ Frames' = Frames /\ clear' \subseteq clear
      /\ \A f \in Frames : BelowClear(f) => holders'[f] = holders[f]
  BY AllocPage, FramesFacts DEF IInv, OtherAlloc, FramesOK, BelowClear
<1>2. /\ broken = "no" /\ UNCHANGED <<tables, next_virt_addr, broken, call>>
  BY DEF OtherAlloc, Free, pagingVars
<1>3. call' \in CallSet /\ OnPath(tables, call')
  BY <1>2 DEF IInv, TablesOK
<1> QED
  BY <1>1, <1>2, <1>3, AllocIInv

LEMMA ReturnIInv ==
    ASSUME IInv, Return PROVE IInv'
<1>1. /\ call' = Idle /\ UNCHANGED <<clear, total_pages, holders, result, tables, broken>>
      /\ call.left = 0 /\ ~(call.left > 0)
  BY DEF Return
<1>b. broken = "no"
  BY <1>1, Zenon DEF IInv, TablesOK
<1>2. next_virt_addr' \in Pages
  <2>1. call.grow \in Nat /\ next_virt_addr \in Nat /\ WordFrames \in Nat /\ WordFrames > 0
    <3>1. call \in CallSet /\ next_virt_addr \in Pages
      BY Zenon DEF IInv, TablesOK
    <3> QED
      BY <3>1, CallFields, WordWide DEF Pages
  <2>2. PICK n \in Nat : n = next_virt_addr + call.grow
    BY <2>1
  <2> QED
    BY <2>1, <2>2, ModFacts DEF Return, Pages
<1>3. FramesOK' /\ Frames' = Frames
  BY <1>1 DEF IInv, FramesOK, Frames
<1>4. TablesOK'
  BY <1>1, <1>b, <1>2, <1>3, IdleFacts DEF IInv, TablesOK
<1>5. OnPath(tables', call')
  BY <1>1, IdleFacts DEF OnPath, At
<1>6. TablesAreOwned' /\ BreakHasCause' /\ TablesAreTree' /\ BootKept(tables')
  BY <1>1, <1>b, SMTT(30) DEF IInv, TablesAreOwned, BreakHasCause, TablesAreTree
<1>7. TablesBelow'
  BY <1>1 DEF IInv, TablesBelow, BelowClear
<1> QED
  BY <1>3, <1>4, <1>5, <1>6, <1>7 DEF IInv

\* B differs from A at most in slot i of table t.
SameBut(A, B, t, i) ==
    \A u \in DOMAIN A : \A j \in Slots : (u = t /\ j = i) \/ B[u].slot[j] = A[u].slot[j]

LEMMA AtLevel ==
    ASSUME NEW tb, NEW v, NEW t
    PROVE  /\ At(tb, v, 4, t) <=> t \in DOMAIN tb /\ tb[t].level = 4
           /\ At(tb, v, 3, t) <=>
                 t \in DOMAIN tb /\ tb[t].level = 3 /\ Leads(pml4e(tb, v)) /\ t = pml4e(tb, v).addr
           /\ At(tb, v, 2, t) <=>
                 /\ t \in DOMAIN tb /\ tb[t].level = 2
                 /\ Leads(pml4e(tb, v)) /\ Leads(pdpte(tb, v)) /\ t = pdpte(tb, v).addr
           /\ At(tb, v, 1, t) <=>
                 /\ t \in DOMAIN tb /\ tb[t].level = 1 /\ Leads(pml4e(tb, v))
                 /\ Leads(pdpte(tb, v)) /\ Leads(pde(tb, v)) /\ t = pde(tb, v).addr
<1>1. At(tb, v, 4, t) <=> t \in DOMAIN tb /\ tb[t].level = 4
  BY SMTT(30) DEF At
<1>2. At(tb, v, 3, t) <=>
         t \in DOMAIN tb /\ tb[t].level = 3 /\ Leads(pml4e(tb, v)) /\ t = pml4e(tb, v).addr
  BY SMTT(30) DEF At
<1>3. At(tb, v, 2, t) <=>
         /\ t \in DOMAIN tb /\ tb[t].level = 2
         /\ Leads(pml4e(tb, v)) /\ Leads(pdpte(tb, v)) /\ t = pdpte(tb, v).addr
  BY SMTT(30) DEF At
<1>4. At(tb, v, 1, t) <=>
         /\ t \in DOMAIN tb /\ tb[t].level = 1 /\ Leads(pml4e(tb, v))
         /\ Leads(pdpte(tb, v)) /\ Leads(pde(tb, v)) /\ t = pde(tb, v).addr
  BY SMTT(30) DEF At
<1> QED
  BY <1>1, <1>2, <1>3, <1>4, Zenon

\* One level down along an entry of a table in which only that entry is new.
LEMMA Descend ==
    ASSUME NEW A, NEW B, Good(A), Good(B), NEW v \in Pages, NEW k \in 2..4, NEW t, NEW e,
           At(A, v, k, t), SameBut(A, B, t, Index(v, k)), e = B[t].slot[Index(v, k)], Leads(e)
    PROVE  At(B, v, k - 1, e.addr)
<1>2. \A n \in 1..4 : Index(v, n) \in Slots
  BY IndexIsSlot
<1>s. \A u \in DOMAIN A, n \in 1..4 : u # t => EntryOf(B, u, v, n) = EntryOf(A, u, v, n)
  BY <1>2, SMTT(30) DEF EntryOf, SameBut
<1>a. /\ p4_table \in DOMAIN A /\ A[p4_table].level = 4
      /\ \A u \in DOMAIN A : A[u].level = 4 => u = p4_table
      /\ Leads(pml4e(A, v)) => pml4e(A, v).addr \in DOMAIN A /\ A[pml4e(A, v).addr].level = 3
  BY WalkFacts, ZenonT(30) DEF Good, BootKept
<1>b. Leads(pml4e(B, v)) =>
         /\ pml4e(B, v).addr \in DOMAIN B /\ B[pml4e(B, v).addr].level = 3
         /\ Leads(pdpte(B, v)) =>
               /\ pdpte(B, v).addr \in DOMAIN B /\ B[pdpte(B, v).addr].level = 2
               /\ Leads(pde(B, v)) =>
                     pde(B, v).addr \in DOMAIN B /\ B[pde(B, v).addr].level = 1
  BY WalkFacts, ZenonT(30)
<1>3. CASE k = 4
  <2>1. t = p4_table
    BY <1>3, <1>a, AtLevel, ZenonT(30)
  <2>2. pml4e(B, v) = e
    BY <1>3, <2>1, SMTT(30) DEF pml4e, EntryOf
  <2>3. At(B, v, 3, e.addr)
    <3>1. e.addr \in DOMAIN B /\ B[e.addr].level = 3
      BY <1>b, <2>2, Zenon
    <3> QED
      BY <2>2, <3>1, SMTT(30) DEF At
  <2> QED
    BY <1>3, <2>3, SMTT(30)
<1>4. CASE k = 3
  <2>1. Leads(pml4e(A, v)) /\ t = pml4e(A, v).addr /\ t # p4_table
    <3>1. At(A, v, 3, t)
      BY <1>4, ZenonT(30)
    <3>2. A[t].level = 3 /\ Leads(pml4e(A, v)) /\ t = pml4e(A, v).addr
      BY <3>1, SMTT(30) DEF At
    <3> QED
      BY <1>a, <3>2
  <2>2. pml4e(B, v) = pml4e(A, v)
    BY <1>a, <1>s, <2>1 DEF pml4e
  <2>3. pdpte(B, v) = e
    BY <1>4, <2>1, <2>2, SMTT(30) DEF pdpte, EntryOf
  <2>4. At(B, v, 2, e.addr)
    <3>1. Leads(pml4e(B, v)) /\ Leads(pdpte(B, v)) /\ e.addr = pdpte(B, v).addr
      BY <2>1, <2>2, <2>3, Zenon
    <3>2. e.addr \in DOMAIN B /\ B[e.addr].level = 2
      BY <1>b, <3>1, Zenon
    <3> QED
      BY <3>1, <3>2, AtLevel, Zenon
  <2> QED
    BY <1>4, <2>4, SMTT(30)
<1>5. CASE k = 2
  <2>1. Leads(pml4e(A, v)) /\ Leads(pdpte(A, v)) /\ t = pdpte(A, v).addr /\ A[t].level = 2
    BY <1>5, AtLevel, ZenonT(30)
  <2>2. t # p4_table /\ t # pml4e(A, v).addr /\ pml4e(A, v).addr \in DOMAIN A
    BY <1>a, <2>1, SMTT(30)
  <2>3. pml4e(B, v) = pml4e(A, v)
    BY <1>a, <1>s, <2>2, SMTT(30) DEF pml4e
  <2>4. pdpte(B, v) = pdpte(A, v)
    BY <1>s, <2>2, <2>3, SMTT(30) DEF pdpte
  <2>5. pde(B, v) = e
    BY <1>5, <2>1, <2>4, SMTT(30) DEF pde, EntryOf
  <2>6. At(B, v, 1, e.addr)
    <3>1. /\ Leads(pml4e(B, v)) /\ Leads(pdpte(B, v)) /\ Leads(pde(B, v))
          /\ e.addr = pde(B, v).addr
      BY <2>1, <2>3, <2>4, <2>5, Zenon
    <3>2. e.addr \in DOMAIN B /\ B[e.addr].level = 1
      BY <1>b, <3>1, Zenon
    <3> QED
      BY <3>1, <3>2, AtLevel, Zenon
  <2> QED
    BY <1>5, <2>6, SMTT(30)
<1> QED
  <2>1. k = 2 \/ k = 3 \/ k = 4
    BY SMTT(30)
  <2> QED
    BY <1>3, <1>4, <1>5, <2>1, Zenon

\* A walk that meets a huge page is for a page of the boot mapping.
LEMMA HugeIsBoot ==
    ASSUME NEW A, Good(A), NEW v \in Pages, NEW k \in 2..4, NEW t, At(A, v, k, t),
           A[t].slot[Index(v, k)].huge
    PROVE  v \in BootMapped
<1>0. \A n \in 1..4 : Index(v, n) \in Slots
  BY IndexIsSlot, SMTT(30)
<1>1. t \in DOMAIN A /\ A[t].level = k
  BY AtLevel
<1>2. t = p2_table /\ k = 2
  BY <1>0, <1>1, SMTT(30) DEF Good, Tree, BootKept
<1>3. Leads(pml4e(A, v)) /\ Leads(pdpte(A, v)) /\ pdpte(A, v).addr = p2_table
  <2>1. At(A, v, 2, p2_table)
    BY <1>2, Zenon
  <2> QED
    BY <2>1, SMTT(30) DEF At
<1>4. /\ p4_table \in DOMAIN A /\ A[p4_table].level = 4
      /\ pml4e(A, v).addr \in DOMAIN A /\ A[pml4e(A, v).addr].level = 3
  BY <1>0, <1>3, WalkFacts, ZenonT(30)
<1>5. /\ <<pml4e(A, v).addr, Index(v, 3)>> \in References(A)
      /\ Target(A, <<pml4e(A, v).addr, Index(v, 3)>>) = p2_table
  BY <1>0, <1>3, <1>4 DEF References, Target, pdpte, EntryOf
<1>6. pml4e(A, v).addr = p3_table /\ Index(v, 3) \in {0, Entries - 2}
  BY <1>5, SMTT(30) DEF Good, BootKept
<1>7. /\ <<p4_table, Index(v, 4)>> \in References(A)
      /\ Target(A, <<p4_table, Index(v, 4)>>) = p3_table
  BY <1>0, <1>3, <1>4, <1>6 DEF References, Target, pml4e, EntryOf
<1>8. Index(v, 4) \in {0, Entries - 1}
  BY <1>7 DEF Good, BootKept
<1> QED
  BY <1>0, <1>6, <1>8, SMTT(20) DEF BootMapped

LEMMA FollowIInv ==
    ASSUME IInv, Follow PROVE IInv'
<1>0. Good(tables) /\ call \in CallSet /\ OnPath(tables, call) /\ call.left > 0 /\ call.level > 1
  BY GoodTables, Zenon DEF IInv, TablesOK, Follow, Walking
<1>p. /\ call.virt \in Pages /\ call.level \in 2..4
      /\ At(tables, call.virt, call.level, call.table)
  BY <1>0, CallFields DEF OnPath
<1>1. UNCHANGED <<clear, total_pages, holders, result, tables, next_virt_addr>>
  BY Zenon DEF Follow
<1>2. /\ FramesOK' /\ Frames' = Frames /\ TablesAreTree' /\ BootKept(tables') /\ TablesAreOwned'
      /\ TablesBelow'
  BY <1>1 DEF IInv, FramesOK, Frames, TablesAreTree, TablesAreOwned, TablesBelow, BelowClear
<1>3. CASE Here.huge
  <2>1. broken' = "huge page" /\ call' = call
    BY <1>3, Zenon DEF Follow
  <2>2. TablesOK' /\ OnPath(tables', call')
    BY <1>0, <1>1, <1>2, <2>1, ZenonT(30) DEF IInv, TablesOK
  <2>3. call.virt \in BootMapped
    BY <1>0, <1>p, <1>3, HugeIsBoot DEF Here, Slot
  <2>4. BreakHasCause'
    BY <2>1, <2>3, Zenon DEF BreakHasCause
  <2> QED
    BY <1>2, <2>2, <2>4 DEF IInv
<1>4. CASE ~Here.huge
  <2>1. broken' = broken /\ broken = "no" /\ call' = [call EXCEPT !.level = @ - 1, !.table = Here.addr]
    BY <1>4 DEF Follow, Walking
  <2>2. Leads(Here)
    BY <1>4 DEF Follow, Leads
  <2>3. /\ call'.virt = call.virt /\ call'.level = call.level - 1 /\ call'.table = Here.addr
    BY <1>0, <2>1 DEF CallSet
  <2>4. OnPath(tables, call')
    <3>1. Here = tables[call.table].slot[Index(call.virt, call.level)]
      BY DEF Here, Slot
    <3>2. SameBut(tables, tables, call.table, Index(call.virt, call.level))
      BY SMTT(30) DEF SameBut
    <3>3. At(tables, call.virt, call.level - 1, Here.addr)
      BY <1>0, <1>p, <2>2, <3>1, <3>2, Descend, Zenon
    <3> QED
      BY <2>3, <3>3 DEF OnPath
  <2>5. Here.addr \in Nat
    <3>1. call.table \in DOMAIN tables /\ Slot \in Slots
      BY <1>p, IndexIsSlot DEF At, Slot
    <3> QED
      BY <1>0, <3>1, SMTT(30) DEF Good, TableSet, EntrySet, Here
  <2>6. call' \in CallSet
    BY <1>0, <2>1, <2>5, LowerCall, Zenon
  <2>7. TablesOK' /\ OnPath(tables', call')
    BY <1>1, <1>2, <2>1, <2>4, <2>6 DEF IInv, TablesOK
  <2>8. BreakHasCause'
    BY <2>1 DEF BreakHasCause
  <2> QED
    BY <1>2, <2>7, <2>8 DEF IInv
<1> QED
  BY <1>3, <1>4

\* The table with one new entry, and the new table, are tables.
LEMMA ExtendedTables ==
    ASSUME NEW A, Good(A), NEW t \in DOMAIN A, A[t].level > 1, NEW i \in Slots,
           ~A[t].slot[i].present, NEW n \in Nat, n \notin DOMAIN A,
           NEW B, B = [f \in DOMAIN A \cup {n} |->
                          IF f = n THEN NewTable(A[t].level - 1)
                          ELSE IF f = t THEN [A[f] EXCEPT !.slot[i] = Refer(n)] ELSE A[f]]
    PROVE  Extended(A, B, t, i, n)
<1>1. A[t] \in TableSet /\ A[t].level \in 2..4 /\ A[t].slot \in [Slots -> EntrySet]
  BY DEF Good, TableSet
<1>2. Refer(n) \in EntrySet /\ Absent \in EntrySet
  BY DEF EntrySet, Refer, Absent
<1>3. [A[t] EXCEPT !.slot[i] = Refer(n)] \in TableSet
  BY <1>1, <1>2 DEF TableSet
<1>4. /\ NewTable(A[t].level - 1) \in TableSet
      /\ NewTable(A[t].level - 1).level = A[t].level - 1
      /\ \A j \in Slots : NewTable(A[t].level - 1).slot[j] = Absent
  <2>1. A[t].level - 1 \in 1..4
    BY <1>1
  <2> QED
    BY <1>2, <2>1 DEF NewTable, Table, TableSet
<1>5. /\ [A[t] EXCEPT !.slot[i] = Refer(n)].level = A[t].level
      /\ [A[t] EXCEPT !.slot[i] = Refer(n)].slot[i] = Refer(n)
      /\ \A j \in Slots : j # i => [A[t] EXCEPT !.slot[i] = Refer(n)].slot[j] = A[t].slot[j]
  BY <1>1 DEF TableSet
<1> DEFINE x == [A[t] EXCEPT !.slot[i] = Refer(n)]
           y == NewTable(A[t].level - 1)
<1>6. B = [f \in DOMAIN A \cup {n} |-> IF f = n THEN y ELSE IF f = t THEN x ELSE A[f]]
  OBVIOUS
<1> HIDE DEF x, y
<1>7. DOMAIN B = DOMAIN A \cup {n} /\ B \in [DOMAIN B -> TableSet]
  BY <1>3, <1>4, <1>6 DEF Good, x, y
<1>8. B[n] = y /\ B[t] = x /\ \A u \in DOMAIN A : u # t => B[u] = A[u]
  BY <1>6
<1> QED
  BY <1>4, <1>5, <1>7, <1>8 DEF Extended, x, y

LEMMA ExtendOutcome ==
    ASSUME SmallRam, IInv, Extend
    PROVE  /\ FramesOK' /\ Frames' = Frames /\ next_virt_addr' = next_virt_addr
           /\ \/ /\ tables' = tables /\ call' = call /\ broken' = "no memory"
                 /\ Allocatable = {} /\ clear' = clear /\ holders' = holders
              \/ \E n \in clear :
                    /\ n \in Nat /\ n >= FloorFrame /\ \A g \in Allocatable : n <= g
                    /\ clear' = clear \ {n} /\ holders' = [holders EXCEPT ![n] = 1]
                    /\ \/ n >= Reach /\ broken' = "unmapped" /\ tables' = tables /\ call' = call
                       \/ /\ broken' = broken
                          /\ call' = [call EXCEPT !.level = @ - 1, !.table = n]
                          /\ Extended(tables, tables', call.table, Slot, n)
<1>0. /\ Good(tables) /\ call \in CallSet /\ OnPath(tables, call) /\ call.level > 1 /\ ~Here.present
      /\ FramesOK /\ TablesAreOwned
  BY GoodTables, ZenonT(30) DEF IInv, TablesOK, Extend, Walking
<1>t. call.table \in DOMAIN tables /\ tables[call.table].level = call.level /\ Slot \in Slots
  BY <1>0, CallFields, IndexIsSlot DEF OnPath, At, Slot
<1>1. /\ FramesOK' /\ Frames' = Frames
      /\ \/ Allocatable = {} /\ result' = NULL /\ clear' = clear /\ holders' = holders
         \/ \E f \in clear :
               /\ f \in Nat /\ f >= FloorFrame /\ \A g \in Allocatable : f <= g
               /\ clear' = clear \ {f} /\ holders' = [holders EXCEPT ![f] = 1]
               /\ result' # NULL /\ VIRT_TO_PHYS(result') = f
  BY <1>0, AllocPage, Zenon DEF Extend
<1>2. next_virt_addr' = next_virt_addr
  BY Zenon DEF Extend
<1>3. CASE result' = NULL
  BY <1>1, <1>2, <1>3, Zenon DEF Extend
<1>4. CASE result' # NULL
  <2>1. PICK n \in clear :
           /\ n \in Nat /\ n >= FloorFrame /\ \A g \in Allocatable : n <= g
           /\ clear' = clear \ {n} /\ holders' = [holders EXCEPT ![n] = 1]
           /\ VIRT_TO_PHYS(result') = n
    BY <1>1, <1>4
  <2>2. n \notin DOMAIN tables
    <3>1. n \notin {p4_table, p3_table, p2_table}
      BY <2>1, BootTablesLow, FloorOnByte DEF p4_table, p3_table, p2_table
    <3> QED
      BY <1>0, <3>1 DEF TablesAreOwned
  <2>3. CASE n >= Reach
    <3>1. broken' = "unmapped" /\ tables' = tables /\ call' = call
      BY <1>4, <2>1, <2>3 DEF Extend
    <3> QED
      BY <1>1, <1>2, <2>1, <2>3, <3>1, Zenon
  <2>4. CASE ~(n >= Reach)
    <3>1. /\ tables' = [f \in DOMAIN tables \cup {n} |->
                          IF f = n THEN NewTable(call.level - 1)
                          ELSE IF f = call.table
                               THEN [tables[f] EXCEPT !.slot[Slot] = Refer(n)]
                               ELSE tables[f]]
          /\ call' = [call EXCEPT !.level = @ - 1, !.table = n] /\ broken' = broken
      BY <1>4, <2>1, <2>4 DEF Extend
    <3>2. ~tables[call.table].slot[Slot].present
      BY <1>0 DEF Here
    <3>3. Extended(tables, tables', call.table, Slot, n)
      <4> DEFINE B == tables'
      <4>1. B = [f \in DOMAIN tables \cup {n} |->
                    IF f = n THEN NewTable(tables[call.table].level - 1)
                    ELSE IF f = call.table
                         THEN [tables[f] EXCEPT !.slot[Slot] = Refer(n)]
                         ELSE tables[f]]
        BY <1>t, <3>1
      <4> HIDE DEF B
      <4>2. Extended(tables, B, call.table, Slot, n)
        BY <1>0, <1>t, <2>1, <2>2, <3>2, <4>1, ExtendedTables, Zenon
      <4> QED
        BY <4>2 DEF B
    <3> QED
      BY <1>1, <1>2, <2>1, <3>1, <3>3, Zenon
  <2> QED
    BY <2>3, <2>4, Zenon
<1> QED
  BY <1>3, <1>4, Zenon

LEMMA ExtendIInv ==
    ASSUME SmallRam, IInv, Extend PROVE IInv'
<1>0. /\ Good(tables) /\ call \in CallSet /\ OnPath(tables, call) /\ call.level > 1 /\ call.left > 0
      /\ broken = "no" /\ FramesOK /\ TablesAreOwned /\ TablesBelow /\ TablesOK
  BY GoodTables, Zenon DEF IInv, TablesOK, Extend, Walking
<1>1. /\ FramesOK' /\ Frames' = Frames /\ next_virt_addr' = next_virt_addr
      /\ \/ /\ tables' = tables /\ call' = call /\ broken' = "no memory"
            /\ Allocatable = {} /\ clear' = clear /\ holders' = holders
         \/ \E n \in clear :
               /\ n \in Nat /\ n >= FloorFrame /\ \A g \in Allocatable : n <= g
               /\ clear' = clear \ {n} /\ holders' = [holders EXCEPT ![n] = 1]
               /\ \/ n >= Reach /\ broken' = "unmapped" /\ tables' = tables /\ call' = call
                  \/ /\ broken' = broken
                     /\ call' = [call EXCEPT !.level = @ - 1, !.table = n]
                     /\ Extended(tables, tables', call.table, Slot, n)
  BY ExtendOutcome, Zenon
<1>f. clear \subseteq Frames /\ Frames \subseteq Nat /\ FloorFrame \in Nat
  BY <1>0, FramesFacts
<1>k. tables' = tables /\ call' = call => TablesAreTree' /\ BootKept(tables') /\ OnPath(tables', call')
  BY DEF IInv, TablesAreTree
<1>2. CASE tables' = tables /\ call' = call /\ broken' = "no memory"
           /\ Allocatable = {} /\ clear' = clear /\ holders' = holders
  <2>1. TablesOK' /\ TablesAreOwned' /\ TablesBelow'
    BY <1>0, <1>1, <1>2, Zenon DEF TablesOK, TablesAreOwned, TablesBelow, BelowClear
  <2>2. BreakHasCause'
    BY <1>2, Zenon DEF BreakHasCause, Allocatable
  <2> QED
    BY <1>1, <1>2, <1>k, <2>1, <2>2, Zenon DEF IInv
<1>3. ASSUME NEW n \in clear, n \in Nat, n >= FloorFrame, \A g \in Allocatable : n <= g,
             clear' = clear \ {n}, holders' = [holders EXCEPT ![n] = 1]
      PROVE  IInv'
  <2>n. n \in Frames /\ \A f \in Frames : holders'[f] = IF f = n THEN 1 ELSE holders[f]
    BY <1>3, <1>f, <1>0 DEF FramesOK
  <2>o. n \notin DOMAIN tables
    BY <1>0, <1>3, BootTablesLow, FloorOnByte DEF TablesAreOwned, p4_table, p3_table, p2_table
  <2>b. \A g \in clear' : n < g
    BY <1>0, <1>3, <1>f DEF FramesOK, Allocatable
  <2>1. CASE n >= Reach /\ broken' = "unmapped" /\ tables' = tables /\ call' = call
    <3>1. TablesOK'
      BY <1>0, <1>1, <2>1 DEF TablesOK
    <3>2. TablesAreOwned' /\ TablesBelow'
      BY <1>0, <1>3, <2>1, <2>n, <2>o DEF TablesOK, TablesAreOwned, TablesBelow, BelowClear
    <3>3. BreakHasCause'
      <4>1. \A f \in Allocatable' : f \in Allocatable /\ f \in Nat
        BY <1>3, <1>f DEF Allocatable
      <4>2. Reach \in Nat
        BY EntriesFew DEF Reach
      <4>3. \A f \in Allocatable' : f >= Reach
        BY <1>3, <2>1, <4>1, <4>2
      <4> QED
        BY <2>1, <4>3 DEF BreakHasCause, Reach
    <3> QED
      BY <1>1, <1>k, <2>1, <3>1, <3>2, <3>3, Zenon DEF IInv
  <2>2. CASE /\ broken' = broken
             /\ call' = [call EXCEPT !.level = @ - 1, !.table = n]
             /\ Extended(tables, tables', call.table, Slot, n)
    <3>1. Good(tables')
      BY <1>0, <2>2, ExtendedGood
    <3>2. DOMAIN tables' = DOMAIN tables \cup {n}
      BY <2>2 DEF Extended
    <3>3. call' \in CallSet
      BY <1>0, <1>3, <2>2, LowerCall, Zenon
    <3>4. OnPath(tables', call')
      <4> DEFINE B == tables'
      <4>1. call'.virt = call.virt /\ call'.level = call.level - 1 /\ call'.table = n
        BY <1>0, <2>2 DEF CallSet
      <4>2. /\ B[call.table].slot[Index(call.virt, call.level)] = Refer(n)
            /\ SameBut(tables, B, call.table, Index(call.virt, call.level)) /\ Good(B)
        BY <2>2, <3>1 DEF Extended, Slot, SameBut
      <4>3. /\ call.virt \in Pages /\ call.level \in 2..4
            /\ At(tables, call.virt, call.level, call.table)
        BY <1>0, CallFields DEF OnPath
      <4> HIDE DEF B
      <4>4. Leads(Refer(n)) /\ Refer(n).addr = n
        BY EntryFields, SMTT(30) DEF Leads
      <4>5. At(B, call.virt, call.level - 1, Refer(n).addr)
        BY <1>0, <4>2, <4>3, <4>4, Descend, ZenonT(30)
      <4> QED
        BY <4>1, <4>4, <4>5 DEF B, OnPath
    <3>5. TablesOK'
      BY <1>0, <1>1, <2>2, <2>n, <3>1, <3>2, <3>3, Zenon DEF TablesOK, Good
    <3>6. TablesAreOwned'
      BY <1>0, <1>3, <2>n, <3>2 DEF TablesOK, TablesAreOwned
    <3>8. TablesBelow'
      BY <1>0, <1>3, <2>b, <3>2 DEF TablesBelow, BelowClear
    <3>7. BreakHasCause'
      BY <1>0, <2>2 DEF BreakHasCause
    <3> QED
      BY <1>1, <3>1, <3>4, <3>5, <3>6, <3>7, <3>8, Zenon DEF IInv, Good, TablesAreTree
  <2> QED
    <3>1. \/ n >= Reach /\ broken' = "unmapped" /\ tables' = tables /\ call' = call
          \/ /\ broken' = broken
             /\ call' = [call EXCEPT !.level = @ - 1, !.table = n]
             /\ Extended(tables, tables', call.table, Slot, n)
      BY <1>1, <1>3, Zenon
    <3> QED
      BY <2>1, <2>2, <3>1
<1> QED
  BY <1>1, <1>2, <1>3, Zenon

\* What SetEntry writes.
LEMMA SetEntryWrites ==
    ASSUME IInv, SetEntry
    PROVE  /\ Written(tables, tables', call.table, Index(call.virt, 1), Leaf(call))
           /\ Reaches(tables, call.virt, call.table)
<1>0. Good(tables) /\ call \in CallSet /\ OnPath(tables, call) /\ call.level = 1
  BY GoodTables, ZenonT(30) DEF IInv, TablesOK, SetEntry
<1>1. call.table \in DOMAIN tables /\ tables[call.table].level = 1 /\ Index(call.virt, 1) \in Slots
  BY <1>0, CallFields, IndexIsSlot, SMTT(30) DEF OnPath, At
<1>2. Reaches(tables, call.virt, call.table)
  BY <1>0 DEF OnPath, At, Reaches
<1> DEFINE t == call.table
           i == Index(call.virt, 1)
           e == Leaf(call)
           x == [tables[t] EXCEPT !.slot[i] = e]
<1>3. e \in EntrySet /\ ~e.huge
  BY <1>0, CallFields DEF Leaf, EntrySet
<1>4. tables' = [tables EXCEPT ![t] = x]
  BY <1>0 DEF SetEntry, Slot
<1>5. tables \in [DOMAIN tables -> TableSet] /\ tables[t] \in TableSet
  BY <1>0, <1>1 DEF Good
<1> HIDE DEF e, i, t
<1>6. /\ x \in TableSet /\ x.level = tables[t].level /\ x.slot[i] = e
      /\ \A j \in Slots : j # i => x.slot[j] = tables[t].slot[j]
  BY <1>1, <1>3, <1>5, SMTT(30) DEF TableSet, i
<1> HIDE DEF x
<1>7. /\ DOMAIN tables' = DOMAIN tables /\ tables' \in [DOMAIN tables -> TableSet]
      /\ tables'[t] = x /\ \A u \in DOMAIN tables : u # t => tables'[u] = tables[u]
  BY <1>1, <1>4, <1>5, <1>6 DEF t
<1>8. Written(tables, tables', t, i, e)
  BY <1>1, <1>3, <1>6, <1>7 DEF Written, t, i
<1> QED
  BY <1>2, <1>8 DEF t, i, e

LEMMA SetEntryIInv ==
    ASSUME IInv, SetEntry PROVE IInv'
<1>0. /\ Good(tables) /\ call \in CallSet /\ call.left > 0 /\ broken = "no" /\ TablesOK
  BY GoodTables DEF IInv, TablesOK, SetEntry, Walking
<1>1. UNCHANGED <<clear, total_pages, holders, result, next_virt_addr, broken>>
  BY DEF SetEntry
<1>2. FramesOK' /\ Frames' = Frames
  BY <1>1 DEF IInv, FramesOK, Frames
<1>3. Written(tables, tables', call.table, Index(call.virt, 1), Leaf(call))
  BY SetEntryWrites
<1>4. Good(tables') /\ DOMAIN tables' = DOMAIN tables
  <2>1. PICK t, i, e : Written(tables, tables', t, i, e)
    BY <1>3
  <2>2. Good(tables')
    BY <1>0, <2>1, WrittenGood
  <2> QED
    BY <2>1, <2>2 DEF Written
<1>5. call' \in CallSet /\ call'.level = 4 /\ call'.table = p4_table
  <2>1. (call.virt + 1) % WordFrames \in Pages /\ call.phys + 1 \in Nat /\ call.left - 1 \in Nat
    <3>1. call.virt + 1 \in Nat /\ WordFrames \in Nat /\ WordFrames > 0
      BY <1>0, CallFields, WordWide DEF Pages
    <3>2. (call.virt + 1) % WordFrames \in Pages
      BY <3>1, ModFacts DEF Pages
    <3> QED
      BY <1>0, <3>2, CallFields
  <2> DEFINE a == (call.virt + 1) % WordFrames
             b == call.phys + 1
             c == call.left - 1
  <2>2. call' = [call EXCEPT !.virt = a, !.phys = b, !.left = c, !.level = 4, !.table = p4_table]
    BY DEF SetEntry
  <2>3. a \in Pages /\ b \in Nat /\ c \in Nat
    BY <2>1
  <2> HIDE DEF a, b, c
  <2>4. 4 \in 0..4 /\ p4_table \in Nat
    BY DEF p4_table
  <2>5. call \in [virt : Pages, phys : Nat, left : Nat, grow : Nat, present : BOOLEAN,
                 level : 0..4, table : Nat]
    BY <1>0 DEF CallSet
  <2>6. call' \in [virt : Pages, phys : Nat, left : Nat, grow : Nat, present : BOOLEAN,
                  level : 0..4, table : Nat]
    BY <2>2, <2>3, <2>4, <2>5, Zenon
  <2> QED
    BY <2>2, <2>5, <2>6 DEF CallSet
<1>6. OnPath(tables', call')
  BY <1>4, <1>5, StartOnPath DEF Good
<1>7. TablesOK'
  BY <1>0, <1>1, <1>2, <1>4, <1>5 DEF TablesOK, Good
<1>8. TablesAreOwned' /\ TablesBelow' /\ BreakHasCause'
  BY <1>0, <1>1, <1>4 DEF IInv, TablesAreOwned, TablesBelow, BelowClear, BreakHasCause
<1> QED
  BY <1>2, <1>4, <1>6, <1>7, <1>8 DEF IInv, Good, TablesAreTree

LEMMA StutterIInv ==
    ASSUME IInv, UNCHANGED allVars PROVE IInv'
<1>1. UNCHANGED <<clear, total_pages, holders, result, tables, call, next_virt_addr, broken>>
  BY DEF allVars
<1> QED
  BY <1>1, Zenon DEF IInv, FramesOK, TablesOK, TablesAreTree, TablesAreOwned, BreakHasCause,
              TablesBelow, BelowClear, Frames, Allocatable

LEMMA NextIInv ==
    ASSUME SmallRam, IInv, [Next]_allVars PROVE IInv'
<1>1. CASE \E r \in Requests : vmm_map_range(r)
  BY <1>1, MapRangeIInv
<1>2. CASE \E c \in Counts : vmm_alloc(c)
  BY <1>2, VmmAllocIInv
<1>3. CASE OtherAlloc
  BY <1>3, OtherAllocIInv
<1>4. CASE Follow
  BY <1>4, FollowIInv
<1>5. CASE Extend
  BY <1>5, ExtendIInv
<1>6. CASE SetEntry
  BY <1>6, SetEntryIInv
<1>7. CASE Return
  BY <1>7, ReturnIInv
<1>8. CASE UNCHANGED allVars
  BY <1>8, StutterIInv
<1> QED
  BY <1>1, <1>2, <1>3, <1>4, <1>5, <1>6, <1>7, <1>8 DEF Next

THEOREM PagingInvariant ==
    ASSUME SmallRam
    PROVE  Spec => []IInv
<1>1. Init => IInv
  BY InitIInv
<1>2. IInv /\ [Next]_allVars => IInv'
  BY NextIInv
<1> QED
  BY <1>1, <1>2, PTL DEF Spec

\* paging_map keeps the page tables a tree below the two boot slots, whatever
\* is mapped and unmapped: for every number of slots per table and every list
\* of requests.
THEOREM TablesStayTree ==
    ASSUME SmallRam
    PROVE  Spec => []TablesAreTree
<1>1. IInv => TablesAreTree
  BY DEF IInv
<1> QED
  BY <1>1, PagingInvariant, PTL

\* A frame that paging_map uses as a table is never handed to another client
\* of the frame allocator, whatever sizes are asked of it: although
\* pmm_alloc_pages hands out frames that are in use, those lie above a free one.
THEOREM TablesStayOwned ==
    ASSUME SmallRam
    PROVE  Spec => []TablesAreOwned
<1>1. IInv => TablesAreOwned
  BY DEF IInv
<1> QED
  BY <1>1, PagingInvariant, PTL

\* The walk of paging_map leaves the tables for no other reason than those of
\* BreakHasCause.
THEOREM WalkBreaksWithCause ==
    ASSUME SmallRam
    PROVE  Spec => []BreakHasCause
<1>1. IInv => BreakHasCause
  BY DEF IInv
<1> QED
  BY <1>1, PagingInvariant, PTL

-----------------------------------------------------------------------------
(* The tables implement AddressSpace.                                       *)

\* The boot tables translate the first gigabyte, at 0 and at
\* KERNEL_VIRT_OFFSET, and nothing else.
LEMMA BootTranslate ==
    ASSUME NEW v \in Pages
    PROVE  Translate(BootTables, v) =
              IF v \in BootMapped THEN Index(v, 2) * Entries + Index(v, 1) ELSE 0
<1>0. \A k \in 1..4 : Index(v, k) \in Slots
  BY IndexIsSlot
<1>1. \A i \in Slots :
         /\ BootTables[p4_table].slot[i] =
               IF i \in {0, Entries - 1} THEN Refer(p3_table) ELSE Absent
         /\ BootTables[p3_table].slot[i] =
               IF i \in {0, Entries - 2} THEN Refer(p2_table) ELSE Absent
         /\ BootTables[p2_table].slot[i] = HugePage(i * Entries)
  BY DEF BootTables, p4_table, p3_table, p2_table, Table
<1>2. pml4e(BootTables, v) = IF Index(v, 4) \in {0, Entries - 1} THEN Refer(p3_table) ELSE Absent
  BY <1>0, <1>1 DEF pml4e, EntryOf
<1>3. CASE Index(v, 4) \notin {0, Entries - 1}
  <2>1. ~pml4e(BootTables, v).present
    BY <1>2, <1>3, EntryFields
  <2> QED
    BY <1>3, <2>1 DEF Translate, BootMapped
<1>4. CASE Index(v, 4) \in {0, Entries - 1}
  <2>1. pml4e(BootTables, v).present /\ pml4e(BootTables, v).addr = p3_table
    BY <1>2, <1>4, EntryFields, SMTT(30)
  <2>2. pdpte(BootTables, v) =
           IF Index(v, 3) \in {0, Entries - 2} THEN Refer(p2_table) ELSE Absent
    BY <1>0, <1>1, <2>1 DEF pdpte, EntryOf
  <2>3. CASE Index(v, 3) \notin {0, Entries - 2}
    <3>1. ~pdpte(BootTables, v).present
      BY <2>2, <2>3, EntryFields, SMTT(30)
    <3> QED
      BY <2>3, <3>1 DEF Translate, BootMapped
  <2>4. CASE Index(v, 3) \in {0, Entries - 2}
    <3>1. /\ pdpte(BootTables, v).present /\ ~pdpte(BootTables, v).huge
          /\ pdpte(BootTables, v).addr = p2_table
      BY <2>2, <2>4, EntryFields, SMTT(30)
    <3>2. pde(BootTables, v) = HugePage(Index(v, 2) * Entries)
      BY <1>0, <1>1, <3>1 DEF pde, EntryOf
    <3>3. /\ pde(BootTables, v).present /\ pde(BootTables, v).huge
          /\ pde(BootTables, v).addr = Index(v, 2) * Entries
      BY <3>2, EntryFields
    <3>4. v \in BootMapped
      BY <1>4, <2>4 DEF BootMapped
    <3>5. Index(v, 1) = v % Entries
      BY DEF Index
    <3> QED
      BY <2>1, <3>1, <3>3, <3>4, <3>5 DEF Translate
  <2> QED
    BY <2>3, <2>4
<1> QED
  BY <1>3, <1>4

LEMMA InitSpace ==
    ASSUME Init PROVE Space!Init
<1>1. Watched \subseteq Pages
  BY WatchedPages DEF Pages
<1> QED
  BY <1>1, BootTranslate DEF Init, Space!Init, vmm_get_phys

\* A step that leaves the translation of every page alone.
LEMMA SameSpace ==
    ASSUME \A v \in Watched : Translate(tables', v) = Translate(tables, v)
    PROVE  UNCHANGED [v \in Watched |-> vmm_get_phys(v)]
BY DEF vmm_get_phys

LEMMA SetEntrySpace ==
    ASSUME IInv, SetEntry PROVE Space!Map
<1>0. Watched \subseteq Pages /\ Good(tables) /\ call.virt \in Pages
  BY WatchedPages, GoodTables, CallFields, Zenon DEF Pages, IInv, TablesOK
<1>1. PICK t, i, e :
         /\ t = call.table /\ i = Index(call.virt, 1) /\ e = Leaf(call)
         /\ Written(tables, tables', t, i, e) /\ Reaches(tables, call.virt, t)
  BY SetEntryWrites
<1>2. call.virt \notin BootMapped
  BY <1>0, <1>1, SharedSlot
<1>3. (IF e.present THEN e.addr ELSE 0) = IF call.present THEN call.phys ELSE 0
  BY <1>1 DEF Leaf
<1>4. ASSUME NEW v \in Watched
      PROVE  Translate(tables', v) = IF Shares(call.virt, v)
                                     THEN IF call.present THEN call.phys ELSE 0
                                     ELSE Translate(tables, v)
  <2>1. Translate(tables', v) = IF Reaches(tables, v, t) /\ Index(v, 1) = i
                                THEN IF e.present THEN e.addr ELSE 0
                                ELSE Translate(tables, v)
    BY <1>0, <1>1, WrittenTranslate
  <2>2. Reaches(tables, v, t) /\ Index(call.virt, 1) = Index(v, 1) <=> Shares(call.virt, v)
    BY <1>0, <1>1, SharedSlot
  <2> QED
    BY <1>1, <1>3, <2>1, <2>2
<1> QED
  BY <1>2, <1>4 DEF Space!Map, vmm_get_phys

LEMMA NextSpace ==
    ASSUME SmallRam, IInv, [Next]_allVars
    PROVE  Space!Map \/ UNCHANGED [v \in Watched |-> vmm_get_phys(v)]
<1>1. CASE SetEntry
  BY <1>1, SetEntrySpace
<1>2. CASE Extend
  <2>1. tables' = tables \/ \E n : Extended(tables, tables', call.table, Slot, n)
    BY <1>2, ExtendOutcome, Zenon
  <2>2. Watched \subseteq Pages /\ Good(tables)
    BY WatchedPages, GoodTables DEF Pages
  <2>3. \A v \in Watched : Translate(tables', v) = Translate(tables, v)
    <3>1. CASE tables' = tables
      BY <3>1
    <3>2. ASSUME NEW n, Extended(tables, tables', call.table, Slot, n)
          PROVE  \A v \in Watched : Translate(tables', v) = Translate(tables, v)
      BY <2>2, <3>2, ExtendedTranslate
    <3> QED
      BY <2>1, <3>1, <3>2
  <2> QED
    BY <2>3, SameSpace
<1>3. CASE tables' = tables
  BY <1>3, SameSpace
<1> QED
  BY <1>1, <1>2, <1>3, Zenon
     DEF Next, vmm_map_range, vmm_alloc, OtherAlloc, Follow, Return, allVars, pagingVars

\* The page tables implement a map in which one page at a time changes: the
\* walk of paging_map, with the tables it makes on the way, changes the
\* translation of the page that was asked for, and of no other.
THEOREM MapsOnlyThePage ==
    ASSUME SmallRam
    PROVE  Spec => MapsOnePage
<1>1. Init => Space!Init
  BY InitSpace
<1>2. IInv /\ [Next]_allVars => [Space!Map]_([v \in Watched |-> vmm_get_phys(v)])
  BY NextSpace
<1> QED
  BY <1>1, <1>2, PagingInvariant, PTL DEF Spec, MapsOnePage, Space!Spec
=============================================================================
