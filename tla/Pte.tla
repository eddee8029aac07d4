-------------------------------- MODULE Pte ---------------------------------
(***************************************************************************)
(* Page table entries as mm.c and mm-vm.c encode and decode them, and the  *)
(* translation of addresses (mm.h).  Module Paging works with the place of *)
(* a page, absent, in a RAM frame or in a swap frame; here the place is    *)
(* what 32 bits say it is.  An entry is never cleared: each operation      *)
(* leaves bits of the earlier ones behind.                                 *)
(***************************************************************************)
EXTENDS Word

CONSTANTS Page,          \* page numbers
          Offst,         \* offsets in a page
          Fpn,           \* RAM frames
          Swptyp,        \* swap devices
          Swpoff         \* frames of a swap device

\* Every number fits its field, as the fields are declared in mm.h.
ASSUME FieldAssumption ==
  /\ Page \subseteq SUBSET (0..13) /\ Offst \subseteq SUBSET (0..7)
  /\ Fpn \subseteq SUBSET (0..12)
  /\ Swptyp \subseteq SUBSET (0..4) /\ Swpoff \subseteq SUBSET (0..20)

VARIABLES pgd,           \* mm->pgd
          place          \* history: where each page was last put

vars == <<pgd, place>>

Absent == [st |-> "absent"]
InRam(f) == [st |-> "ram", fpn |-> f]
InSwp(t, o) == [st |-> "swap", typ |-> t, off |-> o]

Place == {Absent} \cup {InRam(f) : f \in Fpn}
                  \cup {InSwp(t, o) : t \in Swptyp, o \in Swpoff}

\* One type invariant: entries are 32-bit words.
TypeOK == /\ pgd \in [Page -> SUBSET (0..31)]
          /\ place \in [Page -> Place]

-----------------------------------------------------------------------------
(* mm.h                                                                    *)

PAGING_CPU_BUS_WIDTH == 22
PAGING_PAGESZ == BIT(8)
PAGING_MEMSWPSZ == BIT(14)

\* A bit that a 32-bit entry does not have: mutation.
PRESENT_MASK_High == BIT(32)

PRESENT_MASK == BIT(31)
SWAPPED_MASK == BIT(30)
FPN_MASK == GENMASK(12, 0)
SWPTYP_MASK == GENMASK(4, 0)
SWPOFF_MASK == GENMASK(25, 5)

\* A mask that is one bit short at the top: mutation.
PAGING_OFFST_Short(addr) ==
  GETVAL(addr, GENMASK(NBITS(PAGING_PAGESZ) - 2, 0), 0)

PAGING_OFFST(addr) == GETVAL(addr, GENMASK(NBITS(PAGING_PAGESZ) - 1, 0), 0)
PAGING_PGN(addr) ==
  GETVAL(addr, GENMASK(PAGING_CPU_BUS_WIDTH - 1, NBITS(PAGING_PAGESZ)),
         NBITS(PAGING_PAGESZ))

\* The offset is read with a mask of its own, made from the size of the swap.
PAGING_SWP(pte) == GETVAL(pte, GENMASK(NBITS(PAGING_MEMSWPSZ) - 1, 5), 5)

-----------------------------------------------------------------------------
(* mm.c                                                                    *)

\* pte_set_fpn leaves the SWAPPED bit of the page it brings in: mutation.
pte_set_fpn_swapped(pte, fpn) ==
  SETVAL(SETBIT(pte, PRESENT_MASK), fpn, FPN_MASK, 0)

pte_set_fpn(pte, fpn) ==
  SETVAL(CLRBIT(SETBIT(pte, PRESENT_MASK), SWAPPED_MASK), fpn, FPN_MASK, 0)

pte_set_swap(pte, swptyp, swpoff) ==
  LET flags == SETBIT(SETBIT(pte, PRESENT_MASK), SWAPPED_MASK)
  IN  SETVAL(SETVAL(flags, swptyp, SWPTYP_MASK, 0), swpoff, SWPOFF_MASK, 5)

\* What pg_getpage makes of an entry.
Decode(pte) ==
  IF pte \cap PRESENT_MASK = {} THEN Absent
  ELSE IF GETVAL(pte, SWAPPED_MASK, 0) # {}
    THEN InSwp(GETVAL(pte, SWPTYP_MASK, 0), PAGING_SWP(pte))
    ELSE InRam(GETVAL(pte, FPN_MASK, 0))

-----------------------------------------------------------------------------
(* The operations on the entry of a page.  A frame of the RAM or the swap  *)
(* that is put into an entry comes from a free list, so nobody uses it.    *)

Init == /\ pgd = [g \in Page |-> {}]
        /\ place = [g \in Page |-> Absent]

Unused(pl) == \A g \in Page : place[g] # pl

\* vmap_page_range.
Map(g, f) ==
  /\ Decode(pgd[g]).st = "absent" /\ Unused(InRam(f))
  /\ pgd' = [pgd EXCEPT ![g] = pte_set_fpn(@, f)]
  /\ place' = [place EXCEPT ![g] = InRam(f)]

\* alloc_pages_range, for its victim.
Evict(g, t, o) ==
  /\ Decode(pgd[g]).st = "ram" /\ Unused(InSwp(t, o))
  /\ pgd' = [pgd EXCEPT ![g] = pte_set_swap(@, t, o)]
  /\ place' = [place EXCEPT ![g] = InSwp(t, o)]

\* pg_getpage of a page that is in the swap.
SwapIn(g, f) ==
  /\ Decode(pgd[g]).st = "swap" /\ Unused(InRam(f))
  /\ pgd' = [pgd EXCEPT ![g] = pte_set_fpn(@, f)]
  /\ place' = [place EXCEPT ![g] = InRam(f)]

\* __free, after pg_getpage has brought the page in.
Unmap(g) ==
  /\ Decode(pgd[g]).st = "ram"
  /\ pgd' = [pgd EXCEPT ![g] = CLRBIT(@, PRESENT_MASK)]
  /\ place' = [place EXCEPT ![g] = Absent]

Next == \E g \in Page :
          \/ \E f \in Fpn : Map(g, f) \/ SwapIn(g, f)
          \/ \E t \in Swptyp, o \in Swpoff : Evict(g, t, o)
          \/ Unmap(g)

Spec == Init /\ [][Next]_vars

-----------------------------------------------------------------------------
(* Properties.                                                             *)

\* Whatever the history of an entry left in its other bits, pg_getpage reads
\* from it the place where the page was last put: the frame of vmap_page_range
\* or of the last fault, the device and offset of the last eviction, or
\* nothing after __free.
EntryFaithful == \A g \in Page : Decode(pgd[g]) = place[g]

\* phyaddr of tlbread and tlbwrite: the frame number and the offset side by
\* side.
Phyaddr(addr) ==
  Shl(GETVAL(pgd[PAGING_PGN(addr)], FPN_MASK, 0), NBITS(PAGING_PAGESZ))
    \cup PAGING_OFFST(addr)

Addr == {Shl(g, 8) \cup o : g \in Page, o \in Offst}

\* Two bytes of a process never share a byte of the RAM: the translation from
\* address to page and offset, to frame, to physical address is one to one on
\* the pages in RAM.
TranslationInjective ==
  \A a, b \in Addr :
    /\ place[PAGING_PGN(a)].st = "ram" /\ place[PAGING_PGN(b)].st = "ram"
    /\ Phyaddr(a) = Phyaddr(b)
    => a = b
=============================================================================
