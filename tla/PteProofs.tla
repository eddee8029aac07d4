----------------------------- MODULE PteProofs ------------------------------
(***************************************************************************)
(* Proofs about page table entries for every set of pages, offsets, frames *)
(* and swap devices that fit their fields: the flags and the frame number  *)
(* of an entry are always the last ones put there, so two addresses never  *)
(* share a byte of the RAM; and the whole entry is, as long as the offsets *)
(* of the swap fit the mask they are read with.                            *)
(***************************************************************************)
EXTENDS Pte, WordProofs

-----------------------------------------------------------------------------
(* The operators on an entry.                                              *)

\* NBITS of a power of two, the only way mm.h uses it.
LEMMA NbitsBit == \A k \in Nat : NBITS(BIT(k)) = k
BY DEF NBITS, BIT

USE DEF BIT, GENMASK, PRESENT_MASK, SWAPPED_MASK, FPN_MASK, SWPTYP_MASK,
        SWPOFF_MASK, SETBIT, CLRBIT

\* The mask that PAGING_SWP reads the swap offset with has 9 bits.
LEMMA SwpMask == \A pte : PAGING_SWP(pte) = GETVAL(pte, 5..13, 5)
<1>1. NBITS(PAGING_MEMSWPSZ) = 14
  BY NbitsBit DEF PAGING_MEMSWPSZ
<1> QED BY <1>1 DEF PAGING_SWP

\* The frame number does not overlap the flags, so the flags tell the state
\* of an entry whatever is in its other bits.
LEMMA DecodeState ==
  ASSUME NEW pte
  PROVE  /\ 31 \notin pte => Decode(pte) = Absent
         /\ 31 \in pte /\ 30 \in pte =>
              Decode(pte) = InSwp(GETVAL(pte, 0..4, 0), PAGING_SWP(pte))
         /\ 31 \in pte /\ 30 \notin pte => Decode(pte) = InRam(GETVAL(pte, 0..12, 0))
<1>1. pte \cap {31} = {} <=> 31 \notin pte
  OBVIOUS
<1>2. GETVAL(pte, {30}, 0) = {} <=> 30 \notin pte
  BY DEF GETVAL, Shr
<1> QED BY <1>1, <1>2 DEF Decode

\* pte_set_fpn makes any entry one of the frame it is given.
LEMMA SetFpn ==
  ASSUME NEW pte \in SUBSET (0..31), NEW f \in Fpn
  PROVE  /\ pte_set_fpn(pte, f) \in SUBSET (0..31)
         /\ Decode(pte_set_fpn(pte, f)) = InRam(f)
<1> DEFINE flags == (pte \cup {31}) \ {30}
           e == SETVAL(flags, f, 0..12, 0)
<1>1. \A b \in f : b \in Nat /\ b + 0 <= 12
  BY FieldAssumption
<1>2. e = pte_set_fpn(pte, f)
  BY DEF pte_set_fpn
<1>3. \A b \in e : b \in flags \/ b \in 0..12
  BY SetBits
<1>4. 31 \in e /\ 30 \notin e
  BY <1>3 DEF SETVAL
<1>5. e \in SUBSET (0..31)
  <2>1. \A b \in flags : b \in 0..31
    OBVIOUS
  <2> HIDE DEF flags, e
  <2> QED BY <1>3, <2>1
<1>6. GETVAL(e, 0..12, 0) = f
  <2> HIDE DEF flags
  <2> QED BY <1>1, SetGetSame
<1> HIDE DEF e
<1> QED BY <1>2, <1>4, <1>5, <1>6, DecodeState

\* pte_set_swap makes any entry one of the swap; the device reads back, and
\* the offset does if it fits the mask of PAGING_SWP.
LEMMA SetSwap ==
  ASSUME NEW pte \in SUBSET (0..31), NEW t \in Swptyp, NEW o \in Swpoff
  PROVE  LET e == pte_set_swap(pte, t, o)
         IN  /\ e \in SUBSET (0..31)
             /\ Decode(e).st = "swap"
             /\ o \in SUBSET (0..8) => Decode(e) = InSwp(t, o)
<1> DEFINE flags == (pte \cup {31}) \cup {30}
           d == SETVAL(flags, t, 0..4, 0)
           e == SETVAL(d, o, 5..25, 5)
<1>1. /\ \A b \in t : b \in Nat /\ b + 0 <= 4
      /\ \A b \in o : b \in Nat /\ b + 5 <= 25
  BY FieldAssumption
<1>2. e = pte_set_swap(pte, t, o)
  BY DEF pte_set_swap
<1>3. /\ \A b \in d : b \in flags \/ b \in 0..4
      /\ \A b \in e : b \in d \/ b \in 5..25
  <2> HIDE DEF flags
  <2>1. \A b \in d : b \in flags \/ b \in 0..4
    BY SetBits
  <2> HIDE DEF d
  <2> QED BY <2>1, SetBits
<1>4. 31 \in e /\ 30 \in e
  BY DEF SETVAL
<1>5. e \in SUBSET (0..31)
  <2>1. \A b \in flags : b \in 0..31
    OBVIOUS
  <2> HIDE DEF flags, d, e
  <2> QED BY <1>3, <2>1
<1>6. GETVAL(e, 0..4, 0) = t
  <2> HIDE DEF flags
  <2>1. GETVAL(d, 0..4, 0) = t
    BY <1>1, SetGetSame
  <2> HIDE DEF d
  <2> QED BY <2>1, SetGetOther
<1>7. ASSUME o \in SUBSET (0..8) PROVE GETVAL(e, 5..13, 5) = o
  <2> HIDE DEF flags, d
  <2>1. \A b \in Shl(o, 5) : b \in 5..13
    BY <1>7 DEF Shl
  <2>2. e \cap (5..13) = Shl(o, 5)
    BY <2>1 DEF SETVAL
  <2>3. o \in SUBSET Nat
    BY <1>7
  <2>4. Shr(Shl(o, 5), 5) = o
    BY <2>3, ShrShl
  <2> HIDE DEF e
  <2> QED BY <2>2, <2>4 DEF GETVAL
<1> HIDE DEF e
<1>8. Decode(e) = InSwp(t, PAGING_SWP(e))
  BY <1>4, <1>6, DecodeState
<1> QED BY <1>2, <1>5, <1>7, <1>8, SwpMask DEF InSwp

\* __free leaves an entry that is not present.
LEMMA ClearPresent ==
  ASSUME NEW pte \in SUBSET (0..31)
  PROVE  pte \ {31} \in SUBSET (0..31) /\ Decode(pte \ {31}) = Absent
BY DecodeState

-----------------------------------------------------------------------------
(* The inductive invariant.                                                *)

\* The state that an entry decodes to is the one it was put in, and so is the
\* frame: this does not depend on how wide the swap's offsets are.
FlagsFaithful ==
  \A g \in Page : /\ Decode(pgd[g]).st = place[g].st
                  /\ place[g].st = "ram" => Decode(pgd[g]) = place[g]

\* Two pages are never in the same place.
NoSharedPlace ==
  \A g, h \in Page : place[g] = place[h] /\ place[g] # Absent => g = h

IInv == TypeOK /\ FlagsFaithful /\ NoSharedPlace

LEMMA InitIInv == Init => IInv
<1> SUFFICES ASSUME Init PROVE IInv
  OBVIOUS
<1>1. Decode({}) = Absent
  BY DecodeState
<1> QED BY <1>1 DEF Init, IInv, TypeOK, Place, FlagsFaithful, NoSharedPlace, Absent

\* A step that puts a page into a place nobody is in.
LEMMA PutStep ==
  ASSUME IInv, NEW g \in Page, NEW e \in SUBSET (0..31), NEW pl \in Place,
         pl = Absent \/ Unused(pl),
         Decode(e).st = pl.st,
         pl.st = "ram" => Decode(e) = pl,
         pgd' = [pgd EXCEPT ![g] = e],
         place' = [place EXCEPT ![g] = pl]
  PROVE  IInv'
<1>1. pgd'[g] = e /\ \A h \in Page \ {g} : pgd'[h] = pgd[h]
  BY DEF IInv, TypeOK
<1>2. place'[g] = pl /\ \A h \in Page \ {g} : place'[h] = place[h]
  BY DEF IInv, TypeOK
<1>3. TypeOK'
  BY DEF IInv, TypeOK
<1>4. FlagsFaithful'
  BY <1>1, <1>2 DEF IInv, FlagsFaithful
<1>5. NoSharedPlace'
  BY <1>2 DEF IInv, NoSharedPlace, Unused
<1> QED BY <1>3, <1>4, <1>5 DEF IInv

\* vmap_page_range, and pg_getpage of a page that is in the swap.
LEMMA FrameStep ==
  ASSUME IInv, NEW g \in Page, NEW f \in Fpn, Map(g, f) \/ SwapIn(g, f)
  PROVE  IInv'
<1> DEFINE e == pte_set_fpn(pgd[g], f)
<1>1. pgd[g] \in SUBSET (0..31)
  BY DEF IInv, TypeOK
<1>2. e \in SUBSET (0..31) /\ Decode(e) = InRam(f)
  BY <1>1, SetFpn
<1>3. /\ pgd' = [pgd EXCEPT ![g] = e] /\ place' = [place EXCEPT ![g] = InRam(f)]
      /\ Unused(InRam(f)) /\ InRam(f) \in Place
  BY DEF Map, SwapIn, Place
<1> HIDE DEF e
<1> QED BY <1>2, <1>3, PutStep

LEMMA NextIInv == IInv /\ [Next]_vars => IInv'
<1> SUFFICES ASSUME IInv, [Next]_vars PROVE IInv'
  OBVIOUS
<1>1. ASSUME NEW g \in Page, NEW f \in Fpn, Map(g, f) \/ SwapIn(g, f) PROVE IInv'
  BY <1>1, FrameStep
<1>2. ASSUME NEW g \in Page, NEW t \in Swptyp, NEW o \in Swpoff, Evict(g, t, o)
      PROVE  IInv'
  <2> DEFINE e == pte_set_swap(pgd[g], t, o)
  <2>1. e \in SUBSET (0..31) /\ Decode(e).st = "swap"
    BY SetSwap DEF IInv, TypeOK
  <2>2. /\ pgd' = [pgd EXCEPT ![g] = e]
        /\ place' = [place EXCEPT ![g] = InSwp(t, o)]
        /\ Unused(InSwp(t, o)) /\ InSwp(t, o) \in Place
    BY <1>2 DEF Evict, Place
  <2>3. InSwp(t, o).st = "swap"
    BY DEF InSwp
  <2> HIDE DEF e
  <2> QED BY <2>1, <2>2, <2>3, PutStep
<1>3. ASSUME NEW g \in Page, Unmap(g) PROVE IInv'
  <2> DEFINE e == pgd[g] \ {31}
  <2>1. e \in SUBSET (0..31) /\ Decode(e) = Absent
    BY ClearPresent DEF IInv, TypeOK
  <2>2. /\ pgd' = [pgd EXCEPT ![g] = e] /\ place' = [place EXCEPT ![g] = Absent]
        /\ Absent \in Place
    BY <1>3 DEF Unmap, Place
  <2> HIDE DEF e
  <2> QED BY <2>1, <2>2, PutStep
<1>4. CASE UNCHANGED vars
  BY <1>4 DEF vars, IInv, TypeOK, FlagsFaithful, NoSharedPlace
<1> QED BY <1>1, <1>2, <1>3, <1>4 DEF Next

\* The inductive invariant.
THEOREM Invariance == Spec => []IInv
BY InitIInv, NextIInv, PTL DEF Spec

\* Entries stay 32-bit words and every page is in a place that exists.
THEOREM TypeCorrect == Spec => []TypeOK
<1>1. IInv => TypeOK
  BY DEF IInv
<1> QED BY <1>1, Invariance, PTL

-----------------------------------------------------------------------------
(* What pg_getpage reads.                                                  *)

\* Whatever its history left in its other bits, an entry says where its page
\* was last put, for every set of pages, frames and devices, if PAGING_SWP can
\* read the offsets of the swap: 9 bits, a device of at most 512 frames.
\* Beyond that the property is false, which run pte_swap shows.
THEOREM EntriesFaithful ==
  ASSUME Swpoff \in SUBSET (SUBSET (0..8))
  PROVE  Spec => []EntryFaithful
<1>1. Init => EntryFaithful
  BY DecodeState DEF Init, EntryFaithful
<1>2. IInv /\ EntryFaithful /\ [Next]_vars => EntryFaithful'
  <2> SUFFICES ASSUME IInv, EntryFaithful, [Next]_vars PROVE EntryFaithful'
    OBVIOUS
  <2>1. ASSUME NEW g \in Page, NEW e, NEW pl, Decode(e) = pl,
               pgd' = [pgd EXCEPT ![g] = e], place' = [place EXCEPT ![g] = pl]
        PROVE  EntryFaithful'
    BY <2>1 DEF EntryFaithful, IInv, TypeOK
  <2>2. \A g \in Page : pgd[g] \in SUBSET (0..31)
    BY DEF IInv, TypeOK
  <2>3. ASSUME NEW g \in Page, NEW f \in Fpn, Map(g, f) \/ SwapIn(g, f)
        PROVE  EntryFaithful'
    <3>1. Decode(pte_set_fpn(pgd[g], f)) = InRam(f)
      BY <2>2, SetFpn
    <3> QED BY <2>1, <2>3, <3>1 DEF Map, SwapIn
  <2>4. ASSUME NEW g \in Page, NEW t \in Swptyp, NEW o \in Swpoff, Evict(g, t, o)
        PROVE  EntryFaithful'
    <3>1. Decode(pte_set_swap(pgd[g], t, o)) = InSwp(t, o)
      BY <2>2, SetSwap
    <3> QED BY <2>1, <2>4, <3>1 DEF Evict
  <2>5. ASSUME NEW g \in Page, Unmap(g) PROVE EntryFaithful'
    <3>1. Decode(pgd[g] \ {31}) = Absent
      BY <2>2, ClearPresent
    <3> QED BY <2>1, <2>5, <3>1 DEF Unmap
  <2>6. CASE UNCHANGED vars
    BY <2>6 DEF vars, EntryFaithful
  <2> QED BY <2>3, <2>4, <2>5, <2>6 DEF Next
<1> QED BY <1>1, <1>2, Invariance, PTL DEF Spec

-----------------------------------------------------------------------------
(* The translation of addresses.                                           *)

\* PAGING_PGN and PAGING_OFFST take an address apart.
LEMMA AddressParts ==
  ASSUME NEW g \in Page, NEW o \in Offst
  PROVE  LET a == Shl(g, 8) \cup o
         IN  PAGING_PGN(a) = g /\ PAGING_OFFST(a) = o
<1> DEFINE a == Shl(g, 8) \cup o
<1>1. NBITS(PAGING_PAGESZ) = 8
  BY NbitsBit DEF PAGING_PAGESZ
<1>2. (\A b \in g : b \in 0..13) /\ (\A b \in o : b \in 0..7)
  BY FieldAssumption
<1>3. \A b \in Shl(g, 8) : b \in 8..21
  BY <1>2 DEF Shl
<1>4. a \cap (8..21) = Shl(g, 8) /\ a \cap (0..7) = o
  BY <1>2, <1>3
<1> HIDE DEF a
<1>5. PAGING_PGN(a) = Shr(Shl(g, 8), 8)
  BY <1>1, <1>4 DEF PAGING_PGN, GETVAL, PAGING_CPU_BUS_WIDTH
<1>6. PAGING_OFFST(a) = Shr(o, 0)
  BY <1>1, <1>4 DEF PAGING_OFFST, GETVAL
<1>7. Shr(o, 0) = o
  BY <1>2 DEF Shr
<1>8. g \in SUBSET Nat
  BY <1>2
<1>9. Shr(Shl(g, 8), 8) = g
  BY <1>8, ShrShl
<1> QED BY <1>5, <1>6, <1>7, <1>9 DEF a

\* Frame number and offset side by side determine both.
LEMMA SideBySide ==
  ASSUME NEW f \in SUBSET Nat, NEW h \in SUBSET Nat, NEW o \in Offst, NEW q \in Offst,
         Shl(f, 8) \cup o = Shl(h, 8) \cup q
  PROVE  f = h /\ o = q
<1>1. (\A b \in o : b \in 0..7) /\ (\A b \in q : b \in 0..7)
  BY FieldAssumption
<1>2. (\A b \in Shl(f, 8) : b \notin 0..7) /\ (\A b \in Shl(h, 8) : b \notin 0..7)
  BY DEF Shl
<1>3. o = q /\ Shl(f, 8) = Shl(h, 8)
  BY <1>1, <1>2
<1>4. Shr(Shl(f, 8), 8) = f /\ Shr(Shl(h, 8), 8) = h
  BY ShrShl
<1> QED BY <1>3, <1>4

\* Two bytes of a process never share a byte of the RAM, whatever the sizes of
\* the RAM and of the swap: two pages never have the same frame, and frame and
\* offset do not overlap in the physical address.
THEOREM OneToOne == Spec => []TranslationInjective
<1>1. IInv => TranslationInjective
  <2> SUFFICES ASSUME IInv, NEW a \in Addr, NEW b \in Addr,
                      place[PAGING_PGN(a)].st = "ram",
                      place[PAGING_PGN(b)].st = "ram",
                      Phyaddr(a) = Phyaddr(b)
               PROVE  a = b
    BY DEF TranslationInjective
  <2>1. PICK g \in Page, o \in Offst : a = Shl(g, 8) \cup o
    BY DEF Addr
  <2>2. PICK h \in Page, q \in Offst : b = Shl(h, 8) \cup q
    BY DEF Addr
  <2>3. /\ PAGING_PGN(a) = g /\ PAGING_OFFST(a) = o
        /\ PAGING_PGN(b) = h /\ PAGING_OFFST(b) = q
    BY <2>1, <2>2, AddressParts
  <2> DEFINE fg == GETVAL(pgd[g], 0..12, 0)
             fh == GETVAL(pgd[h], 0..12, 0)
  <2>4. fg \in SUBSET Nat /\ fh \in SUBSET Nat
    <3>1. \A v : GETVAL(v, 0..12, 0) \in SUBSET (0 .. 12 - 0)
      BY GetFits
    <3>2. fg \in SUBSET (0 .. 12 - 0) /\ fh \in SUBSET (0 .. 12 - 0)
      BY <3>1
    <3> HIDE DEF fg, fh
    <3> QED BY <3>2
  <2>5. NBITS(PAGING_PAGESZ) = 8
    BY NbitsBit DEF PAGING_PAGESZ
  <2>6. Shl(fg, 8) \cup o = Shl(fh, 8) \cup q
    BY <2>3, <2>5 DEF Phyaddr
  <2> HIDE DEF fg, fh
  <2>7. fg = fh /\ o = q
    BY <2>4, <2>6, SideBySide
  <2>8. place[g] = InRam(fg) /\ place[h] = InRam(fh)
    <3>1. ASSUME NEW k \in Page, place[k].st = "ram"
          PROVE  place[k] = InRam(GETVAL(pgd[k], 0..12, 0))
      <4>1. Decode(pgd[k]).st = "ram" /\ Decode(pgd[k]) = place[k]
        BY <3>1 DEF IInv, FlagsFaithful
      <4> QED BY <4>1, DecodeState DEF Absent, InSwp
    <3> QED BY <2>3, <3>1 DEF fg, fh
  <2>9. g = h
    BY <2>7, <2>8 DEF IInv, NoSharedPlace, InRam, Absent
  <2> QED BY <2>1, <2>2, <2>7, <2>9
<1> QED BY <1>1, Invariance, PTL
=============================================================================
