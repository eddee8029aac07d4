------------------------------ MODULE TlbCache ------------------------------
(***************************************************************************)
(* The fully associative TLB of cpu-tlbcache.c: an array of 64-bit entries *)
(* searched by index.  An entry that is invalidated keeps its tag, pid and *)
(* frame number and only loses its valid bit.  Process ids, page numbers   *)
(* and frame numbers are words, because an entry is put together from them *)
(* and compared field by field.  Each call is one step here, although      *)
(* tlbread calls tlb_cache_write without tlb_lock (cpu-tlb.c:294) and the  *)
(* locks in cpu-tlbcache.c are commented out; module TlbRace has the calls *)
(* that overlap.                                                           *)
(***************************************************************************)
EXTENDS Word, FiniteSets

CONSTANTS Pid, Page, Frame,
          TLBSZ         \* tlb->maxsz / sizeof(TLB_entry_t)

ASSUME SizeAssumption == TLBSZ \in Nat \ {0}

\* Every number fits its field.  The pid is an int in cpu-tlbcache.c and is
\* compared with what comes out of the entry, so it has no sign bit.
ASSUME FieldAssumption ==
  /\ Pid \subseteq SUBSET (0..30)
  /\ Page \subseteq SUBSET (0..13)
  /\ Frame \subseteq SUBSET (0..12)

VARIABLE storage        \* tlb->storage: the array of entries

vars == <<storage>>

Index == 0 .. TLBSZ - 1

Blank == {}             \* an entry of the zeroed storage

\* One type invariant: 64-bit words.
TypeOK == storage \in [Index -> SUBSET (0..63)]

Init == storage = [n \in Index |-> Blank]

-----------------------------------------------------------------------------
(* The layout of an entry, cpu-tlbcache.h.                                 *)

VALID_MASK == BIT(59)
TAG_MASK == GENMASK(58, 45)
PID_MASK == GENMASK(44, 13)
FRMNUM_MASK == GENMASK(12, 0)

TLB_VALID(entry) == GETVAL(entry, VALID_MASK, 59) # {}
TLB_TAG(entry) == GETVAL(entry, TAG_MASK, 45)
TLB_PID(entry) == GETVAL(entry, PID_MASK, 13)
TLB_FRMNUM(entry) == GETVAL(entry, FRMNUM_MASK, 0)

\* set_TLB_entry with its two middle arguments exchanged: mutation.
set_TLB_entry_swapped(valid, pgnum, pid, frmnum) ==
  LET v == SETVAL({}, valid, VALID_MASK, 59)
      t == SETVAL(v, pid, TAG_MASK, 45)
      p == SETVAL(t, pgnum, PID_MASK, 13)
  IN  SETVAL(p, frmnum, FRMNUM_MASK, 0)

set_TLB_entry(valid, pgnum, pid, frmnum) ==
  LET v == SETVAL({}, valid, VALID_MASK, 59)
      t == SETVAL(v, pgnum, TAG_MASK, 45)
      p == SETVAL(t, pid, PID_MASK, 13)
  IN  SETVAL(p, frmnum, FRMNUM_MASK, 0)

-----------------------------------------------------------------------------
\* The comparator: TLB_VALID, TLB_TAG and TLB_PID.
Matches(n, p, g) ==
  TLB_VALID(storage[n]) /\ TLB_TAG(storage[n]) = g /\ TLB_PID(storage[n]) = p

\* The first index of S, in the order of the scanning loops.
First(S) == CHOOSE n \in S : \A m \in S : n <= m

\* *frmnum = -1: all ones, which is no frame number.
Miss == 0..31

\* tlb_cache_read.
Read(p, g) ==
  LET hits == {n \in Index : Matches(n, p, g)}
  IN  IF hits = {} THEN Miss ELSE TLB_FRMNUM(storage[First(hits)])

\* TLBMEMPHY_write one past the index that was found: mutation.
SetEntryNext(n, p, g, f) ==
  storage' = [m \in DOMAIN storage \cup {n + 1} |->
                IF m = n + 1 THEN set_TLB_entry({0}, g, p, f) ELSE storage[m]]

\* set_TLB_entry and TLBMEMPHY_write.
SetEntry(n, p, g, f) ==
  storage' = [storage EXCEPT ![n] = set_TLB_entry({0}, g, p, f)]

\* tlb_cache_write that looks for a free slot first: mutation.
WriteFreeFirst(p, g, f) ==
  LET free == {n \in Index : ~ TLB_VALID(storage[n])}
  IN  IF free # {} THEN SetEntry(First(free), p, g, f)
                   ELSE \E n \in Index : SetEntry(n, p, g, f)

\* tlb_cache_write: the slot of the page, else the first free slot, else a
\* random one.
Write(p, g, f) ==
  LET hits == {n \in Index : Matches(n, p, g)}
      free == {n \in Index : ~ TLB_VALID(storage[n])}
  IN  IF hits # {} THEN SetEntry(First(hits), p, g, f)
      ELSE IF free # {} THEN SetEntry(First(free), p, g, f)
      ELSE \E n \in Index : SetEntry(n, p, g, f)

\* SET_TLB_VALID(entry, 0) and TLBMEMPHY_write.
Cleared(entry) == SETVAL(entry, {}, VALID_MASK, 59)

\* tlb_cache_invalidate with pgnum >= 0: returns at the first match.
Invalidate(p, g) ==
  LET hits == {n \in Index : Matches(n, p, g)}
  IN  /\ hits # {}
      /\ storage' = [storage EXCEPT ![First(hits)] = Cleared(@)]

\* A flush that forgets to compare the pid: mutation.
FlushAll(p) ==
  storage' = [n \in Index |-> Cleared(storage[n])]

\* tlb_cache_invalidate with pgnum = -1, called by tlb_flush_tlb_of.
Flush(p) ==
  storage' = [n \in Index |->
                IF TLB_VALID(storage[n]) /\ TLB_PID(storage[n]) = p
                  THEN Cleared(storage[n]) ELSE storage[n]]

Next ==
  \E p \in Pid :
    \/ \E g \in Page, f \in Frame : Write(p, g, f)
    \/ \E g \in Page : Invalidate(p, g)
    \/ Flush(p)

Spec == Init /\ [][Next]_vars

-----------------------------------------------------------------------------
(* Properties.                                                             *)

\* A page is cached in at most one entry: a read returns its first match and
\* an invalidation clears its first match only, so a second entry would
\* outlive the invalidation and serve a stale frame.
NoDuplicate ==
  \A m, n \in Index :
    /\ TLB_VALID(storage[m])
    /\ Matches(n, TLB_PID(storage[m]), TLB_TAG(storage[m]))
    => m = n

\* The array implements the bounded map: what tlb_cache_read answers for every
\* page changes only as storing, invalidating and flushing may change it.
Map == INSTANCE TlbMap WITH tlb <- [k \in Pid \X Page |-> Read(k[1], k[2])]

ImplementsTlbMap == Map!Spec

\* The same call by call: a tlb_cache_write stores its own page and frame and
\* pushes out at most one page, an invalidation forgets exactly the page (or
\* the process) it was asked to forget and never another process's.
CallsAgree ==
  [][\A p \in Pid :
       /\ \A g \in Page :
            /\ \A f \in Frame : Write(p, g, f) => Map!Store(p, g, f)
            /\ Invalidate(p, g) => Map!Invalidate(p, {g})
       /\ Flush(p) => Map!Invalidate(p, Page)]_vars
=============================================================================
