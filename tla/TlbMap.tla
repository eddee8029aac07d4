------------------------------- MODULE TlbMap -------------------------------
(***************************************************************************)
(* What cpu-tlbcache.c promises its callers: a bounded map from a page of  *)
(* a process to the frame it was last stored with.  Storing a page that is *)
(* not in a full map pushes out an arbitrary other page.                   *)
(*                                                                         *)
(* Module TlbCache implements this with an array of entries; module Paging *)
(* uses it as the TLB behind tlballoc, tlbfree_data, tlbread and tlbwrite. *)
(***************************************************************************)
EXTENDS Integers, FiniteSets

CONSTANTS Pid, Page, Frame,
          Miss,         \* what a read answers for a page that is not stored
          TLBSZ         \* number of entries

VARIABLE tlb            \* frame stored for each page, Miss when there is none

Key == Pid \X Page

Stored == {k \in Key : tlb[k] # Miss}

TypeOK == /\ tlb \in [Key -> Frame \cup {Miss}]
          /\ Cardinality(Stored) <= TLBSZ

Init == tlb = [k \in Key |-> Miss]

-----------------------------------------------------------------------------
\* tlb_cache_write.
Store(p, g, f) ==
  IF tlb[<<p, g>>] # Miss \/ Cardinality(Stored) < TLBSZ
    THEN tlb' = [tlb EXCEPT ![<<p, g>>] = f]
    ELSE \E v \in Stored : tlb' = [tlb EXCEPT ![v] = Miss, ![<<p, g>>] = f]

\* tlb_cache_invalidate of the pages P.
Invalidate(p, P) ==
  tlb' = [k \in Key |-> IF k[1] = p /\ k[2] \in P THEN Miss ELSE tlb[k]]

Next == \E p \in Pid :
          \/ \E g \in Page, f \in Frame : Store(p, g, f)
          \/ \E g \in Page : Invalidate(p, {g})
          \/ Invalidate(p, Page)

Spec == Init /\ [][Next]_tlb
=============================================================================
