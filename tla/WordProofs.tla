----------------------------- MODULE WordProofs -----------------------------
(***************************************************************************)
(* What the field operators of mm.h and cpu-tlbcache.h do to a word: a     *)
(* field reads back the value that was put into it, and writing one field  *)
(* does not disturb another.                                               *)
(***************************************************************************)
EXTENDS Word, WellFoundedInduction, TLAPS

\* Shifting left and then right by the same distance gives the number back.
LEMMA ShrShl ==
  ASSUME NEW k \in Nat, NEW v \in SUBSET Nat
  PROVE  Shr(Shl(v, k), k) = v
<1>1. \A b \in Shr(Shl(v, k), k) : b \in v
  BY DEF Shl, Shr
<1>2. \A b \in v : b + k \in Shl(v, k) \ (0 .. k - 1) /\ b = (b + k) - k
  BY DEF Shl
<1>3. \A b \in v : b \in Shr(Shl(v, k), k)
  BY <1>2 DEF Shr
<1> QED BY <1>1, <1>3

\* GETVAL reads what SETVAL wrote, if the value fits the field.
LEMMA SetGetSame ==
  ASSUME NEW v, NEW l \in Nat, NEW h \in Nat, NEW value,
         \A b \in value : b \in Nat /\ b + l <= h
  PROVE  GETVAL(SETVAL(v, value, l .. h, l), l .. h, l) = value
<1>1. Shl(value, l) \subseteq l .. h
  BY DEF Shl
<1>2. SETVAL(v, value, l .. h, l) \cap (l .. h) = Shl(value, l)
  BY <1>1 DEF SETVAL
<1>3. value \in SUBSET Nat
  OBVIOUS
<1> QED BY <1>2, <1>3, ShrShl DEF GETVAL

\* GETVAL of one field is not changed by SETVAL of a disjoint one.
LEMMA SetGetOther ==
  ASSUME NEW v, NEW value, NEW m, NEW o, NEW mask, NEW offst,
         m \cap mask = {}
  PROVE  GETVAL(SETVAL(v, value, m, o), mask, offst) = GETVAL(v, mask, offst)
<1>1. SETVAL(v, value, m, o) \cap mask = v \cap mask
  BY DEF SETVAL
<1> QED BY <1>1 DEF GETVAL

\* A field of one bit reads as it was set.
LEMMA SetGetBit ==
  ASSUME NEW v, NEW k \in Nat
  PROVE  /\ GETVAL(SETVAL(v, {0}, {k}, k), {k}, k) = {0}
         /\ GETVAL(SETVAL(v, {}, {k}, k), {k}, k) = {}
<1>1. /\ SETVAL(v, {0}, {k}, k) \cap {k} = {k}
      /\ SETVAL(v, {}, {k}, k) \cap {k} = {}
  BY DEF SETVAL, Shl
<1>2. Shr({k}, k) = {0} /\ Shr({}, k) = {}
  BY DEF Shr
<1> QED BY <1>1, <1>2 DEF GETVAL

\* SETVAL sets no bit outside the word and the field.
LEMMA SetBits ==
  ASSUME NEW v, NEW value, NEW m, NEW o
  PROVE  \A b \in SETVAL(v, value, m, o) : b \in v \/ b \in m
BY DEF SETVAL

\* A number that is read from a field is one that fits it.
LEMMA GetFits ==
  ASSUME NEW v, NEW l \in Nat, NEW h \in Nat
  PROVE  GETVAL(v, l .. h, l) \in SUBSET (0 .. h - l)
BY DEF GETVAL, Shr

\* A set of numbers has a least element: what the scanning loops find.
LEMMA LeastExists ==
  ASSUME NEW S \in SUBSET Nat, S # {}
  PROVE  \E n \in S : \A m \in S : n <= m
<1> DEFINE R == {r \in Nat \X Nat : r[1] < r[2]}
<1>1. IsWellFoundedOn(R, Nat)
  BY NatLessThanWellFounded DEF OpToRel
<1>2. \E n \in S : \A m \in S : ~ (<<m, n>> \in R)
  BY <1>1, WFMin
<1>3. \A m, n \in Nat : ~ (<<m, n>> \in R) => n <= m
  OBVIOUS
<1> QED BY <1>2, <1>3
=============================================================================
