---------------------------- MODULE PagingProofs ----------------------------
(***************************************************************************)
(* Proofs about the memory of a process, for every number of CPUs,         *)
(* processes, regions, pages and frames and every mix of instructions, the *)
(* unlocked READ included: what belongs to one process is changed only by  *)
(* the CPU that runs it.                                                   *)
(***************************************************************************)
EXTENDS Paging, FiniteSetTheorems, FunctionTheorems, WellFoundedInduction, TLAPS

-----------------------------------------------------------------------------
(* Arithmetic of pages.                                                    *)

\* The number PAGESZ is positive; kept apart because SizeAssumption is about a
\* set.
LEMMA Sizes ==
  /\ PAGESZ \in Nat /\ PAGESZ > 0
  /\ NRam \in Nat /\ NRam > 0 /\ NSwp \in Nat /\ NSwp > 0
  /\ TLBSZ \in Nat /\ TLBSZ > 0 /\ NPage \in Nat /\ NPage > 0
  /\ MaxSize \in Nat /\ MaxSize > 0
BY SizeAssumption

LEMMA PageOrder ==
  ASSUME NEW a \in Int, NEW b \in Int
  PROVE  /\ a <= b <=> a * PAGESZ <= b * PAGESZ
         /\ a < b <=> a * PAGESZ < b * PAGESZ
         /\ a = b <=> a * PAGESZ = b * PAGESZ
BY Sizes

LEMMA PageSum ==
  ASSUME NEW a \in Int, NEW b \in Int
  PROVE  /\ (a + b) * PAGESZ = a * PAGESZ + b * PAGESZ
         /\ (a - b) * PAGESZ = a * PAGESZ - b * PAGESZ
         /\ a * PAGESZ \in Int
BY Sizes

LEMMA PageOfStart == \A a \in Nat : (a * PAGESZ) \div PAGESZ = a
BY Sizes

\* The page of an address.
LEMMA PageOfAddress ==
  ASSUME NEW a \in Nat
  PROVE  LET g == a \div PAGESZ
         IN  g \in Nat /\ g * PAGESZ <= a /\ a < (g + 1) * PAGESZ
BY Sizes

\* PAGING_PAGE_ALIGNSZ rounds up to whole pages.
LEMMA AlignUp ==
  ASSUME NEW sz \in Nat
  PROVE  LET n == AlignSz(sz) \div PAGESZ
         IN  /\ n \in Nat /\ AlignSz(sz) = n * PAGESZ
             /\ sz <= n * PAGESZ /\ (n - 1) * PAGESZ < sz
             /\ n = 0 <=> sz = 0
<1> DEFINE n == (sz + PAGESZ - 1) \div PAGESZ
<1>1. /\ n \in Nat /\ n * PAGESZ <= sz + PAGESZ - 1
      /\ sz + PAGESZ - 1 < (n + 1) * PAGESZ
  BY Sizes, PageOfAddress
<1>2. AlignSz(sz) = n * PAGESZ /\ AlignSz(sz) \div PAGESZ = n
  BY <1>1, PageOfStart DEF AlignSz
<1> HIDE DEF n
<1>3. (n + 1) * PAGESZ = n * PAGESZ + PAGESZ /\ (n - 1) * PAGESZ = n * PAGESZ - PAGESZ
  BY <1>1, Sizes
<1>4. n * PAGESZ \in Int
  BY <1>1, Sizes
<1>5. sz <= n * PAGESZ /\ (n - 1) * PAGESZ < sz
  BY <1>1, <1>3, <1>4, Sizes
<1>6. n = 0 <=> sz = 0
  BY <1>1, <1>3, <1>5, Sizes
<1> QED BY <1>1, <1>2, <1>5, <1>6

-----------------------------------------------------------------------------
(* Regions.                                                                *)

\* A region that is not empty and begins with a page.
Good(r) == /\ r \in Region /\ r.s < r.e
           /\ \E a \in Nat : r.s = a * PAGESZ

\* Its pages are those that begin in it.
LEMMA RegionPages ==
  ASSUME NEW r, Good(r)
  PROVE  /\ r.s \in Nat /\ r.e \in Nat /\ r.s = (r.s \div PAGESZ) * PAGESZ
         /\ r.s \div PAGESZ \in Nat
         /\ NumPages(r) \in Nat /\ NumPages(r) > 0
         /\ r.e <= (r.s \div PAGESZ + NumPages(r)) * PAGESZ
         /\ (r.s \div PAGESZ + NumPages(r) - 1) * PAGESZ < r.e
         /\ PagesOf(r) = (r.s \div PAGESZ) .. (r.s \div PAGESZ + NumPages(r) - 1)
         /\ \A g \in Nat : g \in PagesOf(r) <=> r.s <= g * PAGESZ /\ g * PAGESZ < r.e
<1>1. r.s \in Nat /\ r.e \in Nat
  BY DEF Good, Region
<1>2. PICK a \in Nat : r.s = a * PAGESZ
  BY DEF Good
<1>3. r.s \div PAGESZ = a
  BY <1>2, PageOfStart
<1> DEFINE n == NumPages(r)
<1>4. /\ n \in Nat /\ r.e - r.s <= n * PAGESZ /\ (n - 1) * PAGESZ < r.e - r.s
      /\ n # 0
  <2>1. r.e - r.s \in Nat /\ r.e - r.s # 0
    BY <1>1 DEF Good
  <2> QED BY <2>1, AlignUp DEF NumPages
<1> HIDE DEF n
<1>5. /\ (a + n) * PAGESZ = a * PAGESZ + n * PAGESZ
      /\ (a + n - 1) * PAGESZ = a * PAGESZ + (n - 1) * PAGESZ
      /\ a * PAGESZ \in Int /\ n * PAGESZ \in Int /\ (n - 1) * PAGESZ \in Int
  BY <1>2, <1>4, PageSum, Sizes
<1>6. r.e <= (a + n) * PAGESZ /\ (a + n - 1) * PAGESZ < r.e
  BY <1>1, <1>2, <1>4, <1>5
<1>7. PagesOf(r) = a .. (a + n - 1)
  <2>1. PagesOf(r) = {a + i : i \in 0 .. n - 1}
    BY <1>3 DEF PagesOf, n
  <2>2. \A g \in a .. (a + n - 1) : g = a + (g - a) /\ g - a \in 0 .. n - 1
    BY <1>2, <1>4
  <2>3. \A i \in 0 .. n - 1 : a + i \in a .. (a + n - 1)
    BY <1>2, <1>4
  <2> QED BY <2>1, <2>2, <2>3
<1>8. ASSUME NEW g \in Nat
      PROVE  g \in PagesOf(r) <=> r.s <= g * PAGESZ /\ g * PAGESZ < r.e
  <2>1. a <= g <=> r.s <= g * PAGESZ
    BY <1>2, PageOrder
  <2>2. g < a + n => g <= a + n - 1
    BY <1>2, <1>4
  <2>3. g <= a + n - 1 => g * PAGESZ < r.e
    <3>1. g <= a + n - 1 => g * PAGESZ <= (a + n - 1) * PAGESZ
      BY <1>2, <1>4, PageOrder
    <3>2. g * PAGESZ \in Int /\ (a + n - 1) * PAGESZ \in Int
      BY <1>2, <1>4, PageSum
    <3> QED BY <1>1, <1>6, <3>1, <3>2
  <2>4. g * PAGESZ < r.e => g < a + n
    <3>1. g * PAGESZ < (a + n) * PAGESZ => g < a + n
      BY <1>2, <1>4, PageOrder
    <3>2. g * PAGESZ \in Int /\ (a + n) * PAGESZ \in Int
      BY <1>2, <1>4, PageSum
    <3> QED BY <1>1, <1>6, <3>1, <3>2
  <2> QED BY <1>2, <1>4, <1>7, <2>1, <2>2, <2>3, <2>4
<1> QED BY <1>1, <1>2, <1>3, <1>4, <1>6, <1>7, <1>8 DEF n

\* The entry of a region id that is not in use has no pages.
LEMMA NoRegionPages == PagesOf(NoRegion) = {} /\ NoRegion.s = 0 /\ NoRegion.e = 0
<1>1. AlignSz(0) \div PAGESZ = 0
  BY AlignUp
<1> QED BY <1>1 DEF PagesOf, NumPages, NoRegion

-----------------------------------------------------------------------------
(* The free list: get_free_vmrg_area.                                      *)

\* Induction, over a set of numbers.
LEMMA NumberInduction ==
  ASSUME NEW S, 0 \in S, \A n \in Nat : n \in S => n + 1 \in S
  PROVE  \A n \in Nat : n \in S
<1> DEFINE R == {r \in Nat \X Nat : r[1] < r[2]}
           B == Nat \ S
<1> SUFFICES ASSUME B # {} PROVE FALSE
  OBVIOUS
<1>1. IsWellFoundedOn(R, Nat)
  BY NatLessThanWellFounded DEF OpToRel
<1>2. PICK n \in B : \A m \in B : ~ (<<m, n>> \in R)
  BY <1>1, WFMin
<1>3. n # 0 /\ n - 1 \in Nat /\ <<n - 1, n>> \in R
  OBVIOUS
<1>4. n - 1 \in S
  BY <1>2, <1>3
<1>5. (n - 1) + 1 \in S
  BY <1>3, <1>4
<1> QED BY <1>5

\* Dropping the empty nodes keeps every other node, in its order.
LEMMA NonEmptyNodes ==
  ASSUME NEW fl, fl \in Seq(Region)
  PROVE  /\ NonEmpty(fl) \in Seq(Region)
         /\ \E m \in [1 .. Len(NonEmpty(fl)) -> 1 .. Len(fl)] :
              /\ \A j, k \in 1 .. Len(NonEmpty(fl)) : m[j] = m[k] => j = k
              /\ \A k \in 1 .. Len(NonEmpty(fl)) :
                   NonEmpty(fl)[k] = fl[m[k]] /\ fl[m[k]].s < fl[m[k]].e
<1> DEFINE Turn(i, s) == IF fl[i].s < fl[i].e THEN Append(s, fl[i]) ELSE s
           IsKept(f, j) == f = [i \in 0 .. j |->
                                 IF i = 0 THEN <<>>
                                 ELSE IF fl[i].s < fl[i].e
                                        THEN Append(f[i - 1], fl[i])
                                 ELSE f[i - 1]]
           kept == CHOOSE f : IsKept(f, Len(fl))
<1>1. Len(fl) \in Nat /\ \A i \in 1 .. Len(fl) : fl[i] \in Region
  OBVIOUS
<1>2. NonEmpty(fl) = kept[Len(fl)]
  BY DEF NonEmpty
<1> HIDE DEF kept
<1>3. ASSUME NEW f, NEW j \in Nat
      PROVE  IsKept(f, j) <=> /\ f = [i \in 0 .. j |-> f[i]]
                              /\ f[0] = <<>>
                              /\ \A i \in 1 .. j : f[i] = Turn(i, f[i - 1])
  <2> DEFINE F == [i \in 0 .. j |-> IF i = 0 THEN <<>>
                                    ELSE IF fl[i].s < fl[i].e
                                           THEN Append(f[i - 1], fl[i])
                                    ELSE f[i - 1]]
  <2>1. F[0] = <<>> /\ \A i \in 1 .. j : F[i] = Turn(i, f[i - 1])
    OBVIOUS
  <2>2. F = [i \in 0 .. j |-> F[i]] /\ \A i \in 0 .. j : i = 0 \/ i \in 1 .. j
    OBVIOUS
  <2>3. IsKept(f, j) <=> f = F
    OBVIOUS
  <2> HIDE DEF F, Turn, IsKept
  <2>4. ASSUME f = [i \in 0 .. j |-> f[i]], f[0] = <<>>,
               \A i \in 1 .. j : f[i] = Turn(i, f[i - 1])
        PROVE  f = F
    <3>1. \A i \in 0 .. j : f[i] = F[i]
      BY <2>1, <2>2, <2>4
    <3> QED BY <2>2, <2>4, <3>1
  <2> QED BY <2>1, <2>2, <2>3, <2>4
<1> HIDE DEF IsKept
<1>4. \E f : IsKept(f, Len(fl))
  <2> DEFINE S == {j \in Nat : \E f : IsKept(f, j)}
  <2>1. 0 \in S
    <3>1. IsKept([i \in 0 .. 0 |-> <<>>], 0)
      BY <1>3
    <3> QED BY <3>1
  <2>2. ASSUME NEW j \in Nat, j \in S PROVE j + 1 \in S
    <3>1. PICK f : IsKept(f, j)
      BY <2>2
    <3> DEFINE h == [i \in 0 .. j + 1 |-> IF i <= j THEN f[i]
                                          ELSE Turn(j + 1, f[j])]
    <3>2. \A i \in 0 .. j : h[i] = f[i]
      OBVIOUS
    <3>3. h[j + 1] = Turn(j + 1, h[j])
      BY <3>2
    <3>4. f[0] = <<>> /\ \A i \in 1 .. j : f[i] = Turn(i, f[i - 1])
      BY <1>3, <3>1
    <3>5. h[0] = <<>> /\ \A i \in 1 .. j + 1 : h[i] = Turn(i, h[i - 1])
      <4>1. ASSUME NEW i \in 1 .. j PROVE h[i] = Turn(i, h[i - 1])
        <5>1. i - 1 \in 0 .. j /\ i \in 0 .. j
          OBVIOUS
        <5> HIDE DEF h, Turn
        <5> QED BY <3>2, <3>4, <5>1
      <4>2. h[0] = f[0]
        BY <3>2
      <4> HIDE DEF h, Turn
      <4> QED BY <3>3, <3>4, <4>1, <4>2
    <3>6. h = [i \in 0 .. j + 1 |-> h[i]]
      OBVIOUS
    <3> HIDE DEF h
    <3>7. IsKept(h, j + 1)
      <4>1. j + 1 \in Nat
        OBVIOUS
      <4> HIDE DEF Turn
      <4> QED BY <1>3, <3>5, <3>6, <4>1
    <3> QED BY <3>7
  <2> HIDE DEF S
  <2>3. Len(fl) \in S
    BY <1>1, <2>1, <2>2, NumberInduction
  <2> QED BY <2>3 DEF S
<1>5. IsKept(kept, Len(fl))
  BY <1>4 DEF kept
<1>6. kept[0] = <<>> /\ \A i \in 1 .. Len(fl) : kept[i] = Turn(i, kept[i - 1])
  BY <1>1, <1>5, <1>3
<1> DEFINE Picks(m, k) ==
             /\ m \in [1 .. Len(kept[k]) -> 1 .. k]
             /\ \A x, y \in 1 .. Len(kept[k]) : m[x] = m[y] => x = y
             /\ \A x \in 1 .. Len(kept[k]) :
                  kept[k][x] = fl[m[x]] /\ fl[m[x]].s < fl[m[x]].e
           Q == {j \in Nat : j <= Len(fl) =>
                   kept[j] \in Seq(Region) /\ \E m : Picks(m, j)}
<1>7. 0 \in Q
  <2>1. Picks(<<>>, 0)
    BY <1>6
  <2>2. kept[0] \in Seq(Region)
    BY <1>6
  <2> HIDE DEF Picks
  <2> QED BY <2>1, <2>2
<1>8. ASSUME NEW j \in Nat, j \in Q PROVE j + 1 \in Q
  <2> SUFFICES ASSUME j + 1 <= Len(fl)
               PROVE  kept[j + 1] \in Seq(Region) /\ \E m : Picks(m, j + 1)
    OBVIOUS
  <2>1. kept[j] \in Seq(Region) /\ \E m : Picks(m, j)
    BY <1>1, <1>8
  <2>2. PICK m : Picks(m, j)
    BY <2>1
  <2>3. kept[j + 1] = Turn(j + 1, kept[j]) /\ fl[j + 1] \in Region
    BY <1>1, <1>6
  <2>4. CASE fl[j + 1].s < fl[j + 1].e
    <3> DEFINE L == Len(kept[j])
               w == [x \in 1 .. L + 1 |-> IF x = L + 1 THEN j + 1 ELSE m[x]]
    <3>1. kept[j + 1] = Append(kept[j], fl[j + 1])
      BY <2>3, <2>4
    <3>2. /\ L \in Nat /\ Len(kept[j + 1]) = L + 1
          /\ kept[j + 1] \in Seq(Region)
          /\ \A x \in 1 .. L : kept[j + 1][x] = kept[j][x]
          /\ kept[j + 1][L + 1] = fl[j + 1]
      BY <2>1, <2>3, <3>1
    <3>3. \A x \in 1 .. L : m[x] \in 1 .. j
      BY <2>2
    <3>4. w \in [1 .. L + 1 -> 1 .. j + 1]
      BY <3>2, <3>3
    <3>5. \A x, y \in 1 .. L + 1 : w[x] = w[y] => x = y
      BY <2>2, <3>2, <3>3
    <3>6. \A x \in 1 .. L + 1 :
            kept[j + 1][x] = fl[w[x]] /\ fl[w[x]].s < fl[w[x]].e
      BY <2>2, <2>4, <3>2
    <3>7. Picks(w, j + 1)
      BY <3>2, <3>4, <3>5, <3>6
    <3> QED BY <3>2, <3>7
  <2>5. CASE ~ (fl[j + 1].s < fl[j + 1].e)
    <3>1. kept[j + 1] = kept[j]
      BY <2>3, <2>5
    <3>2. m \in [1 .. Len(kept[j]) -> 1 .. j + 1]
      BY <2>2
    <3>3. Picks(m, j + 1)
      BY <2>2, <3>1, <3>2
    <3> QED BY <2>1, <3>1, <3>3
  <2> QED BY <2>4, <2>5
<1> HIDE DEF Q
<1>9. Len(fl) \in Q
  BY <1>1, <1>7, <1>8, NumberInduction
<1> QED BY <1>2, <1>9 DEF Q

LEMMA Remainder ==
  \A x, k \in Nat : k > 0 => x % k = x - k * (x \div k)
OBVIOUS

\* Left keeps the end of a region and cuts whole pieces off its beginning.
LEMMA LeftOf ==
  ASSUME NEW r, Good(r), NEW n \in Nat, n > 0
  PROVE  LET sz == n * PAGESZ
             l == Left(r, sz)
         IN  /\ l \in Region /\ l.e = r.e /\ r.s <= l.s
             /\ \E a \in Nat : l.s = a * PAGESZ
             /\ r.s + sz <= r.e => /\ r.s + sz <= l.s
                                   /\ \E a \in Nat : l.s - sz = a * PAGESZ
<1> DEFINE sz == n * PAGESZ
           l == Left(r, sz)
           x == r.e - r.s
           d == x \div sz
           m == x % sz
<1>1. r.s \in Nat /\ r.e \in Nat /\ x \in Nat /\ NPage * PAGESZ \in Nat /\ r.e <= NPage * PAGESZ
  BY Sizes DEF Good, Region
<1>2. sz \in Nat /\ sz > 0
  BY Sizes
<1>3. PICK a \in Nat : r.s = a * PAGESZ
  BY DEF Good
<1> HIDE DEF sz
<1>4. d \in Nat /\ m \in 0 .. sz - 1 /\ x = d * sz + m
  <2>1. d \in Nat /\ m \in 0 .. sz - 1
    BY <1>1, <1>2
  <2>2. m = x - sz * d
    BY <1>1, <1>2, Remainder
  <2>3. sz * d = d * sz
    BY <1>2, <2>1
  <2> QED BY <1>1, <1>2, <2>1, <2>2, <2>3
<1>5. r.s + sz <= r.e => d >= 1
  BY <1>1, <1>2
<1>6. l = [s |-> r.e - m, e |-> r.e]
  BY DEF Left, Good, Region
<1> HIDE DEF d, m
<1>7. r.e - m = r.s + d * sz /\ d * sz \in Nat
  BY <1>1, <1>2, <1>4
<1>8. l.s = r.s + d * sz /\ l.e = r.e
  BY <1>6, <1>7
<1>9. d * sz = (d * n) * PAGESZ /\ d * n \in Nat
  BY <1>4, Sizes DEF sz
<1>10. l.s = (a + d * n) * PAGESZ /\ a + d * n \in Nat
  <2> DEFINE k == d * n
  <2> HIDE DEF k
  <2>1. k \in Nat /\ d * sz = k * PAGESZ
    BY <1>9 DEF k
  <2>2. (a + k) * PAGESZ = a * PAGESZ + k * PAGESZ
    BY <2>1, PageSum
  <2>3. l.s = (a + k) * PAGESZ /\ a + k \in Nat
    BY <1>3, <1>8, <2>1, <2>2
  <2> QED BY <2>3 DEF k
<1>11. l.s <= r.e /\ r.s <= l.s
  BY <1>1, <1>4, <1>6, <1>7, <1>8
<1>12. l \in Region
  BY <1>1, <1>4, <1>6, <1>7, <1>8, <1>11 DEF Region
<1>13. ASSUME d >= 1
       PROVE  r.s + sz <= l.s /\ \E b \in Nat : l.s - sz = b * PAGESZ
  <2>1. d - 1 \in Nat /\ d * sz = (d - 1) * sz + sz /\ (d - 1) * sz \in Nat
    BY <1>2, <1>4, <1>13
  <2>2. (d - 1) * sz = ((d - 1) * n) * PAGESZ /\ (d - 1) * n \in Nat
    BY <2>1, Sizes DEF sz
  <2>3. l.s - sz = r.s + (d - 1) * sz
    BY <1>1, <1>2, <1>8, <2>1
  <2>4. r.s + (d - 1) * sz = (a + (d - 1) * n) * PAGESZ
    BY <1>3, <2>2, PageSum
  <2> QED BY <1>1, <1>2, <1>8, <2>1, <2>2, <2>3, <2>4
<1>14. r.s + sz <= r.e =>
         r.s + sz <= l.s /\ \E b \in Nat : l.s - sz = b * PAGESZ
  BY <1>5, <1>13
<1> QED BY <1>8, <1>10, <1>11, <1>12, <1>14 DEF sz

\* A set of indices has a least and a greatest element.
LEMMA Extremes ==
  ASSUME NEW n \in Nat, NEW S \in SUBSET (1 .. n), S # {}
  PROVE  /\ Max(S) \in S /\ \A y \in S : Max(S) >= y
         /\ Min(S) \in S /\ \A y \in S : Min(S) <= y
<1> DEFINE Lo == {k \in Nat : (\E x \in S : x <= k) =>
                                \E x \in S : \A y \in S : x <= y}
           Hi == {k \in Nat : (\E x \in S : n - x <= k) =>
                                \E x \in S : \A y \in S : x >= y}
<1>1. 0 \in Lo /\ 0 \in Hi
  OBVIOUS
<1>2. ASSUME NEW k \in Nat PROVE k \in Lo => k + 1 \in Lo
  <2>1. \A x \in S : x <= k + 1 => x <= k \/ x = k + 1
    OBVIOUS
  <2> QED BY <2>1
<1>3. ASSUME NEW k \in Nat PROVE k \in Hi => k + 1 \in Hi
  <2>1. \A x \in S : n - x <= k + 1 => n - x <= k \/ n - x = k + 1
    OBVIOUS
  <2> QED BY <2>1
<1>4. \A k \in Nat : k \in Lo
  <2> HIDE DEF Lo
  <2> QED BY <1>1, <1>2, NumberInduction
<1>5. \A k \in Nat : k \in Hi
  <2> HIDE DEF Hi
  <2> QED BY <1>1, <1>3, NumberInduction
<1>6. PICK z : z \in S
  OBVIOUS
<1>7. z \in Nat /\ n - z \in Nat /\ z <= z /\ n - z <= n - z
  BY <1>6
<1>8. (\E x \in S : \A y \in S : x <= y) /\ (\E x \in S : \A y \in S : x >= y)
  BY <1>4, <1>5, <1>6, <1>7
<1> QED BY <1>8 DEF Max, Min

\* A list of regions that are not empty and begin with a page.
GoodList(fl) == /\ fl \in Seq(Region)
                /\ \A i \in 1 .. Len(fl) : Good(fl[i])

\* Every node of the list after the cut is what is left of a node of its own.
CutOf(cl, fl, sz) ==
  \E m \in [1 .. Len(cl) -> 1 .. Len(fl)] :
    /\ \A j, k \in 1 .. Len(cl) : m[j] = m[k] => j = k
    /\ \A k \in 1 .. Len(cl) :
         /\ cl[k] = Left(fl[m[k]], sz)
         /\ fl[m[k]].s <= cl[k].s /\ cl[k].e = fl[m[k]].e

LEMMA CarveNodes ==
  ASSUME NEW fl, GoodList(fl), NEW n \in Nat, n > 0
  PROVE  /\ GoodList(Carve(fl, n * PAGESZ))
         /\ CutOf(Carve(fl, n * PAGESZ), fl, n * PAGESZ)
<1> DEFINE sz == n * PAGESZ
           ll == [i \in DOMAIN fl |-> Left(fl[i], sz)]
           cl == Carve(fl, sz)
<1>1. fl \in Seq(Region) /\ DOMAIN fl = 1 .. Len(fl) /\ Len(fl) \in Nat
  BY DEF GoodList
<1>2. \A i \in 1 .. Len(fl) :
        /\ ll[i] = Left(fl[i], sz) /\ ll[i] \in Region
        /\ ll[i].e = fl[i].e /\ fl[i].s <= ll[i].s
        /\ \E a \in Nat : ll[i].s = a * PAGESZ
  BY <1>1, LeftOf DEF GoodList
<1>3. ll \in Seq(Region) /\ Len(ll) = Len(fl)
  BY <1>1, <1>2
<1>4. cl = NonEmpty(ll)
  BY DEF Carve
<1> HIDE DEF ll, sz, cl
<1>5. /\ cl \in Seq(Region)
      /\ \E m \in [1 .. Len(cl) -> 1 .. Len(ll)] :
           /\ \A j, k \in 1 .. Len(cl) : m[j] = m[k] => j = k
           /\ \A k \in 1 .. Len(cl) : cl[k] = ll[m[k]] /\ ll[m[k]].s < ll[m[k]].e
  BY <1>3, <1>4, NonEmptyNodes, SMTT(30)
<1>6. PICK m \in [1 .. Len(cl) -> 1 .. Len(fl)] :
           /\ \A j, k \in 1 .. Len(cl) : m[j] = m[k] => j = k
           /\ \A k \in 1 .. Len(cl) : cl[k] = ll[m[k]] /\ ll[m[k]].s < ll[m[k]].e
  BY <1>3, <1>5
<1>7. ASSUME NEW k \in 1 .. Len(cl)
      PROVE  /\ Good(cl[k]) /\ cl[k] = Left(fl[m[k]], sz)
             /\ fl[m[k]].s <= cl[k].s /\ cl[k].e = fl[m[k]].e
  BY <1>2, <1>6 DEF Good
<1>8. GoodList(cl)
  BY <1>5, <1>7 DEF GoodList
<1> QED BY <1>6, <1>7, <1>8 DEF sz, cl, CutOf

\* The piece for the caller is the end of what is cut off some node.
LEMMA PieceOf ==
  ASSUME NEW fl, GoodList(fl), NEW n \in Nat, n > 0,
         Fits(fl, n * PAGESZ) # {}
  PROVE  LET sz == n * PAGESZ
             new == Piece(fl, sz)
         IN  /\ Good(new) /\ new.e = new.s + sz
             /\ \E i \in 1 .. Len(fl) : /\ fl[i].s <= new.s /\ new.e <= fl[i].e
                                        /\ new.e = Left(fl[i], sz).s
<1> DEFINE sz == n * PAGESZ
           F == Fits(fl, sz)
           i == Max(F)
           l == Left(fl[i], sz)
<1>1. fl \in Seq(Region) /\ DOMAIN fl = 1 .. Len(fl) /\ Len(fl) \in Nat
  BY DEF GoodList
<1>2. F \in SUBSET (1 .. Len(fl)) /\ F # {}
  BY <1>1 DEF Fits
<1>3. i \in F
  <2> HIDE DEF F
  <2> QED BY <1>1, <1>2, Extremes
<1>4. i \in 1 .. Len(fl) /\ fl[i].s + sz <= fl[i].e /\ Good(fl[i])
  BY <1>1, <1>3 DEF Fits, GoodList
<1>5. Piece(fl, sz) = [s |-> l.s - sz, e |-> l.s]
  BY DEF Piece
<1> HIDE DEF i, F
<1>6. /\ l \in Region /\ l.e = fl[i].e /\ fl[i].s + sz <= l.s
      /\ \E a \in Nat : l.s - sz = a * PAGESZ
  BY <1>4, LeftOf
<1>7. l.s \in 0 .. NPage * PAGESZ /\ fl[i].s \in Nat /\ sz \in Nat /\ sz > 0
  <2>1. l.s \in 0 .. NPage * PAGESZ /\ fl[i].s \in Nat
    <3> HIDE DEF l, sz
    <3> QED BY <1>4, <1>6 DEF Region, Good
  <2>2. sz \in Nat /\ sz > 0
    BY Sizes
  <2> QED BY <2>1, <2>2
<1>8. fl[i].e \in Nat /\ NPage * PAGESZ \in Nat /\ l.s <= fl[i].e
  <2>1. fl[i].e \in Nat /\ NPage * PAGESZ \in Nat /\ fl[i].s \in Nat
    BY <1>4, Sizes DEF Region, Good
  <2>2. l.s = fl[i].e - ((fl[i].e - fl[i].s) % sz)
    BY <1>4 DEF Left, Region, Good
  <2>3. fl[i].e - fl[i].s \in Nat
    BY <1>4, <2>1 DEF Good
  <2>4. (fl[i].e - fl[i].s) % sz \in Nat
    BY <1>7, <2>3
  <2> QED BY <2>1, <2>2, <2>4
<1> HIDE DEF l, sz
<1> DEFINE new == Piece(fl, sz)
<1>9. new.s = l.s - sz /\ new.e = l.s /\ new = [s |-> l.s - sz, e |-> l.s]
  BY <1>5
<1>10. fl[i].s <= new.s /\ new.s \in Nat /\ new.e = new.s + sz /\ new.s < new.e
  BY <1>6, <1>7, <1>9
<1>11. Good(new)
  BY <1>6, <1>7, <1>8, <1>9, <1>10 DEF Good, Region
<1> QED BY <1>4, <1>8, <1>9, <1>10, <1>11 DEF l, sz

-----------------------------------------------------------------------------
(* The lists of pages and frames.                                          *)

NoRepeat(s) == \A j, k \in 1 .. Len(s) : s[j] = s[k] => j = k

LEMMA Joined ==
  ASSUME NEW S, NEW a \in Seq(S), NEW b \in Seq(S)
  PROVE  LET t == a \o b
         IN  /\ t \in Seq(S) /\ Len(t) = Len(a) + Len(b)
             /\ Len(a) \in Nat /\ Len(b) \in Nat
             /\ \A k \in 1 .. Len(a) : t[k] = a[k]
             /\ \A k \in 1 .. Len(b) : t[Len(a) + k] = b[k]
OBVIOUS

\* Putting something at the head of a list.
LEMMA PutFirst ==
  ASSUME NEW S, NEW s \in Seq(S), NEW x \in S
  PROVE  LET t == <<x>> \o s
         IN  /\ t \in Seq(S) /\ Len(t) = Len(s) + 1
             /\ t[1] = x /\ \A k \in 1 .. Len(s) : t[k + 1] = s[k]
             /\ \A k \in 1 .. Len(t) : k = 1 \/ (k - 1 \in 1 .. Len(s) /\ t[k] = s[k - 1])
             /\ NoRepeat(s) /\ (\A k \in 1 .. Len(s) : s[k] # x) => NoRepeat(t)
BY DEF NoRepeat

\* Taking the head or the last element off a list.
LEMMA TakeFirst ==
  ASSUME NEW S, NEW s \in Seq(S), s # <<>>
  PROVE  /\ Tail(s) \in Seq(S) /\ Len(Tail(s)) = Len(s) - 1 /\ Len(s) \in Nat \ {0}
         /\ Head(s) = s[1] /\ Head(s) \in S
         /\ \A k \in 1 .. Len(Tail(s)) : k + 1 \in 1 .. Len(s) /\ Tail(s)[k] = s[k + 1]
         /\ NoRepeat(s) => NoRepeat(Tail(s)) /\ \A k \in 1 .. Len(Tail(s)) : Tail(s)[k] # Head(s)
BY DEF NoRepeat

LEMMA TakeLast ==
  ASSUME NEW S, NEW s \in Seq(S), s # <<>>
  PROVE  /\ Front(s) \in Seq(S) /\ Len(Front(s)) = Len(s) - 1 /\ Len(s) \in Nat \ {0}
         /\ Last(s) = s[Len(s)] /\ Last(s) \in S
         /\ \A k \in 1 .. Len(Front(s)) : k \in 1 .. Len(s) /\ Front(s)[k] = s[k]
         /\ NoRepeat(s) => NoRepeat(Front(s)) /\ \A k \in 1 .. Len(Front(s)) : Front(s)[k] # Last(s)
<1>1. Len(s) \in Nat \ {0} /\ Front(s) = SubSeq(s, 1, Len(s) - 1) /\ Last(s) = s[Len(s)]
  BY DEF Front, Last
<1>2. /\ Front(s) \in Seq(S) /\ Len(Front(s)) = Len(s) - 1
      /\ \A k \in 1 .. Len(Front(s)) : k \in 1 .. Len(s) /\ Front(s)[k] = s[k]
  <2> DEFINE n == Len(s) - 1
             f == SubSeq(s, 1, n)
  <2>1. n \in Nat /\ n <= Len(s)
    BY <1>1
  <2> HIDE DEF n
  <2>2. f \in Seq(S) /\ Len(f) = n /\ \A k \in 1 .. Len(f) : f[k] = s[k]
    BY <2>1
  <2>3. Front(s) = f
    BY <1>1 DEF n
  <2> HIDE DEF f
  <2> QED BY <1>1, <2>2, <2>3 DEF n
<1>3. Last(s) \in S
  BY <1>1
<1> DEFINE f == Front(s)
           l == Last(s)
<1> HIDE DEF f, l
<1>4. NoRepeat(s) => NoRepeat(f) /\ \A k \in 1 .. Len(f) : f[k] # l
  BY <1>1, <1>2 DEF NoRepeat, f, l
<1> QED BY <1>1, <1>2, <1>3, <1>4 DEF f, l

\* clear_pgn_node takes a page off a list that has it at most once.
LEMMA ClearedList ==
  ASSUME NEW S, NEW s \in Seq(S), NEW g, NoRepeat(s)
  PROVE  LET t == ClearPgnNode(s, g)
         IN  /\ t \in Seq(S) /\ NoRepeat(t)
             /\ \A k \in 1 .. Len(t) :
                  t[k] # g /\ \E j \in 1 .. Len(s) : t[k] = s[j]
<1> DEFINE t == ClearPgnNode(s, g)
           I == {j \in 1 .. Len(s) : s[j] = g}
           x == Min(I)
<1>1. CASE I = {}
  BY <1>1 DEF ClearPgnNode, RemoveFirst
<1>2. CASE I # {}
  <2>1. x \in I
    <3>1. I \in SUBSET (1 .. Len(s)) /\ Len(s) \in Nat
      OBVIOUS
    <3> HIDE DEF I
    <3> QED BY <1>2, <3>1, Extremes
  <2>2. t = SubSeq(s, 1, x - 1) \o SubSeq(s, x + 1, Len(s))
    BY <1>2 DEF ClearPgnNode, RemoveFirst, RemoveAt, SelectInSeq
  <2>3. x \in 1 .. Len(s) /\ s[x] = g
    BY <2>1
  <2> HIDE DEF x, I
  <2>4. /\ t \in Seq(S) /\ Len(t) = Len(s) - 1
        /\ \A k \in 1 .. Len(t) : t[k] = IF k < x THEN s[k] ELSE s[k + 1]
    <3> DEFINE a == SubSeq(s, 1, x - 1)
               b == SubSeq(s, x + 1, Len(s))
    <3>1. /\ a \in Seq(S) /\ Len(a) = x - 1 /\ \A k \in 1 .. Len(a) : a[k] = s[k]
          /\ b \in Seq(S) /\ Len(b) = Len(s) - x
          /\ \A k \in 1 .. Len(b) : b[k] = s[x + k]
      BY <2>3
    <3> HIDE DEF a, b
    <3>2. /\ t = a \o b /\ t \in Seq(S) /\ Len(t) = Len(a) + Len(b)
          /\ \A k \in 1 .. Len(a) : t[k] = a[k]
          /\ \A k \in 1 .. Len(b) : t[Len(a) + k] = b[k]
      <4>1. t = a \o b
        BY <2>2 DEF a, b
      <4> HIDE DEF t
      <4>2. a \in Seq(S) /\ b \in Seq(S)
        BY <3>1
      <4> QED BY <4>1, <4>2, Joined
    <3> HIDE DEF t
    <3>3. Len(t) = Len(s) - 1 /\ \A k \in 1 .. Len(t) : k < x => t[k] = s[k]
      BY <2>3, <3>1, <3>2
    <3>4. ASSUME NEW k \in 1 .. Len(t), ~ (k < x) PROVE t[k] = s[k + 1]
      <4> DEFINE m == k - Len(a)
      <4>1. m \in 1 .. Len(b) /\ k = Len(a) + m /\ x + m = k + 1
        BY <2>3, <3>1, <3>3, <3>4
      <4> HIDE DEF m
      <4> QED BY <3>1, <3>2, <4>1
    <3> QED BY <3>2, <3>3, <3>4
  <2> HIDE DEF t
  <2>5. \A k \in 1 .. Len(t) : t[k] # g /\ \E j \in 1 .. Len(s) : t[k] = s[j]
    BY <2>3, <2>4 DEF NoRepeat
  <2>6. NoRepeat(t)
    BY <2>3, <2>4 DEF NoRepeat
  <2> QED BY <2>4, <2>5, <2>6 DEF t
<1> QED BY <1>1, <1>2

-----------------------------------------------------------------------------
(* The inductive invariant.  A process runs on at most one CPU, so whatever *)
(* belongs to it changes only in the steps of that CPU.                    *)

SwpHand == SwpFrame \cup {NoFrame}

OpSet == [pc : Pc, pid : Pid, rg : Rg, start : Page, n : Nat, i : Nat,
          frm : Seq(RamFrame), size : Nat, reuse : BOOLEAN,
          peek : Seq(RamFrame), back : SwpHand,
          node : Seq(SwpFrame)]

\* The types; freerg, fifo and op are functions.
Types ==
  /\ lock \in Cpu \cup {NoCpu}
  /\ op \in [Cpu -> OpSet \cup {NoOp}]
  /\ sym \in [Pid -> [Rg -> Region]]
  /\ freerg \in [Pid -> Seq(Region)]
  /\ sbrk \in [Pid -> 0 .. NPage * PAGESZ]
  /\ pgd \in [Pid -> [Page -> Pte]]
  /\ fifo \in [Pid -> Seq(Page)]
  /\ freeRam \in Seq(RamFrame) /\ freeSwp \in Seq(SwpFrame)
  /\ ram \in [RamFrame -> Label] /\ swp \in [SwpFrame -> Label]
  /\ tlb \in [Pid \X Page -> RamFrame \cup {Miss}]
  /\ corrupt \subseteq Pid
  /\ written \subseteq Pid \X Page

\* A process has one instruction under way at a time, over pages there are.
OpInv ==
  /\ \A c \in Cpu : op[c] # NoOp => /\ op[c].i < op[c].n
                                    /\ op[c].start + op[c].n - 1 <= NPage
  /\ \A c, d \in Cpu :
       op[c] # NoOp /\ op[d] # NoOp /\ op[c].pid = op[d].pid => c = d

\* Regions begin with a page and end within the area.
AreaOf(p) ==
  /\ \E b \in Nat : sbrk[p] = b * PAGESZ
  /\ \A rg \in Rg : \/ sym[p][rg] = NoRegion
                    \/ Good(sym[p][rg]) /\ sym[p][rg].e <= sbrk[p]
  /\ \A k \in 1 .. Len(freerg[p]) :
       Good(freerg[p][k]) /\ freerg[p][k].e <= sbrk[p]

AreaInv == \A p \in Pid : AreaOf(p)

\* RegionsDisjoint for one process.
DisjointOf(p) ==
  /\ \A a, b \in Rg : a # b => ~ Overlap(sym[p][a], sym[p][b])
  /\ \A a \in Rg, k \in 1 .. Len(freerg[p]) : ~ Overlap(sym[p][a], freerg[p][k])
  /\ \A j, k \in 1 .. Len(freerg[p]) :
       j # k => ~ Overlap(freerg[p][j], freerg[p][k])

DisjointInv == \A p \in Pid : DisjointOf(p)

\* The region alloc_pages_range collects frames for: in the symbol table
\* already when it came from the free list, beyond all others when sbrk moved.
Collects(c) ==
  LET r == op[c]
      p == r.pid
  IN  /\ r.reuse => sym[p][r.rg] = [s |-> r.start * PAGESZ,
                                    e |-> (r.start + r.n) * PAGESZ]
      /\ ~ r.reuse =>
           /\ sbrk[p] = (r.start + r.n) * PAGESZ
           /\ r.size > 0 /\ r.size <= r.n * PAGESZ
           /\ \A rg \in Rg : sym[p][rg].e <= r.start * PAGESZ
           /\ \A k \in 1 .. Len(freerg[p]) : freerg[p][k].e <= r.start * PAGESZ
      /\ \A g \in r.start .. r.start + r.n - 1 : pgd[p][g] = Absent

\* The region __free is working on, and how far it is.
Releases(c) ==
  LET r == op[c]
      p == r.pid
      reg == sym[p][r.rg]
  IN  /\ Good(reg)
      /\ r.start = reg.s \div PAGESZ /\ r.n = NumPages(reg)
      /\ \A g \in r.start .. r.start + r.i - 1 : pgd[p][g] = Absent

WorkInv ==
  \A c \in Cpu : /\ op[c].pc = "frames" => Collects(c)
                 /\ op[c].pc = "free" => Releases(c)

\* A page begins in a region.
Within(r, g) == r.s <= g * PAGESZ /\ g * PAGESZ < r.e

\* Nothing is mapped beyond the area or in a free region.
AbsentOf(p) ==
  \A g \in Page :
    /\ sbrk[p] <= g * PAGESZ => pgd[p][g] = Absent
    /\ \A k \in 1 .. Len(freerg[p]) :
         Within(freerg[p][k], g) => pgd[p][g] = Absent

AbsentInv == \A p \in Pid : AbsentOf(p)

\* No hit for a region that is being freed.
FreeMissInv ==
  \A c \in Cpu : op[c].pc = "free" =>
    \A g \in op[c].start .. op[c].start + op[c].n - 1 :
      tlb[<<op[c].pid, g>>] = Miss

TlbInv == TlbCoherent /\ FreeMissInv

\* The TLB has room for what is in it.
RoomInv == IsFiniteSet(T!Stored) /\ Cardinality(T!Stored) <= TLBSZ

\* FifoSound, element by element.
FifoInv ==
  \A p \in Pid :
    /\ NoRepeat(fifo[p])
    /\ \A k \in 1 .. Len(fifo[p]) : pgd[p][fifo[p][k]].st = "ram"

\* A fault that has a swap frame to give back has its page in RAM, and the
\* page is not in fifo_pgn yet.
BackOf(c) ==
  /\ op[c].pc \in {"cache", "free", "read", "write"}
  /\ pgd[op[c].pid][Page0(c)].st = "ram"
  /\ \A k \in 1 .. Len(fifo[op[c].pid]) : fifo[op[c].pid][k] # Page0(c)

BackInv == \A c \in Cpu : Returning(c) => BackOf(c)

RegInv == AreaInv /\ DisjointInv /\ WorkInv /\ AbsentInv

IInv == Types /\ OpInv /\ RegInv /\ TlbInv /\ RoomInv /\ FifoInv /\ BackInv

-----------------------------------------------------------------------------
(* What the parts of an action do.                                         *)

LEMMA OpFacts ==
  ASSUME Types, NEW c \in Cpu
  PROVE  /\ op[c] = NoOp <=> op[c].pc = "idle"
         /\ op[c] # NoOp <=> op[c] \in OpSet
         /\ op[c] # NoOp <=> op[c].pc \in Pc
BY DEF Types, OpSet, NoOp, Pc

LEMMA PteFacts ==
  ASSUME Types, NEW p \in Pid, NEW g \in Page
  PROVE  /\ pgd[p][g] \in Pte /\ pgd[p][g].st \in {"absent", "ram", "swap"}
         /\ pgd[p][g].st = "absent" <=> pgd[p][g] = Absent
         /\ pgd[p][g].st = "ram" => pgd[p][g].n \in RamFrame /\ pgd[p][g] = InRam(pgd[p][g].n)
         /\ pgd[p][g].st = "swap" => pgd[p][g].n \in SwpFrame /\ pgd[p][g] = InSwp(pgd[p][g].n)
BY DEF Types, Pte, InRam, InSwp, Absent

\* An instruction begins or goes on.
LEMMA OpGoesOn ==
  ASSUME Types, OpInv, NEW c \in Cpu, NEW r \in OpSet,
         op' = [op EXCEPT ![c] = r],
         r.i < r.n, r.start + r.n - 1 <= NPage,
         \/ op[c] # NoOp /\ r.pid = op[c].pid
         \/ Runs(c, r.pid)
  PROVE  /\ op' \in [Cpu -> OpSet \cup {NoOp}] /\ OpInv'
         /\ op'[c] = r /\ \A d \in Cpu \ {c} : op'[d] = op[d]
         /\ \A d \in Cpu \ {c} : op[d] # NoOp => op[d].pid # r.pid
<1>1. /\ op' \in [Cpu -> OpSet \cup {NoOp}]
      /\ op'[c] = r /\ \A d \in Cpu \ {c} : op'[d] = op[d]
  BY DEF Types
<1>2. r # NoOp
  BY DEF OpSet, NoOp, Pc
<1>3. \A d \in Cpu \ {c} : op[d] # NoOp => op[d].pid # r.pid
  BY DEF OpInv, Runs
<1>4. OpInv'
  <2>1. ASSUME NEW d \in Cpu, op'[d] # NoOp
        PROVE  op'[d].i < op'[d].n /\ op'[d].start + op'[d].n - 1 <= NPage
    BY <1>1, <2>1 DEF OpInv
  <2>2. ASSUME NEW d \in Cpu, NEW e \in Cpu, op'[d] # NoOp, op'[e] # NoOp,
               op'[d].pid = op'[e].pid
        PROVE  d = e
    BY <1>1, <1>3, <2>2 DEF OpInv
  <2> QED BY <2>1, <2>2 DEF OpInv
<1> QED BY <1>1, <1>3, <1>4

LEMMA OpEnds ==
  ASSUME Types, OpInv, NEW c \in Cpu, End(c)
  PROVE  /\ op' \in [Cpu -> OpSet \cup {NoOp}] /\ OpInv'
         /\ op'[c] = NoOp /\ \A d \in Cpu \ {c} : op'[d] = op[d]
<1>1. /\ op' \in [Cpu -> OpSet \cup {NoOp}]
      /\ op'[c] = NoOp /\ \A d \in Cpu \ {c} : op'[d] = op[d]
  BY DEF Types, End
<1> QED BY <1>1 DEF OpInv

\* The instruction of c is under way: its fields, and no other CPU has it.
LEMMA Current ==
  ASSUME Types, OpInv, NEW c \in Cpu, op[c] # NoOp
  PROVE  /\ op[c] \in OpSet /\ op[c].pid \in Pid /\ op[c].rg \in Rg
         /\ op[c].start \in Page /\ op[c].n \in Nat /\ op[c].i \in Nat
         /\ op[c].frm \in Seq(RamFrame) /\ op[c].peek \in Seq(RamFrame)
         /\ op[c].back \in SwpHand /\ op[c].node \in Seq(SwpFrame)
         /\ op[c].size \in Nat /\ op[c].reuse \in BOOLEAN
         /\ Page0(c) \in Page
         /\ \A k \in 0 .. op[c].n - 1 : op[c].start + k \in Page
         /\ op[c].n >= 1 /\ op[c].start \in Nat
         /\ \A d \in Cpu \ {c} : op[d] # NoOp => op[d].pid # op[c].pid
<1>1. op[c] \in OpSet
  BY OpFacts
<1>2. /\ op[c].pid \in Pid /\ op[c].rg \in Rg
      /\ op[c].start \in Page /\ op[c].n \in Nat /\ op[c].i \in Nat
      /\ op[c].frm \in Seq(RamFrame) /\ op[c].peek \in Seq(RamFrame)
      /\ op[c].back \in SwpHand /\ op[c].node \in Seq(SwpFrame)
      /\ op[c].size \in Nat /\ op[c].reuse \in BOOLEAN
  BY <1>1 DEF OpSet
<1>3. op[c].i < op[c].n /\ op[c].start + op[c].n - 1 <= NPage
  BY DEF OpInv
<1>4. \A k \in 0 .. op[c].n - 1 : op[c].start + k \in Page
  <2>1. op[c].start \in Nat
    BY <1>2 DEF Page
  <2> TAKE k \in 0 .. op[c].n - 1
  <2>2. op[c].start + k <= op[c].start + op[c].n - 1
    BY <1>2, <2>1
  <2> QED BY <1>2, <1>3, <2>1, <2>2, Sizes DEF Page
<1>5. Page0(c) \in Page
  BY <1>2, <1>3, <1>4 DEF Page0
<1>6. \A d \in Cpu \ {c} : op[d] # NoOp => op[d].pid # op[c].pid
  BY DEF OpInv
<1> QED BY <1>1, <1>2, <1>3, <1>4, <1>5, <1>6 DEF Page

LEMMA SameCardinality == \A S : T!Cardinality(S) = Cardinality(S)
BY DEF T!Cardinality, Cardinality, T!IsFiniteSet, IsFiniteSet

\* tlb_cache_write.
LEMMA Stores ==
  ASSUME tlb \in [Pid \X Page -> RamFrame \cup {Miss}], RoomInv,
         NEW p \in Pid, NEW g \in Page, NEW f \in RamFrame, T!Store(p, g, f)
  PROVE  /\ tlb' \in [Pid \X Page -> RamFrame \cup {Miss}]
         /\ tlb'[<<p, g>>] = f
         /\ \A k \in Pid \X Page :
              k = <<p, g>> \/ tlb'[k] = tlb[k] \/ tlb'[k] = Miss
         /\ RoomInv'
<1> DEFINE S == T!Stored
           kk == <<p, g>>
<1>1. /\ kk \in Pid \X Page
      /\ T!Stored = {k \in Pid \X Page : tlb[k] # Miss}
      /\ T!Stored' = {k \in Pid \X Page : tlb'[k] # Miss}
  BY DEF T!Stored, T!Key
<1>2. f # Miss
  BY Sizes DEF RamFrame, Miss
<1>3. IsFiniteSet(S) /\ Cardinality(S) <= TLBSZ /\ Cardinality(S) \in Nat
  BY FS_CardinalityType DEF RoomInv
<1>4. IF tlb[kk] # Miss \/ Cardinality(S) < TLBSZ
        THEN tlb' = [tlb EXCEPT ![kk] = f]
        ELSE \E v \in S : tlb' = [tlb EXCEPT ![v] = Miss, ![kk] = f]
  BY SameCardinality DEF T!Store
<1>5. CASE tlb[kk] # Miss
  <2>1. tlb' = [tlb EXCEPT ![kk] = f]
    BY <1>4, <1>5
  <2>2. T!Stored' = S
    BY <1>1, <1>2, <1>5, <2>1
  <2> QED BY <1>1, <1>3, <2>1, <2>2 DEF RoomInv
<1>6. CASE tlb[kk] = Miss /\ Cardinality(S) < TLBSZ
  <2>1. tlb' = [tlb EXCEPT ![kk] = f]
    BY <1>4, <1>6
  <2>2. T!Stored' = S \cup {kk} /\ kk \notin S
    BY <1>1, <1>2, <1>6, <2>1
  <2> HIDE DEF S, kk
  <2>3. IsFiniteSet(S \cup {kk}) /\ Cardinality(S \cup {kk}) = Cardinality(S) + 1
    BY <1>3, <2>2, FS_AddElement
  <2>4. RoomInv'
    BY <1>3, <1>6, <2>2, <2>3, Sizes DEF RoomInv
  <2> QED BY <1>1, <2>1, <2>4 DEF kk
<1>7. CASE tlb[kk] = Miss /\ ~ (Cardinality(S) < TLBSZ)
  <2>1. PICK v \in S : tlb' = [tlb EXCEPT ![v] = Miss, ![kk] = f]
    BY <1>4, <1>7
  <2> DEFINE R == S \ {v}
  <2>2. T!Stored' = R \cup {kk} /\ kk \notin R /\ v # kk
    BY <1>1, <1>2, <1>7, <2>1
  <2> HIDE DEF S, kk
  <2>3. IsFiniteSet(R) /\ Cardinality(R) = Cardinality(S) - 1
    BY <1>3, FS_RemoveElement
  <2> HIDE DEF R
  <2>4. IsFiniteSet(R \cup {kk}) /\ Cardinality(R \cup {kk}) = Cardinality(R) + 1
    BY <2>2, <2>3, FS_AddElement
  <2>5. RoomInv'
    BY <1>3, <2>2, <2>3, <2>4, Sizes DEF RoomInv
  <2>6. v \in Pid \X Page
    BY <1>1 DEF S
  <2> QED BY <1>1, <2>1, <2>2, <2>5, <2>6 DEF kk
<1> QED BY <1>5, <1>6, <1>7

\* tlb_cache_invalidate.
LEMMA Invalidates ==
  ASSUME tlb \in [Pid \X Page -> RamFrame \cup {Miss}], RoomInv,
         NEW p \in Pid, NEW P, T!Invalidate(p, P)
  PROVE  /\ tlb' \in [Pid \X Page -> RamFrame \cup {Miss}]
         /\ \A g \in Page : g \in P => tlb'[<<p, g>>] = Miss
         /\ \A k \in Pid \X Page : tlb'[k] = tlb[k] \/ tlb'[k] = Miss
         /\ RoomInv'
<1>1. tlb' = [k \in Pid \X Page |-> IF k[1] = p /\ k[2] \in P THEN Miss ELSE tlb[k]]
  BY DEF T!Invalidate, T!Key
<1>2. T!Stored' \subseteq T!Stored
  BY <1>1 DEF T!Stored, T!Key
<1>3. IsFiniteSet(T!Stored') /\ Cardinality(T!Stored') <= Cardinality(T!Stored)
  BY <1>2, FS_Subset DEF RoomInv
<1>4. RoomInv'
  BY <1>3, FS_CardinalityType, Sizes DEF RoomInv
<1> QED BY <1>1, <1>4

-----------------------------------------------------------------------------
(* Types and instructions.                                                 *)

\* The size of an ALLOC in whole pages.
LEMMA AllocSize ==
  ASSUME NEW sz \in 1 .. MaxSize
  PROVE  LET n == AlignSz(sz) \div PAGESZ
         IN  /\ n \in Nat /\ n > 0 /\ AlignSz(sz) = n * PAGESZ
             /\ sz \in Nat /\ sz > 0 /\ sz <= n * PAGESZ
<1>1. sz \in Nat /\ sz # 0 /\ sz > 0
  BY Sizes
<1> QED BY <1>1, AlignUp

LEMMA FreeListGood ==
  ASSUME Types, AreaInv, NEW p \in Pid
  PROVE  GoodList(freerg[p])
BY DEF Types, AreaInv, AreaOf, GoodList

\* An address in range is in a page of the address space.
LEMMA AddressPage ==
  ASSUME Types, NEW p \in Pid, NEW rg \in Rg, NEW off \in 0 .. MaxSize,
         InRange(p, rg, off)
  PROVE  PageAt(p, rg, off) \in Page
<1> DEFINE a == sym[p][rg].s + off
           g == a \div PAGESZ
<1>1. sym[p][rg].s \in Nat /\ sym[p][rg].e \in 0 .. NPage * PAGESZ
  BY DEF Types, Region
<1>2. a \in Nat /\ a <= NPage * PAGESZ
  BY <1>1, Sizes DEF InRange
<1> HIDE DEF a
<1>3. g \in Nat /\ g * PAGESZ <= a
  BY <1>2, PageOfAddress
<1>4. g * PAGESZ <= NPage * PAGESZ
  BY <1>2, <1>3, Sizes
<1>5. g <= NPage
  BY <1>3, <1>4, PageOrder, Sizes
<1> QED BY <1>3, <1>5, Sizes DEF Page, PageAt, a

\* The pages of a region are pages of the address space.
LEMMA RegionInSpace ==
  ASSUME NEW r, Good(r)
  PROVE  /\ r.s \div PAGESZ \in Page /\ NumPages(r) \in Nat /\ NumPages(r) > 0
         /\ r.s \div PAGESZ + NumPages(r) - 1 <= NPage
<1> DEFINE a == r.s \div PAGESZ
           n == NumPages(r)
<1>1. a \in Nat /\ n \in Nat /\ n > 0 /\ (a + n - 1) * PAGESZ < r.e
  BY RegionPages
<1>2. r.e \in Nat /\ r.e <= NPage * PAGESZ
  BY Sizes DEF Good, Region
<1> HIDE DEF a, n
<1>3. (a + n - 1) * PAGESZ \in Int /\ NPage * PAGESZ \in Int
  BY <1>1, PageSum, Sizes
<1>4. (a + n - 1) * PAGESZ <= NPage * PAGESZ
  BY <1>1, <1>2, <1>3
<1>5. a + n - 1 <= NPage
  BY <1>1, <1>4, PageOrder, Sizes
<1> QED BY <1>1, <1>5, Sizes DEF Page, a, n

\* What ALLOC does to the regions, in pages.
LEMMA AllocEffect ==
  ASSUME IInv, NEW c \in Cpu, NEW p \in Pid, NEW rg \in Rg,
         NEW sz \in 1 .. MaxSize, Alloc(c, p, rg, sz)
  PROVE  \E start \in Page, n \in Nat, reuse \in BOOLEAN :
           LET r == OpRec("frames", p, rg, start, n, sz, reuse)
           IN  /\ n > 0 /\ start + n - 1 <= NPage /\ Begin(c, r)
               /\ start + n <= NPage
               /\ sz <= n * PAGESZ
               /\ IF reuse
                    THEN LET new == Piece(freerg[p], n * PAGESZ)
                         IN  /\ Good(new) /\ new.s = start * PAGESZ
                             /\ new.e = (start + n) * PAGESZ
                             /\ Fits(freerg[p], n * PAGESZ) # {}
                             /\ sym' = [sym EXCEPT ![p][rg] = new]
                             /\ freerg' = [freerg EXCEPT ![p] = Carve(@, n * PAGESZ)]
                             /\ sbrk' = sbrk
                    ELSE /\ sbrk[p] = start * PAGESZ
                         /\ sbrk' = [sbrk EXCEPT ![p] = (start + n) * PAGESZ]
                         /\ sym' = sym /\ freerg' = freerg
<1> DEFINE n == AlignSz(sz) \div PAGESZ
<1>1. n \in Nat /\ n > 0 /\ AlignSz(sz) = n * PAGESZ /\ sz \in Nat /\ sz <= n * PAGESZ
  BY AllocSize
<1> HIDE DEF n
<1>2. CASE AllocReuse(c, p, rg, sz)
  <2> DEFINE new == Piece(freerg[p], n * PAGESZ)
             start == new.s \div PAGESZ
             r == OpRec("frames", p, rg, start, n, sz, TRUE)
  <2>1. /\ Fits(freerg[p], n * PAGESZ) # {}
        /\ sym' = [sym EXCEPT ![p][rg] = new]
        /\ freerg' = [freerg EXCEPT ![p] = Carve(@, n * PAGESZ)]
        /\ Begin(c, r) /\ sbrk' = sbrk
    BY <1>1, <1>2 DEF AllocReuse, n
  <2>2. GoodList(freerg[p])
    BY FreeListGood DEF IInv, RegInv
  <2>3. Good(new) /\ new.e = new.s + n * PAGESZ
    BY <1>1, <2>1, <2>2, PieceOf
  <2> HIDE DEF new
  <2>4. new.s \in Nat /\ start \in Nat /\ new.s = start * PAGESZ /\ new.e \in Nat
    BY <2>3, RegionPages
  <2> HIDE DEF start
  <2>5. (start + n) * PAGESZ = start * PAGESZ + n * PAGESZ
    BY <1>1, <2>4, PageSum
  <2>6. new.e = (start + n) * PAGESZ
    BY <2>3, <2>4, <2>5
  <2>7. (start + n) * PAGESZ <= NPage * PAGESZ
    BY <2>3, <2>6, Sizes DEF Good, Region
  <2>8. start + n <= NPage
    BY <1>1, <2>4, <2>7, PageOrder, Sizes
  <2>9. start \in Page /\ start + n - 1 <= NPage
    BY <1>1, <2>4, <2>8, Sizes DEF Page
  <2> QED BY <1>1, <2>1, <2>3, <2>4, <2>6, <2>8, <2>9 DEF new, start
<1>3. CASE AllocBrk(c, p, rg, sz)
  <2> DEFINE start == sbrk[p] \div PAGESZ
             r == OpRec("frames", p, rg, start, n, sz, FALSE)
  <2>1. /\ sbrk[p] + n * PAGESZ <= NPage * PAGESZ
        /\ sbrk' = [sbrk EXCEPT ![p] = @ + n * PAGESZ]
        /\ Begin(c, r) /\ sym' = sym /\ freerg' = freerg
    BY <1>1, <1>3 DEF AllocBrk, n
  <2>2. PICK b \in Nat : sbrk[p] = b * PAGESZ
    BY DEF IInv, RegInv, AreaInv, AreaOf
  <2>3. start = b
    BY <2>2, PageOfStart
  <2>4. (b + n) * PAGESZ = b * PAGESZ + n * PAGESZ
    BY <1>1, <2>2, PageSum
  <2> HIDE DEF start
  <2>5. (b + n) * PAGESZ <= NPage * PAGESZ
    BY <2>1, <2>2, <2>4
  <2>6. b + n <= NPage
    BY <1>1, <2>2, <2>5, PageOrder, Sizes
  <2>7. start \in Page /\ start + n - 1 <= NPage /\ start + n <= NPage
    BY <1>1, <2>2, <2>3, <2>6, Sizes DEF Page
  <2>8. sbrk' = [sbrk EXCEPT ![p] = (start + n) * PAGESZ]
    BY <2>1, <2>2, <2>3, <2>4
  <2> QED BY <1>1, <2>1, <2>2, <2>3, <2>7, <2>8 DEF start
<1> QED BY <1>2, <1>3 DEF Alloc

\* The instruction of c is at the same place, but for its frames.
SameWork(c) ==
  LET r == op[c]
      t == op'[c]
  IN  /\ r # NoOp /\ t.pc = r.pc /\ t.pid = r.pid /\ t.rg = r.rg /\ t.start = r.start
      /\ t.n = r.n /\ t.size = r.size /\ t.reuse = r.reuse /\ t.i = r.i

OpTypes(c) ==
  /\ op' \in [Cpu -> OpSet \cup {NoOp}] /\ OpInv'
  /\ \A d \in Cpu \ {c} : op'[d] = op[d]

LEMMA BeginStep ==
  ASSUME IInv, NEW c \in Cpu, NEW r \in OpSet, Begin(c, r), Runs(c, r.pid),
         r.i < r.n, r.start + r.n - 1 <= NPage
  PROVE  OpTypes(c) /\ op'[c] = r
BY OpGoesOn DEF IInv, Begin, OpTypes

LEMMA EndStep ==
  ASSUME IInv, NEW c \in Cpu, End(c)
  PROVE  OpTypes(c) /\ op'[c] = NoOp /\ op'[c].pc = "idle"
BY OpEnds DEF IInv, OpTypes, NoOp

\* The steps that change what the instruction has in its hands, and nothing
\* else of it: the frames and the free list read, or the swap frame and the
\* list made for it.
Hands(r, frm, peek, back, node) ==
  [r EXCEPT !.frm = frm, !.peek = peek, !.back = back, !.node = node]

SameAs(t, r) == /\ t.pc = r.pc /\ t.pid = r.pid /\ t.rg = r.rg
                /\ t.start = r.start /\ t.n = r.n /\ t.size = r.size
                /\ t.reuse = r.reuse /\ t.i = r.i

LEMMA HandsRecord ==
  ASSUME NEW r \in OpSet, NEW frm \in Seq(RamFrame), NEW peek \in Seq(RamFrame),
         NEW back \in SwpHand, NEW node \in Seq(SwpFrame),
         NEW t, t = Hands(r, frm, peek, back, node)
  PROVE  /\ t \in OpSet /\ SameAs(t, r) /\ t.frm = frm /\ t.peek = peek
         /\ t.back = back /\ t.node = node
BY DEF OpSet, Hands, SameAs

LEMMA KeepStep ==
  ASSUME IInv, NEW c \in Cpu, op[c] # NoOp, NEW t \in OpSet, SameAs(t, op[c]),
         op' = [op EXCEPT ![c] = t]
  PROVE  OpTypes(c) /\ SameWork(c) /\ op'[c] = t
<1>1. t.i < t.n /\ t.start + t.n - 1 <= NPage
  BY DEF IInv, OpInv, SameAs
<1>2. OpTypes(c) /\ op'[c] = t
  BY <1>1, OpGoesOn DEF IInv, OpTypes, SameAs
<1> QED BY <1>2 DEF SameWork, SameAs

LEMMA TakeFrameOp ==
  ASSUME IInv, NEW c \in Cpu, op[c] # NoOp, NEW f \in RamFrame,
         op' = [op EXCEPT ![c].frm = <<f>> \o @]
  PROVE  OpTypes(c) /\ SameWork(c) /\ op'[c].frm = <<f>> \o op[c].frm
         /\ op'[c].peek = op[c].peek /\ op'[c].back = op[c].back
         /\ op'[c].node = op[c].node
<1>1. /\ op[c] \in OpSet /\ op[c].frm \in Seq(RamFrame) /\ op[c].peek \in Seq(RamFrame)
      /\ op[c].back \in SwpHand /\ op[c].node \in Seq(SwpFrame)
  BY Current DEF IInv
<1>2. PICK s \in Seq(RamFrame) : s = <<f>> \o op[c].frm
  BY <1>1, PutFirst
<1> DEFINE t == Hands(op[c], s, op[c].peek, op[c].back, op[c].node)
<1>3. op' = [op EXCEPT ![c] = t]
  BY <1>1, <1>2 DEF OpSet, Hands
<1>4. /\ t \in OpSet /\ SameAs(t, op[c]) /\ t.frm = s /\ t.peek = op[c].peek
      /\ t.back = op[c].back /\ t.node = op[c].node
  BY ONLY <1>1, HandsRecord
<1> HIDE DEF t
<1> QED BY <1>2, <1>3, <1>4, KeepStep

LEMMA PeekOp ==
  ASSUME IInv, NEW c \in Cpu, op[c] # NoOp, NEW s \in Seq(RamFrame),
         op' = [op EXCEPT ![c].peek = s]
  PROVE  OpTypes(c) /\ SameWork(c) /\ op'[c].frm = op[c].frm /\ op'[c].peek = s
         /\ op'[c].back = op[c].back /\ op'[c].node = op[c].node
<1>1. /\ op[c] \in OpSet /\ op[c].frm \in Seq(RamFrame)
      /\ op[c].back \in SwpHand /\ op[c].node \in Seq(SwpFrame)
  BY Current DEF IInv
<1> DEFINE t == Hands(op[c], op[c].frm, s, op[c].back, op[c].node)
<1>2. op' = [op EXCEPT ![c] = t]
  BY <1>1 DEF OpSet, Hands
<1>3. /\ t \in OpSet /\ SameAs(t, op[c]) /\ t.frm = op[c].frm /\ t.peek = s
      /\ t.back = op[c].back /\ t.node = op[c].node
  BY ONLY <1>1, HandsRecord
<1> HIDE DEF t
<1> QED BY <1>2, <1>3, KeepStep

\* The page is swapped in, and its swap frame is to be given back.
LEMMA SwapInOp ==
  ASSUME IInv, NEW c \in Cpu, op[c] # NoOp, NEW o \in SwpFrame,
         op' = [op EXCEPT ![c].peek = <<>>, ![c].back = o]
  PROVE  OpTypes(c) /\ SameWork(c) /\ op'[c].frm = op[c].frm /\ op'[c].peek = <<>>
         /\ op'[c].back = o /\ op'[c].node = op[c].node
<1>1. /\ op \in [Cpu -> OpSet \cup {NoOp}] /\ op[c] \in OpSet
      /\ op[c].frm \in Seq(RamFrame) /\ op[c].node \in Seq(SwpFrame)
  BY Current DEF IInv, Types
<1>2. PICK s \in Seq(RamFrame) : s = <<>>
  <2>1. <<>> \in Seq(RamFrame)
    OBVIOUS
  <2> QED BY <2>1
<1>3. op' = [op EXCEPT ![c] = [op[c] EXCEPT !.peek = s, !.back = o]]
  BY <1>1, <1>2
<1>4. [op[c] EXCEPT !.peek = s, !.back = o]
        = Hands(op[c], op[c].frm, s, o, op[c].node)
  BY <1>1 DEF OpSet, Hands
<1> DEFINE t == Hands(op[c], op[c].frm, s, o, op[c].node)
<1>5. op' = [op EXCEPT ![c] = t]
  BY <1>3, <1>4
<1>6. o \in SwpHand
  BY DEF SwpHand
<1>7. /\ t \in OpSet /\ SameAs(t, op[c]) /\ t.frm = op[c].frm /\ t.peek = s
      /\ t.back = o /\ t.node = op[c].node
  BY ONLY <1>1, <1>6, HandsRecord
<1> HIDE DEF t
<1> QED BY <1>2, <1>5, <1>7, KeepStep

\* The two steps of MEMPHY_put_freefp.
LEMMA SwapPeekOp ==
  ASSUME IInv, NEW c \in Cpu, op[c] # NoOp, NEW s \in Seq(SwpFrame),
         op' = [op EXCEPT ![c].node = s]
  PROVE  OpTypes(c) /\ SameWork(c) /\ op'[c].frm = op[c].frm
         /\ op'[c].peek = op[c].peek /\ op'[c].back = op[c].back /\ op'[c].node = s
<1>1. /\ op[c] \in OpSet /\ op[c].frm \in Seq(RamFrame)
      /\ op[c].peek \in Seq(RamFrame) /\ op[c].back \in SwpHand
  BY Current DEF IInv
<1> DEFINE t == Hands(op[c], op[c].frm, op[c].peek, op[c].back, s)
<1>2. op' = [op EXCEPT ![c] = t]
  BY <1>1 DEF OpSet, Hands
<1>3. /\ t \in OpSet /\ SameAs(t, op[c]) /\ t.frm = op[c].frm /\ t.peek = op[c].peek
      /\ t.back = op[c].back /\ t.node = s
  BY ONLY <1>1, HandsRecord
<1> HIDE DEF t
<1> QED BY <1>2, <1>3, KeepStep

LEMMA SwapBackOp ==
  ASSUME IInv, NEW c \in Cpu, op[c] # NoOp,
         op' = [op EXCEPT ![c].back = NoFrame, ![c].node = <<>>]
  PROVE  OpTypes(c) /\ SameWork(c) /\ op'[c].frm = op[c].frm
         /\ op'[c].peek = op[c].peek /\ op'[c].back = NoFrame /\ op'[c].node = <<>>
<1>1. /\ op \in [Cpu -> OpSet \cup {NoOp}] /\ op[c] \in OpSet
      /\ op[c].frm \in Seq(RamFrame) /\ op[c].peek \in Seq(RamFrame)
  BY Current DEF IInv, Types
<1>2. PICK s \in Seq(SwpFrame), o \in SwpHand : s = <<>> /\ o = NoFrame
  <2>1. <<>> \in Seq(SwpFrame) /\ NoFrame \in SwpHand
    BY DEF SwpHand
  <2> QED BY <2>1
<1>3. op' = [op EXCEPT ![c] = [op[c] EXCEPT !.back = o, !.node = s]]
  BY <1>1, <1>2
<1>4. [op[c] EXCEPT !.back = o, !.node = s]
        = Hands(op[c], op[c].frm, op[c].peek, o, s)
  BY <1>1 DEF OpSet, Hands
<1> DEFINE t == Hands(op[c], op[c].frm, op[c].peek, o, s)
<1>5. op' = [op EXCEPT ![c] = t]
  BY <1>3, <1>4
<1>6. /\ t \in OpSet /\ SameAs(t, op[c]) /\ t.frm = op[c].frm /\ t.peek = op[c].peek
      /\ t.back = o /\ t.node = s
  BY ONLY <1>1, HandsRecord
<1> HIDE DEF t
<1> QED BY <1>2, <1>5, <1>6, KeepStep

\* The loops over pages.
LEMMA NextPageOp ==
  ASSUME IInv, NEW c \in Cpu, op[c] # NoOp, ~ IsLast(c),
         op' = [op EXCEPT ![c].i = @ + 1]
  PROVE  /\ OpTypes(c) /\ op'[c].pc = op[c].pc /\ op'[c].pid = op[c].pid
         /\ op'[c].rg = op[c].rg /\ op'[c].start = op[c].start
         /\ op'[c].n = op[c].n /\ op'[c].i = op[c].i + 1
         /\ op'[c].frm = op[c].frm /\ op'[c].peek = op[c].peek
         /\ op'[c].back = op[c].back /\ op'[c].node = op[c].node
<1> DEFINE r == [op[c] EXCEPT !.i = op[c].i + 1]
<1>1. /\ op[c] \in OpSet /\ op[c].i \in Nat /\ op[c].n \in Nat /\ op[c].i < op[c].n
      /\ op[c].start + op[c].n - 1 <= NPage
  BY Current DEF IInv, OpInv
<1>2. /\ r \in OpSet /\ r.pc = op[c].pc /\ r.pid = op[c].pid /\ r.rg = op[c].rg
      /\ r.start = op[c].start /\ r.n = op[c].n /\ r.i = op[c].i + 1
      /\ r.frm = op[c].frm /\ r.peek = op[c].peek
      /\ r.back = op[c].back /\ r.node = op[c].node
  <2>1. PICK j \in Nat : j = op[c].i + 1
    BY <1>1
  <2>2. r = [op[c] EXCEPT !.i = j]
    BY <2>1
  <2> HIDE DEF r
  <2>3. r \in OpSet /\ r.i = j
    BY <1>1, <2>2 DEF OpSet
  <2>4. /\ r.pc = op[c].pc /\ r.pid = op[c].pid /\ r.rg = op[c].rg
        /\ r.start = op[c].start /\ r.n = op[c].n
        /\ r.frm = op[c].frm /\ r.peek = op[c].peek
        /\ r.back = op[c].back /\ r.node = op[c].node
    BY <1>1, <2>2 DEF OpSet
  <2> QED BY <2>1, <2>3, <2>4
<1>3. op' = [op EXCEPT ![c] = r]
  OBVIOUS
<1> HIDE DEF r
<1>4. r.i < r.n /\ r.start + r.n - 1 <= NPage
  BY <1>1, <1>2 DEF IsLast
<1>5. OpTypes(c) /\ op'[c] = r
  BY <1>2, <1>3, <1>4, OpGoesOn DEF IInv, OpTypes
<1> QED BY <1>2, <1>5

LEMMA MappedOp ==
  ASSUME IInv, NEW c \in Cpu, op[c] # NoOp,
         op' = [op EXCEPT ![c].pc = "cache", ![c].frm = <<>>]
  PROVE  /\ OpTypes(c) /\ op'[c].pc = "cache" /\ op'[c].pid = op[c].pid
         /\ op'[c].frm = <<>> /\ op'[c].peek = op[c].peek
         /\ op'[c].back = op[c].back /\ op'[c].node = op[c].node
<1> DEFINE r == [op[c] EXCEPT !.pc = "cache", !.frm = <<>>]
<1>1. /\ op[c] \in OpSet /\ op[c].i < op[c].n /\ op[c].start + op[c].n - 1 <= NPage
  BY Current DEF IInv, OpInv
<1>2. /\ r \in OpSet /\ r.pc = "cache" /\ r.pid = op[c].pid /\ r.start = op[c].start
      /\ r.n = op[c].n /\ r.i = op[c].i /\ r.frm = <<>> /\ r.peek = op[c].peek
      /\ r.back = op[c].back /\ r.node = op[c].node
  <2>1. <<>> \in Seq(RamFrame) /\ "cache" \in Pc
    BY DEF Pc
  <2>2. /\ r.pc = "cache" /\ r.pid = op[c].pid /\ r.start = op[c].start
        /\ r.n = op[c].n /\ r.i = op[c].i /\ r.frm = <<>> /\ r.peek = op[c].peek
        /\ r.back = op[c].back /\ r.node = op[c].node
    BY <1>1 DEF OpSet
  <2>3. \A s \in Seq(RamFrame) : [op[c] EXCEPT !.pc = "cache", !.frm = s] \in OpSet
    BY <1>1, <2>1 DEF OpSet
  <2> QED BY <2>1, <2>2, <2>3
<1>3. op' = [op EXCEPT ![c] = r]
  BY <1>1 DEF IInv, Types
<1> HIDE DEF r
<1>4. r.i < r.n /\ r.start + r.n - 1 <= NPage
  BY <1>1, <1>2
<1>5. OpTypes(c) /\ op'[c] = r
  BY <1>2, <1>3, <1>4, OpGoesOn DEF IInv, OpTypes
<1> QED BY <1>2, <1>5

\* An instruction under way has a pc of its own.
LEMMA UnderWay ==
  ASSUME IInv, NEW c \in Cpu, op[c].pc \in Pc
  PROVE  op[c] # NoOp
BY OpFacts DEF IInv

LEMMA AtPageUnderWay ==
  ASSUME IInv, NEW c \in Cpu, AtPage(c)
  PROVE  op[c] # NoOp
BY UnderWay DEF AtPage, Pc

\* find_victim_page finds a page that is in RAM.
LEMMA VictimPage ==
  ASSUME IInv, NEW p \in Pid, fifo[p] # <<>>
  PROVE  /\ Victim(p) \in Page /\ pgd[p][Victim(p)].st = "ram"
         /\ pgd[p][Victim(p)].n \in RamFrame
         /\ pgd[p][Victim(p)] = InRam(pgd[p][Victim(p)].n)
<1>1. fifo[p] \in Seq(Page)
  BY DEF IInv, Types
<1>2. Victim(p) \in Page /\ Victim(p) = fifo[p][Len(fifo[p])] /\ Len(fifo[p]) \in Nat \ {0}
  BY <1>1, TakeLast DEF Victim
<1>3. pgd[p][Victim(p)].st = "ram"
  BY <1>2 DEF IInv, FifoInv
<1> QED BY <1>2, <1>3, PteFacts DEF IInv

\* The steps that change the regions, the pages that are mapped or what an
\* ALLOC or FREE is about.
Regional(c) ==
  \/ NoVictim(c) \/ NoSwap(c) \/ MapPages(c) \/ FreePage(c)
  \/ \E p \in Pid, rg \in Rg : \/ Free(c, p, rg)
                               \/ \E sz \in 1 .. MaxSize : Alloc(c, p, rg, sz)

\* The others.
Quiet(c) ==
  /\ UNCHANGED regvars
  /\ op'[c].pc \in {"frames", "free"} => SameWork(c)
  /\ \A p \in Pid, g \in Page : pgd'[p][g] = Absent <=> pgd[p][g] = Absent

LEMMA QuietStart ==
  ASSUME IInv, NEW c \in Cpu, Start(c)
  PROVE  \/ Regional(c)
         \/ OpTypes(c) /\ Quiet(c) /\ UNCHANGED <<pgd, fifo, freeRam, freeSwp, swp, tlb>>
            /\ (op' # op => op'[c].frm = <<>> /\ op'[c].peek = <<>>
                            /\ op'[c].back = NoFrame /\ op'[c].node = <<>>)
            /\ ((ram' = ram /\ written' = written)
                \/ \E p \in Pid, rg \in Rg, off \in 0 .. MaxSize : WriteHit(c, p, rg, off))
<1>1. PICK p \in Pid :
    \/ BadRegion(c, p)
    \/ AllocZero(c, p)
    \/ \E rg \in Rg :
         \/ Free(c, p, rg)
         \/ \E sz \in 1..MaxSize : Alloc(c, p, rg, sz)
         \/ \E off \in 0..MaxSize :
              \/ WriteHit(c, p, rg, off)
              \/ WriteMiss(c, p, rg, off)
              \/ ReadOutOfRange(c, p, rg, off)
              \/ ReadMiss(c, p, rg, off)
  BY DEF Start
<1>2. op' = op /\ op[c] = NoOp => OpTypes(c) /\ op'[c].pc = "idle"
  BY DEF IInv, Types, OpInv, OpTypes, NoOp
<1>3. CASE BadRegion(c, p)
  BY <1>2, <1>3 DEF BadRegion, Runs, Quiet, regvars, memvars
<1>4. CASE AllocZero(c, p)
  <2>1. PICK rg \in Rg : Begin(c, OpRec("spin", p, rg, 0, 1, 0, TRUE))
    BY <1>4 DEF AllocZero
  <2>2. /\ Runs(c, p) /\ UNCHANGED <<regvars, pgd, fifo, memvars, tlb, written>>
    BY <1>4 DEF AllocZero
  <2> DEFINE r == OpRec("spin", p, rg, 0, 1, 0, TRUE)
  <2>3. 0 \in Page /\ 0 + 1 - 1 <= NPage /\ "spin" \in Pc
    BY Sizes DEF Page, Pc
  <2>4. /\ r \in OpSet /\ r.pc = "spin" /\ r.pid = p /\ r.start = 0 /\ r.n = 1
        /\ r.i = 0 /\ r.frm = <<>> /\ r.peek = <<>>
        /\ r.back = NoFrame /\ r.node = <<>>
    BY <2>3 DEF OpRec, OpSet, SwpHand
  <2>5. Begin(c, r)
    BY <2>1
  <2> HIDE DEF r
  <2>6. Runs(c, r.pid) /\ r.i < r.n /\ r.start + r.n - 1 <= NPage
    BY <2>2, <2>3, <2>4
  <2>7. OpTypes(c) /\ op'[c] = r
    BY <2>4, <2>5, <2>6, BeginStep
  <2> QED BY <2>2, <2>4, <2>7 DEF Quiet, memvars
<1>5. ASSUME NEW rg \in Rg, Free(c, p, rg) PROVE Regional(c)
  BY <1>5 DEF Regional
<1>6. ASSUME NEW rg \in Rg, NEW sz \in 1 .. MaxSize, Alloc(c, p, rg, sz)
      PROVE  Regional(c)
  BY <1>6 DEF Regional
<1>7. ASSUME NEW rg \in Rg, NEW off \in 0 .. MaxSize, WriteHit(c, p, rg, off)
      PROVE  OpTypes(c) /\ Quiet(c) /\ UNCHANGED <<op, pgd, fifo, freeRam, freeSwp, swp, tlb>>
  BY <1>2, <1>7 DEF WriteHit, Runs, Quiet, regvars
<1>8. ASSUME NEW rg \in Rg, NEW off \in 0 .. MaxSize, ReadOutOfRange(c, p, rg, off)
      PROVE  OpTypes(c) /\ Quiet(c) /\ UNCHANGED <<op, pgd, fifo, memvars, tlb, written>>
  BY <1>2, <1>8 DEF ReadOutOfRange, Runs, Quiet, regvars
<1>9. ASSUME NEW rg \in Rg, NEW off \in 0 .. MaxSize,
             WriteMiss(c, p, rg, off) \/ ReadMiss(c, p, rg, off)
      PROVE  /\ OpTypes(c) /\ Quiet(c) /\ UNCHANGED <<pgd, fifo, memvars, tlb, written>>
             /\ op'[c].frm = <<>> /\ op'[c].peek = <<>>
             /\ op'[c].back = NoFrame /\ op'[c].node = <<>>
  <2> DEFINE g == PageAt(p, rg, off)
  <2>1. PICK pc \in {"write", "read"} : Begin(c, OpRec(pc, p, rg, g, 1, 0, FALSE))
    BY <1>9 DEF WriteMiss, ReadMiss
  <2>2. /\ Runs(c, p) /\ InRange(p, rg, off)
        /\ UNCHANGED <<regvars, pgd, fifo, memvars, tlb, written>>
    BY <1>9 DEF WriteMiss, ReadMiss
  <2>3. g \in Page
    BY <2>2, AddressPage DEF IInv
  <2> HIDE DEF g
  <2>4. g + 1 - 1 <= NPage /\ pc \in Pc
    BY <2>3, Sizes DEF Page, Pc
  <2> DEFINE r == OpRec(pc, p, rg, g, 1, 0, FALSE)
  <2>5. /\ r \in OpSet /\ r.pc = pc /\ r.pid = p /\ r.start = g /\ r.n = 1
        /\ r.i = 0 /\ r.frm = <<>> /\ r.peek = <<>>
        /\ r.back = NoFrame /\ r.node = <<>>
    BY <2>3, <2>4 DEF OpRec, OpSet, SwpHand
  <2>6. Begin(c, r)
    BY <2>1 DEF g
  <2> HIDE DEF r
  <2>7. Runs(c, r.pid) /\ r.i < r.n /\ r.start + r.n - 1 <= NPage
    BY <2>2, <2>4, <2>5
  <2>8. OpTypes(c) /\ op'[c] = r
    BY <2>5, <2>6, <2>7, BeginStep
  <2> QED BY <2>2, <2>5, <2>8 DEF Quiet
<1> QED BY <1>1, <1>3, <1>4, <1>5, <1>6, <1>7, <1>8, <1>9 DEF memvars

LEMMA QuietStep ==
  ASSUME IInv, NEW c \in Cpu, Step(c)
  PROVE  OpTypes(c) /\ (Regional(c) \/ Quiet(c))
<1>1. CASE TakeFrame(c)
  <2>1. op[c] # NoOp
    BY <1>1, UnderWay DEF TakeFrame, Pc
  <2>2. Head(freeRam) \in RamFrame
    BY <1>1, TakeFirst DEF TakeFrame, IInv, Types
  <2>3. OpTypes(c) /\ SameWork(c)
    BY <1>1, <2>1, <2>2, TakeFrameOp DEF TakeFrame
  <2> QED BY <1>1, <2>3 DEF TakeFrame, Quiet
<1>2. CASE SwapOut(c)
  <2> DEFINE p == op[c].pid
             v == Victim(p)
             f == pgd[p][v].n
             o == Head(freeSwp)
  <2>1. op[c] # NoOp /\ fifo[p] # <<>>
    BY <1>2, UnderWay DEF SwapOut, Pc
  <2>2. p \in Pid
    BY <2>1, Current DEF IInv
  <2>3. v \in Page /\ pgd[p][v].st = "ram"
    BY <2>1, <2>2, VictimPage
  <2>4. f \in RamFrame
    BY <2>2, <2>3, PteFacts DEF IInv
  <2>5. /\ op' = [op EXCEPT ![c].frm = <<f>> \o @] /\ UNCHANGED regvars
        /\ pgd' = [pgd EXCEPT ![p][v] = InSwp(o)]
    BY <1>2 DEF SwapOut
  <2> HIDE DEF p, v, f, o
  <2>6. OpTypes(c) /\ SameWork(c)
    BY <2>1, <2>4, <2>5, TakeFrameOp
  <2>7. \A q \in Pid, g \in Page : pgd'[q][g] = Absent <=> pgd[q][g] = Absent
    BY <2>2, <2>3, <2>5 DEF IInv, Types, InSwp, Absent
  <2> QED BY <2>5, <2>6, <2>7 DEF Quiet
<1>3. CASE NoVictim(c) \/ NoSwap(c)
  BY <1>3, EndStep DEF NoVictim, NoSwap, AllocFails, Regional
<1>4. CASE MapPages(c)
  <2>1. op[c] # NoOp
    BY <1>4, UnderWay DEF MapPages, Pc
  <2> QED BY <1>4, <2>1, MappedOp DEF MapPages, Regional
<1>5. CASE CachePage(c)
  <2>1. op[c] # NoOp
    BY <1>5, UnderWay DEF CachePage, Pc
  <2>2. CASE IsLast(c)
    BY <1>5, <2>2, EndStep DEF CachePage, Quiet
  <2>3. CASE ~ IsLast(c)
    <3>1. OpTypes(c) /\ op'[c].pc = "cache"
      BY <1>5, <2>1, <2>3, NextPageOp DEF CachePage
    <3> QED BY <1>5, <3>1 DEF CachePage, Quiet
  <2> QED BY <2>2, <2>3
<1>6. CASE FaultPeek(c)
  <2>1. op[c] # NoOp
    BY <1>6, AtPageUnderWay DEF FaultPeek, Faulting
  <2>2. OpTypes(c) /\ SameWork(c)
    BY <1>6, <2>1, PeekOp DEF FaultPeek, IInv, Types
  <2> QED BY <1>6, <2>2 DEF FaultPeek, Quiet
<1>7. CASE SwapIn(c)
  <2> DEFINE p == op[c].pid
             g == Page0(c)
             f == Head(op[c].peek)
             o == pgd[p][g].n
  <2>1. op[c] # NoOp
    BY <1>7, AtPageUnderWay DEF SwapIn, Faulting
  <2>2. p \in Pid /\ g \in Page
    BY <2>1, Current DEF IInv
  <2>3. /\ pgd[p][g].st = "swap" /\ pgd' = [pgd EXCEPT ![p][g] = InRam(f)]
        /\ op' = [op EXCEPT ![c].peek = <<>>, ![c].back = o] /\ UNCHANGED regvars
    BY <1>7 DEF SwapIn, Faulting
  <2> HIDE DEF p, g, f, o
  <2>4. OpTypes(c) /\ SameWork(c)
    <3>1. o \in SwpFrame
      BY <2>2, <2>3, PteFacts DEF IInv, o
    <3> QED BY <2>1, <2>3, <3>1, SwapInOp
  <2>5. \A q \in Pid, h \in Page : pgd'[q][h] = Absent <=> pgd[q][h] = Absent
    BY <2>2, <2>3 DEF IInv, Types, InRam, Absent
  <2> QED BY <2>3, <2>4, <2>5 DEF Quiet
<1>8. CASE FaultFails(c) \/ PageAbsent(c)
  BY <1>8, EndStep DEF FaultFails, PageAbsent, Quiet
<1>9. CASE FreePage(c)
  <2>1. op[c] # NoOp
    BY <1>9, UnderWay DEF FreePage, Pc
  <2>2. OpTypes(c)
    BY <1>9, <2>1, EndStep, NextPageOp DEF FreePage
  <2> QED BY <1>9, <2>2 DEF Regional
<1>10. CASE WritePage(c) \/ ReadPage(c)
  BY <1>10, EndStep DEF WritePage, ReadPage, Quiet
<1>11. CASE SwapPeek(c)
  <2>1. op[c] # NoOp /\ op[c].back # NoFrame /\ UNCHANGED <<regvars, pgd>>
        /\ op' = [op EXCEPT ![c].node = <<op[c].back>> \o freeSwp]
    BY <1>11 DEF SwapPeek, Returning
  <2>2. <<op[c].back>> \o freeSwp \in Seq(SwpFrame)
    BY <2>1, Current, PutFirst DEF IInv, Types, SwpHand
  <2>3. OpTypes(c) /\ SameWork(c)
    BY <2>1, <2>2, SwapPeekOp
  <2> QED BY <2>1, <2>3 DEF Quiet
<1>12. CASE SwapBack(c)
  <2>1. op[c] # NoOp /\ UNCHANGED <<regvars, pgd>>
        /\ op' = [op EXCEPT ![c].back = NoFrame, ![c].node = <<>>]
    BY <1>12 DEF SwapBack, Returning
  <2>2. OpTypes(c) /\ SameWork(c)
    BY <2>1, SwapBackOp
  <2> QED BY <2>1, <2>2 DEF Quiet
<1> QED BY <1>1, <1>2, <1>3, <1>4, <1>5, <1>6, <1>7, <1>8, <1>9, <1>10, <1>11, <1>12
        DEF Step

-----------------------------------------------------------------------------
(* The regions.                                                            *)

LEMMA QuietRegions ==
  ASSUME IInv, NEW c \in Cpu, OpTypes(c), Quiet(c)
  PROVE  RegInv'
<1>1. sym' = sym /\ freerg' = freerg /\ sbrk' = sbrk
  BY DEF Quiet, regvars
<1>2. AreaInv' /\ DisjointInv'
  BY <1>1 DEF IInv, RegInv, AreaInv, AreaOf, DisjointInv, DisjointOf
<1>3. AbsentInv'
  BY <1>1 DEF Quiet, IInv, RegInv, AbsentInv, AbsentOf
<1>4. ASSUME NEW d \in Cpu, op'[d].pc \in {"frames", "free"}
      PROVE  /\ op[d] # NoOp /\ op'[d].pc = op[d].pc /\ op'[d].pid = op[d].pid
             /\ op'[d].rg = op[d].rg /\ op'[d].start = op[d].start
             /\ op'[d].n = op[d].n /\ op'[d].size = op[d].size
             /\ op'[d].reuse = op[d].reuse /\ op'[d].i = op[d].i
  <2>1. CASE d = c
    BY <1>4, <2>1 DEF Quiet, SameWork
  <2>2. CASE d # c
    BY <1>4, <2>2 DEF OpTypes, NoOp
  <2> QED BY <2>1, <2>2
<1>5. ASSUME NEW d \in Cpu, op'[d].pc = "frames" PROVE Collects(d)'
  <2>1. Collects(d) /\ op[d] # NoOp
    BY <1>4, <1>5 DEF IInv, RegInv, WorkInv
  <2>2. /\ op[d].pid \in Pid
        /\ \A g \in op[d].start .. op[d].start + op[d].n - 1 : g \in Page
    <3>1. /\ op[d].pid \in Pid /\ op[d].start \in Nat /\ op[d].n \in Nat
          /\ \A k \in 0 .. op[d].n - 1 : op[d].start + k \in Page
      BY <2>1, Current DEF IInv
    <3>2. \A g \in op[d].start .. op[d].start + op[d].n - 1 :
            g - op[d].start \in 0 .. op[d].n - 1 /\ g = op[d].start + (g - op[d].start)
      BY <3>1
    <3> QED BY <3>1, <3>2
  <2>3. \A g \in op[d].start .. op[d].start + op[d].n - 1 :
          pgd'[op[d].pid][g] = Absent
    BY <2>1, <2>2 DEF Quiet, Collects
  <2> QED BY <1>1, <1>4, <1>5, <2>1, <2>3 DEF Collects
<1>6. ASSUME NEW d \in Cpu, op'[d].pc = "free" PROVE Releases(d)'
  <2>1. Releases(d) /\ op[d] # NoOp
    BY <1>4, <1>6 DEF IInv, RegInv, WorkInv
  <2>2. /\ op[d].pid \in Pid
        /\ \A g \in op[d].start .. op[d].start + op[d].i - 1 : g \in Page
    <3>1. /\ op[d].pid \in Pid /\ op[d].start \in Nat /\ op[d].n \in Nat
          /\ op[d].i \in Nat /\ op[d].i < op[d].n
          /\ \A k \in 0 .. op[d].n - 1 : op[d].start + k \in Page
      BY <2>1, Current DEF IInv, OpInv
    <3>2. \A g \in op[d].start .. op[d].start + op[d].i - 1 :
            g - op[d].start \in 0 .. op[d].n - 1 /\ g = op[d].start + (g - op[d].start)
      BY <3>1
    <3> QED BY <3>1, <3>2
  <2>3. \A g \in op[d].start .. op[d].start + op[d].i - 1 :
          pgd'[op[d].pid][g] = Absent
    BY <2>1, <2>2 DEF Quiet, Releases
  <2> QED BY <1>1, <1>4, <1>6, <2>1, <2>3 DEF Releases
<1> QED BY <1>2, <1>3, <1>5, <1>6 DEF RegInv, WorkInv

\* A step of the CPU that runs p leaves the other processes alone.
LEMMA OtherProcesses ==
  ASSUME IInv, NEW c \in Cpu, OpTypes(c), NEW p \in Pid,
         \A q \in Pid \ {p} : /\ sym'[q] = sym[q] /\ freerg'[q] = freerg[q]
                              /\ sbrk'[q] = sbrk[q] /\ pgd'[q] = pgd[q],
         \A d \in Cpu \ {c} : op[d] # NoOp => op[d].pid # p,
         AreaOf(p)', DisjointOf(p)', AbsentOf(p)',
         op'[c].pc = "frames" => Collects(c)',
         op'[c].pc = "free" => Releases(c)'
  PROVE  RegInv'
<1>1. ASSUME NEW q \in Pid PROVE AreaOf(q)' /\ DisjointOf(q)' /\ AbsentOf(q)'
  <2>1. CASE q = p
    BY <2>1
  <2>2. CASE q # p
    <3>1. AreaOf(q) /\ DisjointOf(q) /\ AbsentOf(q)
      BY DEF IInv, RegInv, AreaInv, DisjointInv, AbsentInv
    <3>2. sym'[q] = sym[q] /\ freerg'[q] = freerg[q] /\ sbrk'[q] = sbrk[q] /\ pgd'[q] = pgd[q]
      BY <2>2
    <3> QED BY <3>1, <3>2 DEF AreaOf, DisjointOf, AbsentOf
  <2> QED BY <2>1, <2>2
<1>2. ASSUME NEW d \in Cpu
      PROVE  /\ op'[d].pc = "frames" => Collects(d)'
             /\ op'[d].pc = "free" => Releases(d)'
  <2>1. CASE d = c
    BY <2>1
  <2>2. CASE d # c
    <3> SUFFICES ASSUME op[d].pc \in {"frames", "free"}
                 PROVE  /\ op'[d].pc = "frames" => Collects(d)'
                        /\ op'[d].pc = "free" => Releases(d)'
      BY <2>2 DEF OpTypes
    <3>1. op'[d] = op[d] /\ op[d] # NoOp
      BY <2>2 DEF OpTypes, NoOp
    <3>2. op[d].pid \in Pid \ {p}
      BY <2>2, <3>1, Current DEF IInv
    <3> DEFINE q == op[d].pid
    <3>3. sym'[q] = sym[q] /\ freerg'[q] = freerg[q] /\ sbrk'[q] = sbrk[q] /\ pgd'[q] = pgd[q]
      BY <3>2
    <3>4. (op[d].pc = "frames" => Collects(d)) /\ (op[d].pc = "free" => Releases(d))
      BY DEF IInv, RegInv, WorkInv
    <3> QED BY <3>1, <3>3, <3>4, SMTT(30) DEF Collects, Releases
  <2> QED BY <2>1, <2>2
<1> QED BY <1>1, <1>2 DEF RegInv, AreaInv, DisjointInv, AbsentInv, WorkInv

\* Regions that end where others begin do not overlap, and neither do parts of
\* regions that do not.
LEMMA Apart ==
  ASSUME NEW r \in Region, NEW t \in Region,
         NEW x \in Region, NEW y \in Region
  PROVE  /\ ~ Overlap(r, t) <=> ~ Overlap(t, r)
         /\ r.e <= t.s => ~ Overlap(r, t) /\ ~ Overlap(t, r)
         /\ ~ Overlap(r, t) /\ r.s <= x.s /\ x.e <= r.e /\ t.s <= y.s /\ y.e <= t.e
              => ~ Overlap(x, y)
<1>1. /\ r.s \in Int /\ r.e \in Int /\ t.s \in Int /\ t.e \in Int
      /\ x.s \in Int /\ x.e \in Int /\ y.s \in Int /\ y.e \in Int
  BY DEF Region
<1> QED BY <1>1 DEF Overlap

\* Addresses are numbers.
LEMMA RegionNumbers ==
  ASSUME NEW r \in Region
  PROVE  r.s \in Nat /\ r.e \in Nat /\ r.e <= NPage * PAGESZ /\ r.s <= r.s /\ r.e <= r.e
BY Sizes DEF Region

LEMMA NoRegionApart ==
  ASSUME NEW r \in Region
  PROVE  ~ Overlap(NoRegion, r) /\ ~ Overlap(r, NoRegion)
BY Sizes DEF Region, Overlap, NoRegion

LEMMA NoRegionType == NoRegion \in Region
BY Sizes DEF Region, NoRegion

\* The pages start .. start + n - 1 begin between their addresses.
LEMMA PageSpan ==
  ASSUME NEW start \in Nat, NEW n \in Nat
  PROVE  /\ start * PAGESZ \in Nat /\ (start + n) * PAGESZ \in Nat
         /\ n * PAGESZ \in Nat
         /\ (start + n) * PAGESZ = start * PAGESZ + n * PAGESZ
<1>1. start * PAGESZ \in Nat /\ (start + n) * PAGESZ \in Nat /\ n * PAGESZ \in Nat
  BY Sizes
<1>2. (start + n) * PAGESZ = start * PAGESZ + n * PAGESZ
  BY PageSum
<1> QED BY <1>1, <1>2

LEMMA PagesBetween ==
  ASSUME NEW start \in Nat, NEW n \in Nat, NEW g \in Nat
  PROVE  g \in start .. start + n - 1 <=>
           start * PAGESZ <= g * PAGESZ /\ g * PAGESZ < (start + n) * PAGESZ
<1>1. start <= g <=> start * PAGESZ <= g * PAGESZ
  BY PageOrder
<1>2. start + n \in Int
  OBVIOUS
<1>3. g < start + n <=> g * PAGESZ < (start + n) * PAGESZ
  BY <1>2, PageOrder
<1>4. g \in start .. start + n - 1 <=> start <= g /\ g < start + n
  OBVIOUS
<1> QED BY <1>1, <1>3, <1>4

LEMMA AllocRegions ==
  ASSUME IInv, NEW c \in Cpu, NEW p \in Pid, NEW rg \in Rg,
         NEW sz \in 1 .. MaxSize, Alloc(c, p, rg, sz)
  PROVE  /\ OpTypes(c) /\ RegInv'
         /\ sym' \in [Pid -> [Rg -> Region]] /\ freerg' \in [Pid -> Seq(Region)]
         /\ sbrk' \in [Pid -> 0 .. NPage * PAGESZ]
         /\ op'[c].pc = "frames" /\ op'[c].pid = p
         /\ op'[c].frm = <<>> /\ op'[c].peek = <<>>
         /\ op'[c].back = NoFrame /\ op'[c].node = <<>>
<1>1. PICK start \in Page, n \in Nat, reuse \in BOOLEAN :
           /\ n > 0 /\ start + n - 1 <= NPage
           /\ Begin(c, OpRec("frames", p, rg, start, n, sz, reuse))
           /\ start + n <= NPage
           /\ sz <= n * PAGESZ
           /\ IF reuse
                THEN LET new == Piece(freerg[p], n * PAGESZ)
                     IN  /\ Good(new) /\ new.s = start * PAGESZ
                         /\ new.e = (start + n) * PAGESZ
                         /\ Fits(freerg[p], n * PAGESZ) # {}
                         /\ sym' = [sym EXCEPT ![p][rg] = new]
                         /\ freerg' = [freerg EXCEPT ![p] = Carve(@, n * PAGESZ)]
                         /\ sbrk' = sbrk
                ELSE /\ sbrk[p] = start * PAGESZ
                     /\ sbrk' = [sbrk EXCEPT ![p] = (start + n) * PAGESZ]
                     /\ sym' = sym /\ freerg' = freerg
  BY AllocEffect
<1> DEFINE r == OpRec("frames", p, rg, start, n, sz, reuse)
           new == Piece(freerg[p], n * PAGESZ)
<1>2. /\ n > 0 /\ start + n - 1 <= NPage /\ start + n <= NPage
      /\ Begin(c, r) /\ sz <= n * PAGESZ
  BY <1>1
<1>3. /\ r \in OpSet /\ r.pc = "frames" /\ r.pid = p /\ r.rg = rg
      /\ r.start = start /\ r.n = n /\ r.i = 0 /\ r.size = sz /\ r.reuse = reuse
      /\ r.frm = <<>> /\ r.peek = <<>>
      /\ r.back = NoFrame /\ r.node = <<>>
  <2>1. sz \in Nat /\ "frames" \in Pc
    BY DEF Pc
  <2> QED BY <2>1 DEF OpRec, OpSet, SwpHand
<1>4. Runs(c, p) /\ pgd' = pgd
  BY DEF Alloc
<1>5. \A d \in Cpu \ {c} : op[d] # NoOp => op[d].pid # p
  BY <1>4 DEF Runs
<1> HIDE DEF r
<1>6. OpTypes(c) /\ op'[c] = r
  BY <1>2, <1>3, <1>4, BeginStep
<1>7. start \in Nat /\ NPage * PAGESZ \in Nat
  BY Sizes DEF Page
<1>8. /\ sym \in [Pid -> [Rg -> Region]] /\ freerg \in [Pid -> Seq(Region)]
      /\ sbrk \in [Pid -> 0 .. NPage * PAGESZ]
      /\ AreaOf(p) /\ DisjointOf(p) /\ AbsentOf(p) /\ GoodList(freerg[p])
  BY FreeListGood DEF IInv, Types, RegInv, AreaInv, DisjointInv, AbsentInv
<1>9. \A g \in start .. start + n - 1 :
        g \in Page /\ start * PAGESZ <= g * PAGESZ /\ g * PAGESZ < (start + n) * PAGESZ
  <2>1. \A g \in start .. start + n - 1 : g \in Page
    BY <1>2, <1>7, Sizes DEF Page
  <2> TAKE g \in start .. start + n - 1
  <2>2. g \in Nat
    BY <1>7
  <2>3. start * PAGESZ <= g * PAGESZ /\ g * PAGESZ < (start + n) * PAGESZ
    BY <1>7, <2>2, PagesBetween
  <2> QED BY <2>1, <2>3
<1>10. /\ start * PAGESZ \in Nat /\ (start + n) * PAGESZ \in Nat /\ n * PAGESZ \in Nat
       /\ (start + n) * PAGESZ = start * PAGESZ + n * PAGESZ
  BY <1>7, PageSpan
<1>11. CASE reuse
  <2> DEFINE fl == freerg[p]
             cl == Carve(fl, n * PAGESZ)
  <2>1. /\ Good(new) /\ new.s = start * PAGESZ /\ new.e = (start + n) * PAGESZ
        /\ Fits(freerg[p], n * PAGESZ) # {}
        /\ sym' = [sym EXCEPT ![p][rg] = new]
        /\ freerg' = [freerg EXCEPT ![p] = cl]
        /\ sbrk' = sbrk
    BY <1>1, <1>11
  <2>2. PICK i \in 1 .. Len(fl) : /\ fl[i].s <= new.s /\ new.e <= fl[i].e
                                  /\ new.e = Left(fl[i], n * PAGESZ).s
    BY <1>2, <1>8, <2>1, PieceOf
  <2>3. GoodList(cl) /\ CutOf(cl, fl, n * PAGESZ)
    BY <1>2, <1>8, CarveNodes
  <2> HIDE DEF cl
  <2>4. PICK m \in [1 .. Len(cl) -> 1 .. Len(fl)] :
          /\ \A j, k \in 1 .. Len(cl) : m[j] = m[k] => j = k
          /\ \A k \in 1 .. Len(cl) :
               /\ cl[k] = Left(fl[m[k]], n * PAGESZ)
               /\ fl[m[k]].s <= cl[k].s /\ cl[k].e = fl[m[k]].e
    BY <2>3 DEF CutOf
  <2>5. /\ new \in Region /\ cl \in Seq(Region)
        /\ \A k \in 1 .. Len(fl) : fl[k] \in Region /\ fl[k].e <= sbrk[p]
        /\ \A k \in 1 .. Len(cl) : cl[k] \in Region /\ Good(cl[k])
        /\ \A a \in Rg : sym[p][a] \in Region
    BY <1>8, <2>1, <2>3 DEF GoodList, Good, AreaOf
  <2> HIDE DEF new, cl
  <2>6. /\ sym'[p][rg] = new /\ \A a \in Rg \ {rg} : sym'[p][a] = sym[p][a]
        /\ freerg'[p] = cl /\ sbrk'[p] = sbrk[p]
        /\ \A q \in Pid \ {p} : sym'[q] = sym[q] /\ freerg'[q] = freerg[q]
        /\ sym' \in [Pid -> [Rg -> Region]] /\ freerg' \in [Pid -> Seq(Region)]
    BY <1>8, <2>1, <2>5
  <2>7. sbrk[p] \in Nat /\ \A k \in 1 .. Len(fl) : fl[k].e \in Nat /\ fl[k].s \in Nat
    <3>1. sbrk[p] \in Nat
      BY <1>7, <1>8
    <3> HIDE DEF fl
    <3> QED BY <2>5, <3>1, RegionNumbers
  <2>8. AreaOf(p)'
    <3>1. new.e <= sbrk[p]
      BY <1>10, <2>1, <2>2, <2>5, <2>7
    <3>2. \A k \in 1 .. Len(cl) : Good(cl[k]) /\ cl[k].e <= sbrk[p]
      BY <2>4, <2>5
    <3>3. \A a \in Rg : \/ sym'[p][a] = NoRegion
                        \/ Good(sym'[p][a]) /\ sym'[p][a].e <= sbrk[p]
      BY <1>8, <2>1, <2>6, <3>1 DEF AreaOf
    <3>4. \E b \in Nat : sbrk[p] = b * PAGESZ
      BY <1>8 DEF AreaOf
    <3> QED BY <2>6, <3>2, <3>3, <3>4 DEF AreaOf
  <2>9. DisjointOf(p)'
    <3>1. ASSUME NEW a \in Rg \ {rg}
          PROVE  ~ Overlap(sym[p][a], new) /\ ~ Overlap(new, sym[p][a])
      <4>1. ~ Overlap(sym[p][a], fl[i])
        BY <1>8 DEF DisjointOf
      <4>2. /\ sym[p][a] \in Region /\ fl[i] \in Region
            /\ sym[p][a].s <= sym[p][a].s /\ sym[p][a].e <= sym[p][a].e
        BY <2>5, RegionNumbers
      <4> QED BY <2>2, <2>5, <4>1, <4>2, Apart
    <3>2. ASSUME NEW a \in Rg, NEW k \in 1 .. Len(cl)
          PROVE  ~ Overlap(sym'[p][a], cl[k])
      <4>1. CASE a # rg
        <5>1. ~ Overlap(sym[p][a], fl[m[k]])
          BY <1>8 DEF DisjointOf
        <5>2. /\ sym[p][a] \in Region /\ fl[m[k]] \in Region /\ cl[k].e <= fl[m[k]].e
              /\ sym[p][a].s <= sym[p][a].s /\ sym[p][a].e <= sym[p][a].e
          <6>1. m[k] \in 1 .. Len(fl) /\ cl[k].e = fl[m[k]].e
            BY <2>4
          <6> HIDE DEF fl
          <6> QED BY <2>5, <6>1, RegionNumbers
        <5> QED BY <2>4, <2>5, <2>6, <4>1, <5>1, <5>2, Apart
      <4>2. CASE a = rg /\ m[k] = i
        <5>1. new.e = cl[k].s
          BY <2>2, <2>4, <4>2
        <5>2. new.e <= cl[k].s
          BY <2>5, <5>1, RegionNumbers
        <5> QED BY <2>5, <2>6, <4>2, <5>2, Apart
      <4>3. CASE a = rg /\ m[k] # i
        <5>1. ~ Overlap(fl[i], fl[m[k]])
          BY <1>8, <4>3 DEF DisjointOf
        <5>2. fl[i] \in Region /\ fl[m[k]] \in Region /\ cl[k].e <= fl[m[k]].e
          <6>1. m[k] \in 1 .. Len(fl) /\ cl[k].e = fl[m[k]].e
            BY <2>4
          <6> HIDE DEF fl
          <6> QED BY <2>5, <6>1, RegionNumbers
        <5> QED BY <2>2, <2>4, <2>5, <2>6, <4>3, <5>1, <5>2, Apart
      <4> QED BY <4>1, <4>2, <4>3
    <3>3. ASSUME NEW j \in 1 .. Len(cl), NEW k \in 1 .. Len(cl), j # k
          PROVE  ~ Overlap(cl[j], cl[k])
      <4>1. ~ Overlap(fl[m[j]], fl[m[k]])
        BY <1>8, <2>4, <3>3 DEF DisjointOf
      <4>2. /\ fl[m[j]] \in Region /\ fl[m[k]] \in Region
            /\ cl[j].e <= fl[m[j]].e /\ cl[k].e <= fl[m[k]].e
        <5>1. /\ m[k] \in 1 .. Len(fl) /\ cl[k].e = fl[m[k]].e
              /\ m[j] \in 1 .. Len(fl) /\ cl[j].e = fl[m[j]].e
          BY <2>4
        <5> HIDE DEF fl
        <5> QED BY <2>5, <5>1, RegionNumbers
      <4> QED BY <2>4, <2>5, <4>1, <4>2, Apart
    <3>4. ASSUME NEW a \in Rg, NEW b \in Rg, a # b
          PROVE  ~ Overlap(sym'[p][a], sym'[p][b])
      <4>1. CASE a = rg
        BY <2>6, <3>1, <3>4, <4>1
      <4>2. CASE b = rg
        BY <2>6, <3>1, <3>4, <4>2
      <4>3. CASE a # rg /\ b # rg
        BY <1>8, <2>6, <3>4, <4>3 DEF DisjointOf
      <4> QED BY <4>1, <4>2, <4>3
    <3> QED BY <2>6, <3>2, <3>3, <3>4 DEF DisjointOf
  <2>10. AbsentOf(p)'
    <3>1. ASSUME NEW g \in Page, NEW k \in 1 .. Len(cl), Within(cl[k], g)
          PROVE  pgd[p][g] = Absent
      <4>1. g * PAGESZ \in Int
        BY Sizes DEF Page
      <4>2. /\ m[k] \in 1 .. Len(fl) /\ cl[k].e = fl[m[k]].e
            /\ fl[m[k]].s <= cl[k].s
        BY <2>4
      <4>3. fl[m[k]].s \in Nat /\ cl[k].s \in Nat
        BY <2>5, <2>7, <4>2, RegionNumbers
      <4>4. Within(fl[m[k]], g)
        <5> HIDE DEF fl
        <5> QED BY <3>1, <4>1, <4>2, <4>3 DEF Within
      <4> QED BY <1>8, <4>2, <4>4 DEF AbsentOf
    <3> QED BY <1>4, <1>8, <2>6, <3>1 DEF AbsentOf
  <2>11. Collects(c)'
    <3>1. new = [s |-> start * PAGESZ, e |-> (start + n) * PAGESZ]
      BY <2>1, <2>5 DEF Region
    <3>2. ASSUME NEW g \in start .. start + n - 1 PROVE pgd[p][g] = Absent
      <4>1. g \in Page /\ g * PAGESZ \in Int
        BY <1>9, Sizes DEF Page
      <4>2. Within(fl[i], g)
        BY <1>9, <1>10, <2>1, <2>2, <2>7, <4>1, SMTT(30) DEF Within
      <4> QED BY <1>8, <4>1, <4>2 DEF AbsentOf
    <3> QED BY <1>3, <1>4, <1>6, <1>11, <2>6, <3>1, <3>2 DEF Collects
  <2>12. RegInv'
    BY <1>3, <1>4, <1>5, <1>6, <2>1, <2>6, <2>8, <2>9, <2>10, <2>11, OtherProcesses
  <2> QED BY <1>3, <1>6, <1>8, <2>1, <2>6, <2>12
<1>12. CASE ~ reuse
  <2>1. /\ sbrk[p] = start * PAGESZ
        /\ sbrk' = [sbrk EXCEPT ![p] = (start + n) * PAGESZ]
        /\ sym' = sym /\ freerg' = freerg
    BY <1>1, <1>12
  <2>2. (start + n) * PAGESZ \in 0 .. NPage * PAGESZ
    <3>1. (start + n) * PAGESZ <= NPage * PAGESZ
      BY <1>2, <1>7, PageOrder, Sizes
    <3> QED BY <1>7, <1>10, <3>1
  <2>3. /\ sbrk' \in [Pid -> 0 .. NPage * PAGESZ]
        /\ sbrk'[p] = (start + n) * PAGESZ
        /\ \A q \in Pid \ {p} : sbrk'[q] = sbrk[q]
    BY <1>8, <2>1, <2>2
  <2>4. sbrk[p] <= sbrk'[p]
    BY <1>10, <2>1, <2>3
  <2>5. sbrk[p] \in Nat /\ sbrk'[p] \in Nat
    BY <1>10, <2>1, <2>3
  <2>6. /\ \A a \in Rg : sym[p][a].e \in Nat /\ sym[p][a].e <= sbrk[p]
        /\ \A k \in 1 .. Len(freerg[p]) :
             freerg[p][k].e \in Nat /\ freerg[p][k].e <= sbrk[p] /\ Good(freerg[p][k])
    <3>1. ASSUME NEW a \in Rg PROVE sym[p][a].e \in Nat /\ sym[p][a].e <= sbrk[p]
      BY <1>8, <2>5 DEF AreaOf, NoRegion, Good, Region
    <3>2. ASSUME NEW k \in 1 .. Len(freerg[p])
          PROVE  freerg[p][k].e \in Nat /\ freerg[p][k].e <= sbrk[p] /\ Good(freerg[p][k])
      BY <1>8 DEF AreaOf, Good, Region
    <3> QED BY <3>1, <3>2
  <2>7. AreaOf(p)'
    <3>1. \E b \in Nat : sbrk'[p] = b * PAGESZ
      <4>1. start + n \in Nat
        BY <1>7
      <4> QED BY <2>3, <4>1
    <3>2. \A a \in Rg : \/ sym[p][a] = NoRegion
                        \/ Good(sym[p][a]) /\ sym[p][a].e <= sbrk'[p]
      BY <1>8, <2>4, <2>5, <2>6 DEF AreaOf
    <3>3. \A k \in 1 .. Len(freerg[p]) :
            Good(freerg[p][k]) /\ freerg[p][k].e <= sbrk'[p]
      BY <2>4, <2>5, <2>6
    <3> QED BY <2>1, <3>1, <3>2, <3>3 DEF AreaOf
  <2>8. DisjointOf(p)'
    BY <1>8, <2>1 DEF DisjointOf
  <2>9. AbsentOf(p)'
    <3>1. ASSUME NEW g \in Page, sbrk'[p] <= g * PAGESZ PROVE pgd[p][g] = Absent
      <4>1. g * PAGESZ \in Int
        BY Sizes DEF Page
      <4> QED BY <1>8, <2>4, <2>5, <3>1, <4>1 DEF AbsentOf
    <3> QED BY <1>4, <1>8, <2>1, <3>1 DEF AbsentOf
  <2>10. Collects(c)'
    <3>1. \A g \in start .. start + n - 1 : pgd[p][g] = Absent
      BY <1>8, <1>9, <2>1 DEF AbsentOf
    <3>2. sz > 0
      OBVIOUS
    <3> QED BY <1>2, <1>3, <1>4, <1>6, <1>12, <2>1, <2>3, <2>6, <3>1, <3>2 DEF Collects
  <2>11. RegInv'
    BY <1>3, <1>4, <1>5, <1>6, <2>1, <2>3, <2>7, <2>8, <2>9, <2>10, OtherProcesses
  <2> QED BY <1>3, <1>6, <1>8, <2>1, <2>3, <2>11
<1> QED BY <1>11, <1>12

\* What is known of the process of the instruction under way.
LEMMA RegionFacts ==
  ASSUME IInv, NEW p \in Pid
  PROVE  /\ sym \in [Pid -> [Rg -> Region]] /\ freerg \in [Pid -> Seq(Region)]
         /\ sbrk \in [Pid -> 0 .. NPage * PAGESZ] /\ pgd \in [Pid -> [Page -> Pte]]
         /\ AreaOf(p) /\ DisjointOf(p) /\ AbsentOf(p) /\ GoodList(freerg[p])
         /\ \A a \in Rg : sym[p][a] \in Region /\ (sym[p][a].e # 0 => Good(sym[p][a]))
         /\ sbrk[p] \in Nat
<1>1. /\ sym \in [Pid -> [Rg -> Region]] /\ freerg \in [Pid -> Seq(Region)]
      /\ sbrk \in [Pid -> 0 .. NPage * PAGESZ] /\ pgd \in [Pid -> [Page -> Pte]]
      /\ AreaOf(p) /\ DisjointOf(p) /\ AbsentOf(p) /\ GoodList(freerg[p])
  BY FreeListGood DEF IInv, Types, RegInv, AreaInv, DisjointInv, AbsentInv
<1>2. \A a \in Rg : sym[p][a] \in Region /\ (sym[p][a].e # 0 => Good(sym[p][a]))
  BY <1>1 DEF AreaOf, NoRegion
<1>3. sbrk[p] \in Nat
  BY <1>1, Sizes
<1> QED BY <1>1, <1>2, <1>3

LEMMA FreeRegions ==
  ASSUME IInv, NEW c \in Cpu, NEW p \in Pid, NEW rg \in Rg, Free(c, p, rg)
  PROVE  /\ OpTypes(c) /\ RegInv' /\ op'[c].pc = "free" /\ op'[c].pid = p
         /\ op'[c].frm = <<>> /\ op'[c].peek = <<>>
         /\ op'[c].back = NoFrame /\ op'[c].node = <<>>
         /\ Good(sym[p][rg]) /\ op'[c].start = sym[p][rg].s \div PAGESZ
         /\ op'[c].n = NumPages(sym[p][rg])
<1> DEFINE t == sym[p][rg]
           r == OpRec("free", p, rg, t.s \div PAGESZ, NumPages(t), 0, FALSE)
<1>1. /\ Runs(c, p) /\ t.e # 0 /\ Begin(c, r)
      /\ sym' = sym /\ freerg' = freerg /\ sbrk' = sbrk /\ pgd' = pgd
  BY DEF Free, regvars
<1>2. Good(t)
  BY <1>1, RegionFacts
<1>3. /\ t.s \div PAGESZ \in Page /\ NumPages(t) \in Nat /\ NumPages(t) > 0
      /\ t.s \div PAGESZ + NumPages(t) - 1 <= NPage
  BY <1>2, RegionInSpace
<1>4. /\ r \in OpSet /\ r.pc = "free" /\ r.pid = p /\ r.rg = rg
      /\ r.start = t.s \div PAGESZ /\ r.n = NumPages(t) /\ r.i = 0
      /\ r.frm = <<>> /\ r.peek = <<>>
      /\ r.back = NoFrame /\ r.node = <<>>
  <2>1. "free" \in Pc /\ <<>> \in Seq(RamFrame)
    BY DEF Pc
  <2> DEFINE a == t.s \div PAGESZ
             b == NumPages(t)
  <2>2. a \in Page /\ b \in Nat
    BY <1>3
  <2> HIDE DEF a, b
  <2>3. /\ OpRec("free", p, rg, a, b, 0, FALSE) \in OpSet
    BY <2>1, <2>2 DEF OpRec, OpSet, SwpHand
  <2> QED BY <2>3 DEF OpRec, a, b
<1> HIDE DEF r, t
<1>5. r.i < r.n /\ r.start + r.n - 1 <= NPage /\ Runs(c, r.pid)
  BY <1>1, <1>3, <1>4
<1>6. OpTypes(c) /\ op'[c] = r
  BY <1>1, <1>4, <1>5, BeginStep
<1>7. Releases(c)'
  <2>1. \A g \in r.start .. r.start + r.i - 1 : FALSE
    BY <1>3, <1>4 DEF Page
  <2> QED BY <1>1, <1>2, <1>4, <1>6, <2>1 DEF Releases, t
<1>8. \A d \in Cpu \ {c} : op[d] # NoOp => op[d].pid # p
  BY <1>1 DEF Runs
<1>9. AreaOf(p)' /\ DisjointOf(p)' /\ AbsentOf(p)'
  BY <1>1, RegionFacts DEF AreaOf, DisjointOf, AbsentOf
<1>10. RegInv'
  BY <1>1, <1>4, <1>6, <1>7, <1>8, <1>9, OtherProcesses
<1> QED BY <1>2, <1>4, <1>6, <1>10 DEF t

\* An ALLOC that fails only takes a region away.
LEMMA FailRegions ==
  ASSUME IInv, NEW c \in Cpu, op[c].pc = "frames", AllocFails(c), pgd' = pgd
  PROVE  /\ OpTypes(c) /\ RegInv' /\ op'[c] = NoOp
         /\ sym' \in [Pid -> [Rg -> Region]] /\ UNCHANGED <<freerg, sbrk>>
         /\ corrupt' \subseteq Pid
<1>1. op[c] # NoOp
  BY UnderWay DEF Pc
<1>2. PICK p \in Pid, rg \in Rg :
        /\ p = op[c].pid /\ rg = op[c].rg
        /\ \A d \in Cpu \ {c} : op[d] # NoOp => op[d].pid # p
  BY <1>1, Current DEF IInv
<1>3. /\ OpTypes(c) /\ op'[c] = NoOp /\ op'[c].pc = "idle"
      /\ UNCHANGED <<freerg, sbrk>>
  BY EndStep DEF AllocFails
<1>4. sym' = sym \/ sym' = [sym EXCEPT ![p][rg] = NoRegion]
  BY <1>2 DEF AllocFails, ClearSym
<1>5. corrupt' \subseteq Pid
  BY <1>2 DEF AllocFails, IInv, Types
<1>6. /\ sym' \in [Pid -> [Rg -> Region]]
      /\ \A q \in Pid \ {p} : sym'[q] = sym[q]
      /\ \A a \in Rg : sym'[p][a] = sym[p][a] \/ sym'[p][a] = NoRegion
  <2>1. sym \in [Pid -> [Rg -> Region]]
    BY RegionFacts
  <2>2. CASE sym' = sym
    BY <2>1, <2>2
  <2>3. CASE sym' = [sym EXCEPT ![p][rg] = NoRegion]
    BY <2>1, <2>3, NoRegionType
  <2> QED BY <1>4, <2>2, <2>3
<1>7. AreaOf(p)' /\ AbsentOf(p)'
  BY <1>2, <1>3, <1>6, RegionFacts DEF AreaOf, AbsentOf
<1>8. DisjointOf(p)'
  <2>1. ASSUME NEW a \in Rg, NEW b \in Rg, a # b
        PROVE  ~ Overlap(sym'[p][a], sym'[p][b])
    <3>1. ~ Overlap(sym[p][a], sym[p][b]) /\ sym[p][a] \in Region /\ sym[p][b] \in Region
      BY <1>2, <2>1, RegionFacts DEF DisjointOf
    <3> QED BY <1>6, <3>1, NoRegionApart, NoRegionType
  <2>2. ASSUME NEW a \in Rg, NEW k \in 1 .. Len(freerg[p])
        PROVE  ~ Overlap(sym'[p][a], freerg[p][k])
    <3>1. ~ Overlap(sym[p][a], freerg[p][k]) /\ freerg[p][k] \in Region
      BY <1>2, RegionFacts DEF DisjointOf, GoodList
    <3> QED BY <1>6, <3>1, NoRegionApart
  <2> QED BY <1>2, <1>3, <2>1, <2>2, RegionFacts, SMTT(30) DEF DisjointOf
<1>9. RegInv'
  BY <1>2, <1>3, <1>6, <1>7, <1>8, OtherProcesses
<1> QED BY <1>3, <1>5, <1>6, <1>9

\* vmap_page_range maps pages that were not mapped, all of them in the region
\* that is being allocated.
LEMMA MapEffect ==
  ASSUME IInv, NEW c \in Cpu, MapPages(c), NEW p \in Pid, p = op[c].pid
  PROVE  /\ Collects(c) /\ op[c] # NoOp /\ Len(op[c].frm) = op[c].n
         /\ op[c].start \in Nat /\ op[c].n \in Nat
         /\ \A g \in op[c].start .. op[c].start + op[c].n - 1 :
              /\ g \in Page /\ pgd[p][g] = Absent
              /\ g - op[c].start + 1 \in 1 .. op[c].n
              /\ op[c].frm[g - op[c].start + 1] \in RamFrame
              /\ pgd'[p][g] = InRam(op[c].frm[g - op[c].start + 1])
         /\ \A g \in Page : g \notin op[c].start .. op[c].start + op[c].n - 1 =>
              pgd'[p][g] = pgd[p][g]
         /\ \A q \in Pid \ {p} : pgd'[q] = pgd[q]
         /\ pgd' \in [Pid -> [Page -> Pte]]
<1> DEFINE first == op[c].start
           n == op[c].n
           frm == op[c].frm
           new == first .. first + n - 1
           F == [g \in Page |-> IF g \in new THEN InRam(frm[g - first + 1])
                                ELSE pgd[p][g]]
<1>1. op[c].pc = "frames" /\ Len(frm) = n
  BY DEF MapPages
<1>2. op[c] # NoOp
  BY <1>1, UnderWay DEF Pc
<1>3. Collects(c)
  BY <1>1 DEF IInv, RegInv, WorkInv
<1>4. /\ first \in Nat /\ n \in Nat /\ frm \in Seq(RamFrame)
      /\ \A k \in 0 .. n - 1 : first + k \in Page
  BY <1>2, Current DEF IInv
<1>5. pgd' = [pgd EXCEPT ![p] = F]
  BY DEF MapPages
<1>6. \A g \in new : pgd[p][g] = Absent
  BY <1>3 DEF Collects
<1>7. pgd \in [Pid -> [Page -> Pte]]
  BY RegionFacts
<1> HIDE DEF first, n, frm
<1>8. ASSUME NEW g \in new
      PROVE  g \in Page /\ g - first + 1 \in 1 .. n /\ frm[g - first + 1] \in RamFrame
  <2>1. g - first \in 0 .. n - 1 /\ g = first + (g - first) /\ g - first + 1 \in 1 .. n
    BY <1>4
  <2>2. first + (g - first) \in Page
    BY <1>4, <2>1
  <2> QED BY <1>1, <1>4, <2>1, <2>2
<1> HIDE DEF new
<1>9. F \in [Page -> Pte]
  BY <1>7, <1>8 DEF Pte
<1>10. pgd' \in [Pid -> [Page -> Pte]] /\ pgd'[p] = F /\ \A q \in Pid \ {p} : pgd'[q] = pgd[q]
  <2> HIDE DEF F
  <2> QED BY <1>5, <1>7, <1>9
<1>11. /\ \A g \in new : pgd'[p][g] = InRam(frm[g - first + 1])
       /\ \A g \in Page : g \notin new => pgd'[p][g] = pgd[p][g]
  BY <1>8, <1>10
<1> QED BY <1>1, <1>2, <1>3, <1>4, <1>6, <1>8, <1>10, <1>11 DEF first, n, frm, new

LEMMA MapRegions ==
  ASSUME IInv, NEW c \in Cpu, MapPages(c), OpTypes(c)
  PROVE  RegInv' /\ sym' \in [Pid -> [Rg -> Region]]
<1>1. op[c] # NoOp
  BY UnderWay DEF MapPages, Pc
<1>2. PICK p \in Pid, rg \in Rg, first \in Nat, n \in Nat, size \in Nat :
        /\ p = op[c].pid /\ rg = op[c].rg /\ first = op[c].start
        /\ n = op[c].n /\ size = op[c].size
        /\ \A d \in Cpu \ {c} : op[d] # NoOp => op[d].pid # p
  BY <1>1, Current DEF IInv
<1> DEFINE new == first .. first + n - 1
<1>3. /\ Collects(c)
      /\ \A g \in new : g \in Page
      /\ \A g \in Page : g \notin new => pgd'[p][g] = pgd[p][g]
      /\ \A q \in Pid \ {p} : pgd'[q] = pgd[q]
  BY <1>2, MapEffect
<1>4. /\ freerg' = freerg /\ sbrk' = sbrk
      /\ sym' = IF op[c].reuse THEN sym
                  ELSE [sym EXCEPT ![p][rg] = [s |-> first * PAGESZ,
                                               e |-> first * PAGESZ + size]]
      /\ op'[c].pc = "cache"
  BY <1>1, <1>2, MappedOp DEF MapPages
<1>5. \A g \in new : first * PAGESZ <= g * PAGESZ /\ g * PAGESZ < (first + n) * PAGESZ
  <2> TAKE g \in new
  <2>1. g \in Nat
    BY <1>2
  <2> QED BY <1>2, <2>1, PagesBetween
<1> HIDE DEF new
<1>6. /\ first * PAGESZ \in Nat /\ (first + n) * PAGESZ \in Nat /\ n * PAGESZ \in Nat
      /\ (first + n) * PAGESZ = first * PAGESZ + n * PAGESZ
  BY PageSpan
<1>7. /\ sym \in [Pid -> [Rg -> Region]] /\ sbrk[p] \in Nat /\ sbrk[p] <= NPage * PAGESZ
      /\ AreaOf(p) /\ DisjointOf(p) /\ AbsentOf(p)
      /\ \A a \in Rg : sym[p][a] \in Region
      /\ \A k \in 1 .. Len(freerg[p]) : freerg[p][k] \in Region
  BY RegionFacts, Sizes DEF GoodList
\* Nothing is mapped where nothing may be.
<1>8. AbsentOf(p)' \/ \E g \in new : \/ sbrk[p] <= g * PAGESZ
                                     \/ \E k \in 1 .. Len(freerg[p]) : Within(freerg[p][k], g)
  BY <1>3, <1>4, <1>7 DEF AbsentOf
<1>9. CASE op[c].reuse
  <2>1. sym' = sym
    BY <1>4, <1>9
  <2>2. sym[p][rg] = [s |-> first * PAGESZ, e |-> (first + n) * PAGESZ]
    BY <1>2, <1>3, <1>9 DEF Collects
  <2>3. AreaOf(p)' /\ DisjointOf(p)'
    BY <1>4, <1>7, <2>1 DEF AreaOf, DisjointOf
  <2>4. ASSUME NEW g \in new PROVE ~ (sbrk[p] <= g * PAGESZ)
    <3>1. (first + n) * PAGESZ <= sbrk[p]
      BY <1>6, <1>7, <2>2 DEF AreaOf, NoRegion
    <3>2. g * PAGESZ \in Int
      BY <1>3, Sizes DEF Page
    <3> QED BY <1>5, <1>6, <1>7, <3>1, <3>2
  <2>5. ASSUME NEW g \in new, NEW k \in 1 .. Len(freerg[p]) PROVE ~ Within(freerg[p][k], g)
    <3>1. ~ Overlap(sym[p][rg], freerg[p][k])
      BY <1>7 DEF DisjointOf
    <3>2. g * PAGESZ \in Int
      BY <1>3, Sizes DEF Page
    <3>3. freerg[p][k].s \in Nat /\ freerg[p][k].e \in Nat
      BY <1>7, RegionNumbers
    <3> QED BY <1>5, <1>6, <2>2, <3>1, <3>2, <3>3, SMTT(30) DEF Within, Overlap
  <2>6. AbsentOf(p)'
    BY <1>8, <2>4, <2>5
  <2> QED BY <1>2, <1>3, <1>4, <1>7, <2>1, <2>3, <2>6, OtherProcesses, SMTT(30)
<1>10. CASE ~ op[c].reuse
  <2> DEFINE r == [s |-> first * PAGESZ, e |-> first * PAGESZ + size]
  <2>1. sym' = [sym EXCEPT ![p][rg] = r]
    BY <1>4, <1>10
  <2>2. /\ sbrk[p] = (first + n) * PAGESZ /\ size > 0 /\ size <= n * PAGESZ
        /\ \A a \in Rg : sym[p][a].e <= first * PAGESZ
        /\ \A k \in 1 .. Len(freerg[p]) : freerg[p][k].e <= first * PAGESZ
    BY <1>2, <1>3, <1>10 DEF Collects
  <2>3. /\ r.s = first * PAGESZ /\ r.e = first * PAGESZ + size /\ r.s \in Nat /\ r.e \in Nat
        /\ r.s < r.e /\ r.e <= sbrk[p]
    BY <1>2, <1>6, <2>2, SMTT(30)
  <2>4. r.s \in 0 .. NPage * PAGESZ /\ r.e \in 0 .. NPage * PAGESZ
    BY <1>7, <2>3, Sizes
  <2>5. r \in Region
    BY <2>4 DEF Region
  <2>6. Good(r)
    BY <1>2, <2>3, <2>5 DEF Good
  <2> HIDE DEF r
  <2>7. /\ sym' \in [Pid -> [Rg -> Region]]
        /\ sym'[p][rg] = r /\ \A a \in Rg \ {rg} : sym'[p][a] = sym[p][a]
        /\ \A q \in Pid \ {p} : sym'[q] = sym[q]
    BY <1>7, <2>1, <2>5
  <2>8. AreaOf(p)'
    BY <1>4, <1>7, <2>3, <2>6, <2>7 DEF AreaOf
  <2>9. DisjointOf(p)'
    <3>1. \A a \in Rg : ~ Overlap(sym[p][a], r) /\ ~ Overlap(r, sym[p][a])
      BY <1>7, <2>2, <2>3, <2>5, Apart
    <3>2. \A k \in 1 .. Len(freerg[p]) : ~ Overlap(r, freerg[p][k])
      BY <1>7, <2>2, <2>3, <2>5, Apart
    <3>3. \A a, b \in Rg : a # b => ~ Overlap(sym'[p][a], sym'[p][b])
      BY <1>7, <2>7, <3>1 DEF DisjointOf
    <3>4. \A a \in Rg, k \in 1 .. Len(freerg[p]) : ~ Overlap(sym'[p][a], freerg[p][k])
      BY <1>7, <2>7, <3>2 DEF DisjointOf
    <3> QED BY <1>4, <1>7, <3>3, <3>4 DEF DisjointOf
  <2>10. ASSUME NEW g \in new
         PROVE  /\ ~ (sbrk[p] <= g * PAGESZ)
                /\ \A k \in 1 .. Len(freerg[p]) : ~ Within(freerg[p][k], g)
    <3>1. g * PAGESZ \in Int
      BY <1>3, Sizes DEF Page
    <3>2. \A k \in 1 .. Len(freerg[p]) : freerg[p][k].e \in Nat
      BY <1>7, RegionNumbers
    <3> QED BY <1>5, <1>6, <2>2, <3>1, <3>2, SMTT(30) DEF Within
  <2>11. AbsentOf(p)'
    BY <1>8, <2>10
  <2> QED BY <1>2, <1>3, <1>4, <2>7, <2>8, <2>9, <2>11, OtherProcesses
<1> QED BY <1>9, <1>10

\* One turn of the loop of __free.
LEMMA FreePageRegions ==
  ASSUME IInv, NEW c \in Cpu, FreePage(c), OpTypes(c)
  PROVE  /\ RegInv' /\ sym' \in [Pid -> [Rg -> Region]]
         /\ freerg' \in [Pid -> Seq(Region)]
<1>1. op[c] # NoOp /\ op[c].pc = "free"
  BY UnderWay DEF FreePage, Pc
<1>2. PICK p \in Pid, rg \in Rg, first \in Nat, n \in Nat, i \in Nat, g \in Page :
        /\ p = op[c].pid /\ rg = op[c].rg /\ first = op[c].start
        /\ n = op[c].n /\ i = op[c].i /\ g = first + i /\ g = Page0(c) /\ i < n
        /\ \A d \in Cpu \ {c} : op[d] # NoOp => op[d].pid # p
  <2>1. Page0(c) = op[c].start + op[c].i
    BY DEF Page0
  <2>2. op[c].i < op[c].n
    BY <1>1 DEF IInv, OpInv
  <2>3. /\ op[c].pid \in Pid /\ op[c].rg \in Rg /\ op[c].start \in Nat
        /\ op[c].n \in Nat /\ op[c].i \in Nat /\ Page0(c) \in Page
        /\ \A d \in Cpu \ {c} : op[d] # NoOp => op[d].pid # op[c].pid
    BY <1>1, Current DEF IInv
  <2> QED BY <2>1, <2>2, <2>3
<1>3. PICK r \in Region : r = sym[p][rg]
  BY RegionFacts
<1>4. /\ Good(r) /\ first = r.s \div PAGESZ /\ n = NumPages(r)
      /\ \A h \in first .. first + i - 1 : pgd[p][h] = Absent
  BY <1>1, <1>2, <1>3 DEF IInv, RegInv, WorkInv, Releases
<1>5. /\ sym \in [Pid -> [Rg -> Region]] /\ freerg \in [Pid -> Seq(Region)]
      /\ pgd \in [Pid -> [Page -> Pte]]
      /\ AreaOf(p) /\ DisjointOf(p) /\ AbsentOf(p)
      /\ \A a \in Rg : sym[p][a] \in Region
      /\ \A k \in 1 .. Len(freerg[p]) : freerg[p][k] \in Region
  BY RegionFacts DEF GoodList
<1>6. pgd' = [pgd EXCEPT ![p][g] = Absent] /\ sbrk' = sbrk
  BY <1>2 DEF FreePage
<1>7. /\ pgd'[p][g] = Absent /\ \A h \in Page \ {g} : pgd'[p][h] = pgd[p][h]
      /\ \A q \in Pid \ {p} : pgd'[q] = pgd[q]
  BY <1>5, <1>6
<1>8. \A h \in first .. first + i : pgd'[p][h] = Absent
  <2>1. \A h \in first .. first + n - 1 : h \in Page
    <3>1. \A k \in 0 .. n - 1 : first + k \in Page
      BY <1>1, <1>2, Current DEF IInv
    <3>2. \A h \in first .. first + n - 1 : h - first \in 0 .. n - 1 /\ h = first + (h - first)
      BY <1>2
    <3> QED BY <3>1, <3>2
  <2>2. \A h \in first .. first + i : h \in first .. first + n - 1 /\ (h = g \/ h \in first .. first + i - 1)
    BY <1>2
  <2> QED BY <1>4, <1>7, <2>1, <2>2
<1>9. CASE ~ IsLast(c)
  <2>1. sym' = sym /\ freerg' = freerg /\ op' = [op EXCEPT ![c].i = @ + 1]
    BY <1>9 DEF FreePage
  <2>2. /\ op'[c].pc = "free" /\ op'[c].pid = p /\ op'[c].rg = rg
        /\ op'[c].start = first /\ op'[c].n = n /\ op'[c].i = i + 1
    BY <1>1, <1>2, <1>9, <2>1, NextPageOp
  <2>3. Releases(c)'
    <3>1. first + (i + 1) - 1 = first + i
      BY <1>2
    <3> QED BY <1>3, <1>4, <1>8, <2>1, <2>2, <3>1 DEF Releases
  <2>4. AreaOf(p)' /\ DisjointOf(p)'
    BY <1>5, <1>6, <2>1 DEF AreaOf, DisjointOf
  <2>5. AbsentOf(p)'
    BY <1>5, <1>6, <1>7, <2>1 DEF AbsentOf
  <2> QED BY <1>2, <1>5, <1>6, <1>7, <2>1, <2>2, <2>3, <2>4, <2>5, OtherProcesses
<1>10. CASE IsLast(c)
  <2>1. /\ freerg' = [freerg EXCEPT ![p] = <<r>> \o @]
        /\ sym' = [sym EXCEPT ![p][rg] = NoRegion] /\ End(c)
    BY <1>2, <1>3, <1>10 DEF FreePage, ClearSym
  <2>2. op'[c] = NoOp /\ op'[c].pc = "idle"
    BY <2>1, EndStep
  <2> DEFINE fl == freerg[p]
             nl == <<r>> \o fl
  <2>3. fl \in Seq(Region)
    BY <1>5
  <2>4. /\ nl \in Seq(Region) /\ nl[1] = r
        /\ \A k \in 1 .. Len(nl) : k = 1 \/ (k - 1 \in 1 .. Len(fl) /\ nl[k] = fl[k - 1])
    <3> HIDE DEF fl
    <3> QED BY <2>3, PutFirst
  <2> HIDE DEF nl
  <2>5. /\ freerg'[p] = nl /\ \A q \in Pid \ {p} : freerg'[q] = freerg[q]
        /\ freerg' \in [Pid -> Seq(Region)]
    BY <1>5, <2>1, <2>4 DEF nl
  <2>6. /\ sym'[p][rg] = NoRegion /\ \A a \in Rg \ {rg} : sym'[p][a] = sym[p][a]
        /\ \A q \in Pid \ {p} : sym'[q] = sym[q]
        /\ sym' \in [Pid -> [Rg -> Region]]
    BY <1>5, <2>1, NoRegionType
  <2>7. AreaOf(p)'
    <3>1. r.e <= sbrk[p]
      BY <1>3, <1>4, <1>5, RegionNumbers DEF AreaOf, NoRegion, Good
    <3>2. \A k \in 1 .. Len(nl) : Good(nl[k]) /\ nl[k].e <= sbrk[p]
      BY <1>4, <1>5, <2>4, <3>1 DEF AreaOf
    <3>3. \A a \in Rg : \/ sym'[p][a] = NoRegion
                        \/ Good(sym'[p][a]) /\ sym'[p][a].e <= sbrk[p]
      <4> TAKE a \in Rg
      <4>1. CASE a = rg
        BY <2>6, <4>1
      <4>2. CASE a # rg
        BY <1>5, <2>6, <4>2 DEF AreaOf
      <4> QED BY <4>1, <4>2
    <3>4. \E b \in Nat : sbrk[p] = b * PAGESZ
      BY <1>5 DEF AreaOf
    <3> QED BY <1>6, <2>5, <3>2, <3>3, <3>4 DEF AreaOf
  <2>8. DisjointOf(p)'
    <3>1. ASSUME NEW a \in Rg, NEW b \in Rg, a # b
          PROVE  ~ Overlap(sym'[p][a], sym'[p][b])
      <4>1. ~ Overlap(sym[p][a], sym[p][b]) /\ sym[p][a] \in Region /\ sym[p][b] \in Region
        BY <1>5, <3>1 DEF DisjointOf
      <4> QED BY <2>6, <4>1, NoRegionApart, NoRegionType
    <3>2. ASSUME NEW a \in Rg, NEW k \in 1 .. Len(nl)
          PROVE  ~ Overlap(sym'[p][a], nl[k])
      <4>1. nl[k] \in Region
        BY <2>4
      <4>2. CASE a = rg
        BY <2>6, <4>1, <4>2, NoRegionApart
      <4>3. CASE a # rg /\ k = 1
        BY <1>3, <1>5, <2>4, <2>6, <4>3 DEF DisjointOf
      <4>4. CASE a # rg /\ k # 1
        BY <1>5, <2>4, <2>6, <4>4 DEF DisjointOf
      <4> QED BY <4>2, <4>3, <4>4
    <3>3. \A k \in 1 .. Len(fl) : ~ Overlap(r, fl[k]) /\ ~ Overlap(fl[k], r)
      BY <1>3, <1>5, Apart DEF DisjointOf
    <3>4. ASSUME NEW j \in 1 .. Len(nl), NEW k \in 1 .. Len(nl), j # k
          PROVE  ~ Overlap(nl[j], nl[k])
      <4>1. CASE j = 1
        BY <2>4, <3>3, <3>4, <4>1
      <4>2. CASE k = 1
        BY <2>4, <3>3, <3>4, <4>2
      <4>3. CASE j # 1 /\ k # 1
        <5>1. /\ j - 1 \in 1 .. Len(fl) /\ nl[j] = fl[j - 1]
              /\ k - 1 \in 1 .. Len(fl) /\ nl[k] = fl[k - 1]
          BY <2>4, <4>3
        <5>2. j - 1 # k - 1
          BY <3>4
        <5> QED BY <1>5, <5>1, <5>2 DEF DisjointOf
      <4> QED BY <4>1, <4>2, <4>3
    <3> QED BY <2>5, <3>1, <3>2, <3>4 DEF DisjointOf
  <2>9. AbsentOf(p)'
    <3>1. ASSUME NEW h \in Page, Within(r, h) PROVE pgd'[p][h] = Absent
      <4>1. h \in PagesOf(r) /\ h \in Nat
        BY <1>4, <3>1, RegionPages DEF Within, Page
      <4>2. h \in first .. first + n - 1
        BY <1>4, <4>1, RegionPages
      <4>3. i + 1 = n
        BY <1>2, <1>10 DEF IsLast
      <4>4. first + n - 1 = first + i
        BY <1>2, <4>3
      <4> QED BY <1>8, <4>2, <4>4
    <3>2. ASSUME NEW h \in Page, NEW k \in 1 .. Len(nl), Within(nl[k], h)
          PROVE  pgd'[p][h] = Absent
      <4>1. CASE k = 1
        BY <2>4, <3>1, <3>2, <4>1
      <4>2. CASE k # 1
        BY <1>5, <1>7, <2>4, <3>2, <4>2 DEF AbsentOf
      <4> QED BY <4>1, <4>2
    <3> QED BY <1>5, <1>6, <1>7, <2>5, <3>2 DEF AbsentOf
  <2>10. \A q \in Pid \ {p} : /\ sym'[q] = sym[q] /\ freerg'[q] = freerg[q]
                               /\ sbrk'[q] = sbrk[q] /\ pgd'[q] = pgd[q]
    BY <1>6, <1>7, <2>5, <2>6
  <2>11. op'[c].pc # "frames" /\ op'[c].pc # "free"
    BY <2>2
  <2>12. \A d \in Cpu \ {c} : op[d] # NoOp => op[d].pid # p
    BY <1>2
  <2>13. RegInv'
    BY <2>7, <2>8, <2>9, <2>10, <2>11, <2>12, OtherProcesses
  <2> QED BY <2>5, <2>6, <2>13
<1> QED BY <1>9, <1>10

RegionTypes ==
  /\ sym \in [Pid -> [Rg -> Region]] /\ freerg \in [Pid -> Seq(Region)]
  /\ sbrk \in [Pid -> 0 .. NPage * PAGESZ] /\ corrupt \subseteq Pid

LEMMA RegionsNext ==
  ASSUME IInv, NEW c \in Cpu, Start(c) \/ Step(c)
  PROVE  OpTypes(c) /\ RegInv' /\ RegionTypes'
<1>1. RegionTypes
  BY DEF IInv, Types, RegionTypes
<1>2. CASE OpTypes(c) /\ Quiet(c)
  BY <1>1, <1>2, QuietRegions DEF Quiet, regvars, RegionTypes
<1>3. ASSUME NEW p \in Pid, NEW rg \in Rg, NEW sz \in 1 .. MaxSize, Alloc(c, p, rg, sz)
      PROVE  OpTypes(c) /\ RegInv' /\ RegionTypes'
  BY <1>1, <1>3, AllocRegions DEF Alloc, RegionTypes
<1>4. ASSUME NEW p \in Pid, NEW rg \in Rg, Free(c, p, rg) PROVE OpTypes(c) /\ RegInv' /\ RegionTypes'
  BY <1>1, <1>4, FreeRegions DEF Free, regvars, RegionTypes
<1>5. CASE NoVictim(c)
  <2>1. op[c].pc = "frames" /\ AllocFails(c) /\ pgd' = pgd
    BY <1>5 DEF NoVictim
  <2> QED BY <1>1, <2>1, FailRegions DEF RegionTypes
<1>6. CASE NoSwap(c)
  <2>1. op[c].pc = "frames" /\ AllocFails(c) /\ pgd' = pgd
    BY <1>6 DEF NoSwap
  <2> QED BY <1>1, <2>1, FailRegions DEF RegionTypes
<1>7. CASE MapPages(c)
  <2>1. OpTypes(c)
    BY <1>7, QuietStep DEF Step
  <2>2. RegInv' /\ sym' \in [Pid -> [Rg -> Region]]
    BY <1>7, <2>1, MapRegions
  <2>3. UNCHANGED <<freerg, sbrk, corrupt>>
    BY <1>7 DEF MapPages
  <2> QED BY <1>1, <2>1, <2>2, <2>3 DEF RegionTypes
<1>8. CASE FreePage(c)
  <2>1. OpTypes(c)
    BY <1>8, QuietStep DEF Step
  <2>2. /\ RegInv' /\ sym' \in [Pid -> [Rg -> Region]]
        /\ freerg' \in [Pid -> Seq(Region)]
    BY <1>8, <2>1, FreePageRegions
  <2>3. UNCHANGED <<sbrk, corrupt>>
    BY <1>8 DEF FreePage
  <2> QED BY <1>1, <2>1, <2>2, <2>3 DEF RegionTypes
<1>9. CASE Regional(c)
  BY <1>3, <1>4, <1>5, <1>6, <1>7, <1>8, <1>9 DEF Regional
<1> QED BY <1>2, <1>9, QuietStart, QuietStep

-----------------------------------------------------------------------------
(* Types, and the size of the TLB.                                         *)

\* What is not about the regions.
MemTypes ==
  /\ lock \in Cpu \cup {NoCpu}
  /\ pgd \in [Pid -> [Page -> Pte]]
  /\ fifo \in [Pid -> Seq(Page)]
  /\ freeRam \in Seq(RamFrame) /\ freeSwp \in Seq(SwpFrame)
  /\ ram \in [RamFrame -> Label] /\ swp \in [SwpFrame -> Label]
  /\ tlb \in [Pid \X Page -> RamFrame \cup {Miss}]
  /\ written \subseteq Pid \X Page
  /\ RoomInv

LEMMA RoomKept == tlb' = tlb /\ RoomInv => RoomInv'
BY DEF RoomInv, T!Stored, T!Key

LEMMA WriteByteTypes ==
  ASSUME MemTypes, NEW p \in Pid, NEW g \in Page, NEW f \in RamFrame,
         WriteByte(p, g, f)
  PROVE  ram' \in [RamFrame -> Label] /\ written' \subseteq Pid \X Page
<1>1. <<p, g>> \in Label /\ <<p, g>> \in Pid \X Page
  BY DEF Label
<1> QED BY <1>1 DEF MemTypes, WriteByte

\* A CPU between instructions begins one, and takes the lock, leaves it or,
\* in a READ out of range, gives it back.
LEMMA StartFacts ==
  ASSUME NEW c \in Cpu, Start(c)
  PROVE  op[c] = NoOp /\ (lock' = lock \/ lock' = c \/ lock' = NoCpu)
<1> DEFINE G == op[c] = NoOp /\ (lock' = lock \/ lock' = c \/ lock' = NoCpu)
<1>1. \A p : BadRegion(c, p) => G
  BY DEF BadRegion, Runs, Lock
<1>2. \A p : AllocZero(c, p) => G
  BY DEF AllocZero, Runs, Lock
<1>3. \A p, rg : Free(c, p, rg) => G
  BY DEF Free, Runs, Lock
<1>4. \A p, rg, sz : Alloc(c, p, rg, sz) => G
  BY DEF Alloc, Runs, Lock
<1>5. \A p, rg, off : WriteHit(c, p, rg, off) => G
  BY DEF WriteHit, Runs
<1>6. \A p, rg, off : WriteMiss(c, p, rg, off) => G
  BY DEF WriteMiss, Runs, Lock
<1>7. \A p, rg, off : ReadOutOfRange(c, p, rg, off) => G
  BY DEF ReadOutOfRange, Runs, Unlock
<1>8. \A p, rg, off : ReadMiss(c, p, rg, off) => G
  BY DEF ReadMiss, Runs
<1> HIDE DEF G
<1>9. G
  BY <1>1, <1>2, <1>3, <1>4, <1>5, <1>6, <1>7, <1>8 DEF Start
<1> QED BY <1>9 DEF G

LEMMA StartMemTypes ==
  ASSUME IInv, NEW c \in Cpu, Start(c)
  PROVE  MemTypes'
<1>1. MemTypes
  BY DEF IInv, Types, MemTypes
<1>2. lock' \in Cpu \cup {NoCpu}
  BY <1>1, StartFacts DEF MemTypes
<1>3. ASSUME NEW p \in Pid, NEW rg \in Rg, Free(c, p, rg) PROVE MemTypes'
  <2>1. T!Invalidate(p, PagesOf(sym[p][rg])) /\ UNCHANGED <<pgd, fifo, memvars, written>>
    BY <1>3 DEF Free
  <2>2. tlb' \in [Pid \X Page -> RamFrame \cup {Miss}] /\ RoomInv'
    BY <1>1, <2>1, Invalidates DEF MemTypes
  <2> QED BY <1>1, <1>2, <2>1, <2>2 DEF MemTypes, memvars
<1>4. ASSUME NEW p \in Pid, NEW rg \in Rg, NEW sz \in 1 .. MaxSize, Alloc(c, p, rg, sz)
      PROVE  MemTypes'
  BY <1>1, <1>2, <1>4, RoomKept DEF Alloc, MemTypes, memvars
<1>5. ASSUME NEW p \in Pid, NEW rg \in Rg, NEW off \in 0 .. MaxSize,
             WriteHit(c, p, rg, off)
      PROVE  ram' \in [RamFrame -> Label] /\ written' \subseteq Pid \X Page
  <2> DEFINE g == PageAt(p, rg, off)
  <2>1. /\ InRange(p, rg, off) /\ tlb[<<p, g>>] # Miss
        /\ WriteByte(p, g, tlb[<<p, g>>])
    BY <1>5 DEF WriteHit
  <2>2. g \in Page
    BY <2>1, AddressPage DEF IInv
  <2>3. tlb[<<p, g>>] \in RamFrame
    BY <1>1, <2>1, <2>2 DEF MemTypes
  <2> QED BY <1>1, <2>1, <2>2, <2>3, WriteByteTypes
<1>6. CASE /\ UNCHANGED <<pgd, fifo, freeRam, freeSwp, swp, tlb>>
           /\ \/ ram' = ram /\ written' = written
              \/ \E p \in Pid, rg \in Rg, off \in 0 .. MaxSize : WriteHit(c, p, rg, off)
  <2>1. ram' \in [RamFrame -> Label] /\ written' \subseteq Pid \X Page
    BY <1>1, <1>5, <1>6 DEF MemTypes
  <2> QED BY <1>1, <1>2, <1>6, <2>1, RoomKept DEF MemTypes
<1>7. CASE Regional(c)
  <2>1. op[c] = NoOp
    BY StartFacts
  <2>2. op[c].pc = "idle"
    BY <2>1 DEF NoOp
  <2> QED BY <1>3, <1>4, <1>7, <2>2 DEF Regional, NoVictim, NoSwap, MapPages, FreePage
<1> QED BY <1>6, <1>7, QuietStart

\* A process's list of pages is replaced.
LEMMA FifoTypes ==
  ASSUME MemTypes, NEW p \in Pid, NEW s \in Seq(Page),
         fifo' = [fifo EXCEPT ![p] = s]
  PROVE  /\ fifo' \in [Pid -> Seq(Page)] /\ fifo'[p] = s
         /\ \A q \in Pid \ {p} : fifo'[q] = fifo[q]
BY DEF MemTypes

LEMMA PopTypes ==
  ASSUME MemTypes, NEW p \in Pid, PopVictim(p)
  PROVE  /\ fifo' \in [Pid -> Seq(Page)]
         /\ fifo'[p] = IF fifo[p] = <<>> THEN fifo[p] ELSE Front(fifo[p])
         /\ \A q \in Pid \ {p} : fifo'[q] = fifo[q]
<1> DEFINE s == IF fifo[p] = <<>> THEN fifo[p] ELSE Front(fifo[p])
<1>1. fifo[p] \in Seq(Page)
  BY DEF MemTypes
<1>2. s \in Seq(Page)
  BY <1>1, TakeLast
<1>3. fifo' = [fifo EXCEPT ![p] = s]
  BY DEF PopVictim
<1> HIDE DEF s
<1>4. fifo' \in [Pid -> Seq(Page)] /\ fifo'[p] = s /\ \A q \in Pid \ {p} : fifo'[q] = fifo[q]
  BY <1>2, <1>3, FifoTypes
<1> QED BY <1>4 DEF s

\* The list of the pages just mapped.
NewPages(first, n) == [i \in 1 .. n |-> first + n - i]

LEMMA NewPagesList ==
  ASSUME NEW first \in Nat, NEW n \in Nat,
         \A k \in 0 .. n - 1 : first + k \in Page
  PROVE  /\ NewPages(first, n) \in Seq(Page) /\ Len(NewPages(first, n)) = n
         /\ \A i \in 1 .. n : /\ NewPages(first, n)[i] = first + n - i
                              /\ first + n - i \in first .. first + n - 1
         /\ NoRepeat(NewPages(first, n))
<1> DEFINE s == NewPages(first, n)
<1>1. \A i \in 1 .. n : first + n - i \in Page
  <2> TAKE i \in 1 .. n
  <2>1. n - i \in 0 .. n - 1 /\ first + n - i = first + (n - i)
    OBVIOUS
  <2> QED BY <2>1
<1>2. s \in Seq(Page) /\ Len(s) = n /\ \A i \in 1 .. n : s[i] = first + n - i
  BY <1>1 DEF NewPages
<1> HIDE DEF s
<1>3. NoRepeat(s)
  BY <1>2 DEF NoRepeat
<1> QED BY <1>2, <1>3 DEF s

\* An instruction that ends gives the lock back, or did not take it.
LEMMA StepLock ==
  ASSUME NEW c \in Cpu, Step(c)
  PROVE  lock' = lock \/ lock' = NoCpu
<1> DEFINE G == lock' = lock \/ lock' = NoCpu
<1>1. \/ TakeFrame(c) \/ SwapOut(c) \/ MapPages(c) \/ FaultPeek(c)
      \/ SwapIn(c) \/ SwapPeek(c) \/ SwapBack(c) \/ ReadPage(c)
      => G
  BY DEF TakeFrame, SwapOut, MapPages, FaultPeek, SwapIn, SwapPeek, SwapBack, ReadPage
<1>2. NoVictim(c) \/ NoSwap(c) => G
  BY DEF NoVictim, NoSwap, AllocFails, Unlock
<1>3. CachePage(c) \/ FreePage(c) => G
  BY DEF CachePage, FreePage, Unlock
<1>4. FaultFails(c) \/ PageAbsent(c) \/ WritePage(c) => G
  BY DEF FaultFails, PageAbsent, WritePage, Unlock
<1> HIDE DEF G
<1>5. G
  BY <1>1, <1>2, <1>3, <1>4 DEF Step
<1> QED BY <1>5 DEF G

-----------------------------------------------------------------------------
(* The TLB and fifo_pgn, step by step.                                     *)

Rest == MemTypes /\ TlbInv /\ FifoInv /\ BackInv

LEMMA RestHolds == IInv => Rest
BY DEF IInv, Types, MemTypes, Rest

LEMMA FifoKept ==
  ASSUME IInv, fifo' = fifo, pgd' = pgd PROVE FifoInv'
BY DEF IInv, FifoInv

\* The instruction of c has no swap frame to give back, or its page is as it
\* should be, and the other processes are left alone.
LEMMA BackKept ==
  ASSUME IInv, NEW c \in Cpu, OpTypes(c), NEW p \in Pid,
         \A d \in Cpu \ {c} : op[d] # NoOp => op[d].pid # p,
         \A q \in Pid \ {p} : fifo'[q] = fifo[q] /\ pgd'[q] = pgd[q],
         Returning(c)' => BackOf(c)'
  PROVE  BackInv'
<1> SUFFICES ASSUME NEW d \in Cpu \ {c}, Returning(d)' PROVE BackOf(d)'
  BY DEF BackInv
<1>1. op'[d] = op[d]
  BY DEF OpTypes
<1>2. Returning(d) /\ op[d] # NoOp
  BY <1>1 DEF Returning
<1>3. op[d].pid \in Pid \ {p}
  BY <1>2, Current DEF IInv
<1>4. BackOf(d)
  BY <1>2 DEF IInv, BackInv
<1> QED BY <1>1, <1>3, <1>4 DEF BackOf, Page0

LEMMA BackSame ==
  ASSUME IInv, NEW c \in Cpu, OpTypes(c), UNCHANGED <<pgd, fifo>>,
         Returning(c)' => BackOf(c)'
  PROVE  BackInv'
<1> SUFFICES ASSUME NEW d \in Cpu \ {c}, Returning(d)' PROVE BackOf(d)'
  BY DEF BackInv
<1>1. op'[d] = op[d]
  BY DEF OpTypes
<1>2. BackOf(d)
  BY <1>1 DEF IInv, BackInv, Returning
<1> QED BY <1>1, <1>2 DEF BackOf, Page0

\* An instruction that collects frames has none to give back.
LEMMA NoneInHand ==
  ASSUME IInv, NEW c \in Cpu, op[c].pc = "frames"
  PROVE  op[c].back = NoFrame
<1>1. op[c] # NoOp
  BY UnderWay DEF Pc
<1>2. ~ BackOf(c)
  BY DEF BackOf
<1> QED BY <1>1, <1>2 DEF IInv, BackInv, Returning

\* A step of the CPU that runs p is no FREE of another process.
LEMMA FreeMissKept ==
  ASSUME IInv, NEW c \in Cpu, OpTypes(c), NEW p \in Pid,
         \A d \in Cpu \ {c} : op[d] # NoOp => op[d].pid # p,
         \A q \in Pid \ {p}, g \in Page :
           tlb'[<<q, g>>] = tlb[<<q, g>>] \/ tlb'[<<q, g>>] = Miss,
         op'[c].pc = "free" =>
           \A g \in op'[c].start .. op'[c].start + op'[c].n - 1 :
             tlb'[<<op'[c].pid, g>>] = Miss
  PROVE  FreeMissInv'
<1> SUFFICES ASSUME NEW d \in Cpu, op'[d].pc = "free",
                    NEW g \in op'[d].start .. op'[d].start + op'[d].n - 1
             PROVE  tlb'[<<op'[d].pid, g>>] = Miss
  BY DEF FreeMissInv
<1>1. CASE d = c
  BY <1>1
<1>2. CASE d # c
  <2>1. op'[d] = op[d] /\ op[d].pc = "free"
    BY <1>2 DEF OpTypes
  <2>2. op[d] # NoOp
    BY <2>1, UnderWay DEF Pc
  <2>3. op[d].pid \in Pid \ {p}
    BY <1>2, <2>2, Current DEF IInv
  <2>4. g \in Page
    <3>1. /\ op[d].start \in Nat /\ op[d].n \in Nat
          /\ \A k \in 0 .. op[d].n - 1 : op[d].start + k \in Page
      BY <2>2, Current DEF IInv
    <3>2. g - op[d].start \in 0 .. op[d].n - 1 /\ g = op[d].start + (g - op[d].start)
      BY <2>1, <3>1
    <3> QED BY <3>1, <3>2
  <2>5. tlb[<<op[d].pid, g>>] = Miss
    BY <2>1 DEF IInv, TlbInv, FreeMissInv
  <2> QED BY <2>1, <2>3, <2>4, <2>5
<1> QED BY <1>1, <1>2

\* A page that is not in RAM is not in the TLB.
LEMMA NotCached ==
  ASSUME IInv, NEW p \in Pid, NEW g \in Page, pgd[p][g].st # "ram"
  PROVE  tlb[<<p, g>>] = Miss
<1>1. \A x : InRam(x).st = "ram"
  BY DEF InRam
<1>2. tlb[<<p, g>>] # Miss => pgd[p][g] = InRam(tlb[<<p, g>>])
  BY DEF IInv, TlbInv, TlbCoherent
<1> QED BY <1>1, <1>2

\* Steps that touch none of these.
LEMMA RestKept ==
  ASSUME IInv, NEW c \in Cpu, OpTypes(c),
         UNCHANGED <<pgd, fifo, tlb>>,
         op'[c].pc = "free" => SameWork(c),
         Returning(c)' => Returning(c) /\ SameWork(c)
  PROVE  TlbInv' /\ FifoInv' /\ BackInv'
<1>1. FifoInv' /\ BackInv'
  <2>1. Returning(c)' => BackOf(c)'
    BY DEF IInv, BackInv, BackOf, SameWork, Page0
  <2> QED BY <2>1, FifoKept, BackSame
<1>2. TlbCoherent'
  BY DEF IInv, TlbInv, TlbCoherent
<1>3. FreeMissInv'
  BY DEF IInv, TlbInv, FreeMissInv, OpTypes, SameWork
<1> QED BY <1>1, <1>2, <1>3 DEF TlbInv

\* A hit for a page of p that is in the frame it says.
LEMMA StoreKeeps ==
  ASSUME IInv, NEW c \in Cpu, OpTypes(c), op[c] # NoOp, op'[c].pc # "free",
         T!Store(op[c].pid, Page0(c), pgd[op[c].pid][Page0(c)].n),
         pgd[op[c].pid][Page0(c)].st = "ram", ~ Returning(c)',
         UNCHANGED <<pgd, fifo>>
  PROVE  /\ TlbInv' /\ FifoInv' /\ BackInv' /\ RoomInv'
         /\ tlb' \in [Pid \X Page -> RamFrame \cup {Miss}]
<1>1. PICK p \in Pid, g \in Page :
        /\ p = op[c].pid /\ g = Page0(c)
        /\ \A d \in Cpu \ {c} : op[d] # NoOp => op[d].pid # p
  BY Current DEF IInv
<1>2. pgd[p][g].n \in RamFrame /\ pgd[p][g] = InRam(pgd[p][g].n)
  BY <1>1, PteFacts DEF IInv
<1>3. /\ tlb' \in [Pid \X Page -> RamFrame \cup {Miss}]
      /\ tlb'[<<p, g>>] = pgd[p][g].n
      /\ \A k \in Pid \X Page :
           k = <<p, g>> \/ tlb'[k] = tlb[k] \/ tlb'[k] = Miss
      /\ RoomInv'
  BY <1>1, <1>2, Stores DEF IInv, Types
<1>4. TlbCoherent'
  <2> SUFFICES ASSUME NEW q \in Pid, NEW h \in Page, tlb'[<<q, h>>] # Miss
               PROVE  pgd[q][h] = InRam(tlb'[<<q, h>>])
    BY DEF TlbCoherent
  <2>1. <<q, h>> \in Pid \X Page /\ (<<q, h>> = <<p, g>> <=> q = p /\ h = g)
    OBVIOUS
  <2> QED BY <1>2, <1>3, <2>1 DEF IInv, TlbInv, TlbCoherent
<1>5. \A q \in Pid \ {p}, h \in Page :
        tlb'[<<q, h>>] = tlb[<<q, h>>] \/ tlb'[<<q, h>>] = Miss
  <2> TAKE q \in Pid \ {p}, h \in Page
  <2>1. <<q, h>> \in Pid \X Page /\ <<q, h>> # <<p, g>>
    OBVIOUS
  <2> QED BY <1>3, <2>1
<1>6. FreeMissInv'
  BY <1>1, <1>5, FreeMissKept
<1> QED BY <1>3, <1>4, <1>6, FifoKept, BackSame DEF TlbInv

\* A step that changes the pages and the list of process p only.
LEMMA FifoChanged ==
  ASSUME IInv, NEW p \in Pid, NEW s, fifo'[p] = s, NoRepeat(s),
         \A k \in 1 .. Len(s) : pgd'[p][s[k]].st = "ram",
         \A q \in Pid \ {p} : fifo'[q] = fifo[q] /\ pgd'[q] = pgd[q]
  PROVE  FifoInv'
<1> SUFFICES ASSUME NEW q \in Pid
             PROVE  /\ NoRepeat(fifo'[q])
                    /\ \A k \in 1 .. Len(fifo'[q]) : pgd'[q][fifo'[q][k]].st = "ram"
  BY DEF FifoInv, NoRepeat
<1>1. CASE q = p
  BY <1>1
<1>2. CASE q # p
  <2>1. fifo'[q] = fifo[q] /\ pgd'[q] = pgd[q]
    BY <1>2
  <2>2. NoRepeat(fifo[q]) /\ \A k \in 1 .. Len(fifo[q]) : pgd[q][fifo[q][k]].st = "ram"
    BY DEF IInv, FifoInv
  <2> QED BY <2>1, <2>2
<1> QED BY <1>1, <1>2

\* The victim goes to the swap.
LEMMA SwapOutRest ==
  ASSUME IInv, NEW c \in Cpu, OpTypes(c), SwapOut(c)
  PROVE  Rest'
<1>1. op[c].pc = "frames" /\ op[c] # NoOp
  BY UnderWay DEF SwapOut, Pc
<1>2. PICK p \in Pid :
        p = op[c].pid /\ \A d \in Cpu \ {c} : op[d] # NoOp => op[d].pid # p
  BY <1>1, Current DEF IInv
<1>3. fifo[p] # <<>> /\ freeSwp # <<>>
  BY <1>2 DEF SwapOut
<1>4. PICK v \in Page, f \in RamFrame :
        v = Victim(p) /\ f = pgd[p][v].n /\ pgd[p][v] = InRam(f) /\ pgd[p][v].st = "ram"
  BY <1>3, VictimPage
<1>5. MemTypes /\ FifoInv /\ TlbInv
  BY RestHolds DEF Rest
<1>6. PICK o \in SwpFrame : o = Head(freeSwp)
  BY <1>3, <1>5, TakeFirst DEF MemTypes
<1>7. /\ PopVictim(p) /\ freeSwp' = Tail(freeSwp) /\ T!Invalidate(p, {v})
      /\ swp' = [swp EXCEPT ![o] = ram[f]] /\ ram' = ram
      /\ pgd' = [pgd EXCEPT ![p][v] = InSwp(o)]
      /\ op' = [op EXCEPT ![c].frm = <<f>> \o @]
      /\ UNCHANGED <<lock, freeRam, written>>
  BY <1>2, <1>4, <1>6 DEF SwapOut, ForgetVictim, CopyOut
<1>8. /\ pgd' \in [Pid -> [Page -> Pte]] /\ pgd'[p][v] = InSwp(o)
      /\ \A q \in Pid, h \in Page : (q = p /\ h = v) \/ pgd'[q][h] = pgd[q][h]
      /\ \A q \in Pid \ {p} : pgd'[q] = pgd[q]
  <2>1. PICK x \in Pte : x = InSwp(o)
    BY DEF Pte
  <2>2. pgd' = [pgd EXCEPT ![p][v] = x]
    BY <1>7, <2>1
  <2>3. /\ pgd' \in [Pid -> [Page -> Pte]] /\ pgd'[p][v] = x
        /\ \A q \in Pid, h \in Page : (q = p /\ h = v) \/ pgd'[q][h] = pgd[q][h]
        /\ \A q \in Pid \ {p} : pgd'[q] = pgd[q]
    BY <1>5, <2>2 DEF MemTypes
  <2> QED BY <2>1, <2>3
<1>9. /\ fifo' \in [Pid -> Seq(Page)] /\ fifo'[p] = Front(fifo[p])
      /\ \A q \in Pid \ {p} : fifo'[q] = fifo[q]
  BY <1>3, <1>5, <1>7, PopTypes
<1>10. /\ tlb' \in [Pid \X Page -> RamFrame \cup {Miss}] /\ RoomInv'
       /\ tlb'[<<p, v>>] = Miss
       /\ \A k \in Pid \X Page : tlb'[k] = tlb[k] \/ tlb'[k] = Miss
  BY <1>5, <1>7, Invalidates DEF MemTypes
<1>11. freeSwp' \in Seq(SwpFrame)
  BY <1>3, <1>5, <1>7, TakeFirst DEF MemTypes
<1>12. MemTypes'
  <2>1. swp' \in [SwpFrame -> Label]
    BY <1>5, <1>7 DEF MemTypes
  <2> QED BY <1>5, <1>7, <1>8, <1>9, <1>10, <1>11, <2>1 DEF MemTypes
<1>13. FifoInv'
  <2> DEFINE s == Front(fifo[p])
  <2>1. fifo[p] \in Seq(Page) /\ NoRepeat(fifo[p])
        /\ \A k \in 1 .. Len(fifo[p]) : pgd[p][fifo[p][k]].st = "ram" /\ fifo[p][k] \in Page
    BY <1>5 DEF MemTypes, FifoInv
  <2>2. /\ NoRepeat(s)
        /\ \A k \in 1 .. Len(s) :
             k \in 1 .. Len(fifo[p]) /\ s[k] = fifo[p][k] /\ s[k] # v
    BY <1>3, <1>4, <2>1, TakeLast DEF Victim
  <2>3. fifo'[p] = s
    BY <1>9
  <2> HIDE DEF s
  <2>4. \A k \in 1 .. Len(s) : pgd'[p][s[k]].st = "ram"
    BY <1>8, <2>1, <2>2
  <2> QED BY <1>8, <1>9, <2>2, <2>3, <2>4, FifoChanged
<1>14. TlbCoherent'
  <2> SUFFICES ASSUME NEW q \in Pid, NEW h \in Page, tlb'[<<q, h>>] # Miss
               PROVE  pgd'[q][h] = InRam(tlb'[<<q, h>>])
    BY DEF TlbCoherent
  <2>1. <<q, h>> \in Pid \X Page /\ ~ (q = p /\ h = v)
    BY <1>10
  <2> QED BY <1>5, <1>8, <1>10, <2>1 DEF TlbInv, TlbCoherent
<1>15. FreeMissInv'
  <2>1. op'[c].pc = "frames"
    BY <1>1, <1>4, <1>7, TakeFrameOp DEF SameWork
  <2>2. \A q \in Pid \ {p}, h \in Page :
          tlb'[<<q, h>>] = tlb[<<q, h>>] \/ tlb'[<<q, h>>] = Miss
    BY <1>10
  <2> QED BY <1>2, <2>1, <2>2, FreeMissKept
<1>16. BackInv'
  <2>1. ~ Returning(c)'
    BY <1>1, <1>4, <1>7, NoneInHand, TakeFrameOp DEF Returning
  <2> QED BY <1>2, <1>8, <1>9, <2>1, BackKept
<1> QED BY <1>12, <1>13, <1>14, <1>15, <1>16 DEF Rest, TlbInv

\* The pages of a new region.
LEMMA MapPagesRest ==
  ASSUME IInv, NEW c \in Cpu, OpTypes(c), MapPages(c)
  PROVE  Rest'
<1>1. op[c].pc = "frames" /\ op[c] # NoOp
  BY UnderWay DEF MapPages, Pc
<1>2. PICK p \in Pid, first \in Nat, n \in Nat :
        /\ p = op[c].pid /\ first = op[c].start /\ n = op[c].n
        /\ \A d \in Cpu \ {c} : op[d] # NoOp => op[d].pid # p
        /\ \A k \in 0 .. n - 1 : first + k \in Page
  BY <1>1, Current DEF IInv
<1> DEFINE new == first .. first + n - 1
           s == NewPages(first, n)
<1>3. /\ \A g \in new : /\ g \in Page /\ pgd[p][g] = Absent
                        /\ pgd'[p][g].st = "ram"
      /\ \A g \in Page : g \notin new => pgd'[p][g] = pgd[p][g]
      /\ \A q \in Pid \ {p} : pgd'[q] = pgd[q]
      /\ pgd' \in [Pid -> [Page -> Pte]]
  <2>1. \A x : InRam(x).st = "ram"
    BY DEF InRam
  <2>2. /\ \A g \in op[c].start .. op[c].start + op[c].n - 1 :
              /\ g \in Page /\ pgd[p][g] = Absent
              /\ pgd'[p][g] = InRam(op[c].frm[g - op[c].start + 1])
        /\ \A g \in Page : g \notin op[c].start .. op[c].start + op[c].n - 1 =>
              pgd'[p][g] = pgd[p][g]
        /\ \A q \in Pid \ {p} : pgd'[q] = pgd[q]
        /\ pgd' \in [Pid -> [Page -> Pte]]
    <3>1. p = op[c].pid
      BY <1>2
    <3> QED BY <3>1, MapEffect
  <2>3. new = op[c].start .. op[c].start + op[c].n - 1
    BY <1>2
  <2> HIDE DEF new
  <2> QED BY <2>1, <2>2, <2>3
<1>4. /\ s \in Seq(Page) /\ Len(s) = n /\ NoRepeat(s)
      /\ \A i \in 1 .. n : s[i] \in new
  <2>1. /\ first \in Nat /\ n \in Nat
        /\ \A k \in 0 .. n - 1 : first + k \in Page
    BY <1>2
  <2> HIDE DEF s, new
  <2>2. /\ s \in Seq(Page) /\ Len(s) = n /\ NoRepeat(s)
        /\ \A i \in 1 .. n : s[i] = first + n - i /\ first + n - i \in new
    BY ONLY <2>1, NewPagesList DEF s, new
  <2> QED BY <2>2
<1>5. /\ fifo' = [fifo EXCEPT ![p] = s \o @]
      /\ written' = written \ ({p} \X new)
      /\ UNCHANGED <<lock, memvars, tlb>>
  BY <1>2 DEF MapPages, NewPages
<1> HIDE DEF new, s
<1>6. MemTypes /\ FifoInv /\ TlbInv
  BY RestHolds DEF Rest
<1> DEFINE t == s \o fifo[p]
<1>7. /\ fifo[p] \in Seq(Page) /\ NoRepeat(fifo[p])
      /\ \A k \in 1 .. Len(fifo[p]) : pgd[p][fifo[p][k]].st = "ram" /\ fifo[p][k] \in Page
  BY <1>6 DEF MemTypes, FifoInv
<1>8. /\ t \in Seq(Page) /\ Len(t) = n + Len(fifo[p])
      /\ \A k \in 1 .. n : t[k] = s[k]
      /\ \A k \in 1 .. Len(fifo[p]) : t[n + k] = fifo[p][k]
      /\ Len(fifo[p]) \in Nat
  <2>1. PICK a \in Seq(Page), b \in Seq(Page) : a = s /\ b = fifo[p] /\ Len(a) = n
    BY <1>4, <1>7
  <2>2. /\ a \o b \in Seq(Page) /\ Len(a \o b) = Len(a) + Len(b) /\ Len(b) \in Nat
        /\ \A k \in 1 .. Len(a) : (a \o b)[k] = a[k]
        /\ \A k \in 1 .. Len(b) : (a \o b)[Len(a) + k] = b[k]
    OBVIOUS
  <2>3. t = a \o b
    BY <2>1
  <2> HIDE DEF t
  <2> QED BY <2>1, <2>2, <2>3
<1> HIDE DEF t
<1>9. \A k \in 1 .. Len(t) : k \in 1 .. n \/ (k - n \in 1 .. Len(fifo[p]) /\ t[k] = fifo[p][k - n])
  <2> TAKE k \in 1 .. Len(t)
  <2>1. k \in 1 .. n \/ (k - n \in 1 .. Len(fifo[p]) /\ k = n + (k - n))
    BY <1>2, <1>8
  <2> QED BY <1>8, <2>1
<1>10. \A k \in 1 .. Len(fifo[p]) : fifo[p][k] \notin new
  BY <1>3, <1>7 DEF Absent
<1>11. NoRepeat(t)
  <2> SUFFICES ASSUME NEW j \in 1 .. Len(t), NEW k \in 1 .. Len(t), t[j] = t[k]
               PROVE  j = k
    BY DEF NoRepeat
  <2>1. CASE j \in 1 .. n /\ k \in 1 .. n
    BY <1>4, <1>8, <2>1 DEF NoRepeat
  <2>2. CASE j \in 1 .. n /\ k \notin 1 .. n
    BY <1>4, <1>8, <1>9, <1>10, <2>2, SMTT(30)
  <2>3. CASE j \notin 1 .. n /\ k \in 1 .. n
    <3>1. j - n \in 1 .. Len(fifo[p]) /\ t[j] = fifo[p][j - n]
      BY <1>9, <2>3
    <3>2. t[j] \notin new /\ t[k] \in new
      BY <1>4, <1>8, <1>10, <2>3, <3>1
    <3> QED BY <3>2
  <2>4. CASE j \notin 1 .. n /\ k \notin 1 .. n
    <3>1. /\ j - n \in 1 .. Len(fifo[p]) /\ t[j] = fifo[p][j - n]
          /\ k - n \in 1 .. Len(fifo[p]) /\ t[k] = fifo[p][k - n]
      BY <1>9, <2>4
    <3>2. j - n = k - n
      BY <1>7, <3>1 DEF NoRepeat
    <3> QED BY <1>2, <3>2
  <2> QED BY <2>1, <2>2, <2>3, <2>4
<1>12. \A k \in 1 .. Len(t) : pgd'[p][t[k]].st = "ram"
  <2> TAKE k \in 1 .. Len(t)
  <2>1. CASE k \in 1 .. n
    <3>1. t[k] \in new
      BY <1>4, <1>8, <2>1
    <3> QED BY <1>3, <3>1
  <2>2. CASE k \notin 1 .. n
    <3>1. k - n \in 1 .. Len(fifo[p]) /\ t[k] = fifo[p][k - n]
      BY <1>9, <2>2
    <3>2. t[k] \in Page /\ t[k] \notin new /\ pgd[p][t[k]].st = "ram"
      BY <1>7, <1>10, <3>1
    <3> QED BY <1>3, <3>2
  <2> QED BY <2>1, <2>2
<1>13. /\ fifo' \in [Pid -> Seq(Page)] /\ fifo'[p] = t
       /\ \A q \in Pid \ {p} : fifo'[q] = fifo[q]
  BY <1>5, <1>6, <1>8, FifoTypes DEF t
<1>14. FifoInv'
  BY <1>3, <1>11, <1>12, <1>13, FifoChanged
<1>15. MemTypes'
  <2>1. written' \subseteq Pid \X Page
    BY <1>5, <1>6 DEF MemTypes
  <2>2. RoomInv'
    BY <1>5, <1>6, RoomKept DEF MemTypes
  <2> QED BY <1>3, <1>5, <1>6, <1>13, <2>1, <2>2 DEF MemTypes, memvars
<1>16. TlbCoherent'
  <2> SUFFICES ASSUME NEW q \in Pid, NEW h \in Page, tlb[<<q, h>>] # Miss
               PROVE  pgd'[q][h] = pgd[q][h]
    BY <1>5, <1>6 DEF TlbInv, TlbCoherent
  <2>1. pgd[q][h].st = "ram"
    BY NotCached
  <2> QED BY <1>3, <2>1 DEF Absent
<1>17. FreeMissInv'
  <2>1. op'[c].pc = "cache"
    BY <1>1, MappedOp DEF MapPages
  <2> QED BY <1>2, <1>5, <2>1, FreeMissKept
<1>18. BackInv'
  <2>1. ~ Returning(c)'
    BY <1>1, NoneInHand, MappedOp DEF MapPages, Returning
  <2> QED BY <1>2, <1>3, <1>13, <2>1, BackKept
<1> QED BY <1>14, <1>15, <1>16, <1>17, <1>18 DEF Rest, TlbInv

\* The TLB stays as it is, and no FREE begins.
LEMMA FreeMissSame ==
  ASSUME IInv, NEW c \in Cpu, OpTypes(c), tlb' = tlb,
         op'[c].pc = "free" =>
           /\ op[c].pc = "free" /\ op'[c].pid = op[c].pid
           /\ op'[c].start = op[c].start /\ op'[c].n = op[c].n
  PROVE  FreeMissInv'
BY DEF IInv, TlbInv, FreeMissInv, OpTypes

\* The page comes back from the swap.
LEMMA SwapInRest ==
  ASSUME IInv, NEW c \in Cpu, OpTypes(c), SwapIn(c)
  PROVE  Rest'
<1>1. op[c] # NoOp /\ AtPage(c)
  BY AtPageUnderWay DEF SwapIn, Faulting
<1>2. PICK p \in Pid, g \in Page, peek \in Seq(RamFrame) :
        /\ p = op[c].pid /\ g = Page0(c) /\ peek = op[c].peek
        /\ \A d \in Cpu \ {c} : op[d] # NoOp => op[d].pid # p
  BY <1>1, Current DEF IInv
<1>3. pgd[p][g].st = "swap" /\ peek # <<>>
  BY <1>2 DEF SwapIn, Faulting
<1>4. PICK o \in SwpFrame : o = pgd[p][g].n /\ pgd[p][g] = InSwp(o)
  BY <1>3, PteFacts DEF IInv
<1>5. PICK f \in RamFrame : f = Head(peek)
  BY <1>3, TakeFirst
<1>6. Tail(peek) \in Seq(RamFrame)
  BY <1>3, TakeFirst
<1>7. MemTypes /\ FifoInv /\ TlbInv
  BY RestHolds DEF Rest
<1>8. /\ freeRam' = Tail(peek) /\ ram' = [ram EXCEPT ![f] = swp[o]]
      /\ pgd' = [pgd EXCEPT ![p][g] = InRam(f)]
      /\ op' = [op EXCEPT ![c].peek = <<>>, ![c].back = o]
      /\ UNCHANGED <<lock, fifo, freeSwp, swp, tlb, written>>
  BY <1>2, <1>4, <1>5 DEF SwapIn
<1>9. /\ pgd' \in [Pid -> [Page -> Pte]] /\ pgd'[p][g] = InRam(f)
      /\ \A q \in Pid, h \in Page : (q = p /\ h = g) \/ pgd'[q][h] = pgd[q][h]
      /\ \A q \in Pid \ {p} : pgd'[q] = pgd[q]
  <2>1. PICK x \in Pte : x = InRam(f)
    BY DEF Pte
  <2>2. pgd' = [pgd EXCEPT ![p][g] = x]
    BY <1>8, <2>1
  <2>3. /\ pgd' \in [Pid -> [Page -> Pte]] /\ pgd'[p][g] = x
        /\ \A q \in Pid, h \in Page : (q = p /\ h = g) \/ pgd'[q][h] = pgd[q][h]
        /\ \A q \in Pid \ {p} : pgd'[q] = pgd[q]
    BY <1>7, <2>2 DEF MemTypes
  <2> QED BY <2>1, <2>3
<1>10. PICK b \in Seq(Page) :
         /\ b = fifo[p] /\ NoRepeat(b)
         /\ \A k \in 1 .. Len(b) : pgd[p][b[k]].st = "ram" /\ b[k] \in Page /\ b[k] # g
  BY <1>3, <1>7 DEF MemTypes, FifoInv
<1>11. \A x : InRam(x).st = "ram"
  BY DEF InRam
<1>12. SameWork(c) /\ op'[c].back = o
  BY <1>1, <1>8, SwapInOp
<1>13. FifoInv'
  <2>1. \A k \in 1 .. Len(b) : pgd'[p][b[k]].st = "ram"
    BY <1>9, <1>10
  <2>2. fifo'[p] = b /\ \A q \in Pid \ {p} : fifo'[q] = fifo[q]
    BY <1>8, <1>10
  <2> QED BY <1>9, <1>10, <2>1, <2>2, FifoChanged
<1>14. BackInv'
  <2>1. /\ op'[c].pid = p /\ Page0(c)' = g
        /\ op'[c].pc \in {"cache", "free", "read", "write"}
    BY <1>1, <1>2, <1>12 DEF SameWork, Page0, AtPage
  <2>2. \A k \in 1 .. Len(fifo'[p]) : fifo'[p][k] # g
    BY <1>8, <1>10
  <2>3. pgd'[p][g].st = "ram"
    BY <1>9, <1>11
  <2>4. BackOf(c)'
    BY <2>1, <2>2, <2>3 DEF BackOf
  <2>5. \A q \in Pid \ {p} : fifo'[q] = fifo[q] /\ pgd'[q] = pgd[q]
    BY <1>8, <1>9
  <2> QED BY <1>2, <2>4, <2>5, BackKept
<1>15. MemTypes'
  <2>1. ram' \in [RamFrame -> Label]
    BY <1>7, <1>8 DEF MemTypes
  <2>2. RoomInv'
    BY <1>7, <1>8, RoomKept DEF MemTypes
  <2> QED BY <1>6, <1>7, <1>8, <1>9, <2>1, <2>2 DEF MemTypes
<1>16. TlbCoherent'
  <2> SUFFICES ASSUME NEW q \in Pid, NEW h \in Page, tlb[<<q, h>>] # Miss
               PROVE  pgd'[q][h] = InRam(tlb[<<q, h>>])
    BY <1>8 DEF TlbCoherent
  <2>1. tlb[<<p, g>>] = Miss
    BY <1>3, NotCached
  <2> QED BY <1>7, <1>9, <2>1 DEF TlbInv, TlbCoherent
<1>17. FreeMissInv'
  BY <1>8, <1>12, FreeMissSame DEF SameWork
<1> QED BY <1>13, <1>14, <1>15, <1>16, <1>17 DEF Rest, TlbInv

\* The swap frame is given back, and the page is the youngest of the process.
LEMMA SwapPeekRest ==
  ASSUME IInv, NEW c \in Cpu, OpTypes(c), SwapPeek(c)
  PROVE  Rest'
<1>1. /\ op[c] # NoOp /\ op[c].back # NoFrame /\ Returning(c)
      /\ op' = [op EXCEPT ![c].node = <<op[c].back>> \o freeSwp]
      /\ UNCHANGED <<lock, pgd, fifo, freeRam, freeSwp, ram, swp, tlb, written>>
  BY DEF SwapPeek, Returning, memvars
<1>2. MemTypes
  BY RestHolds DEF Rest
<1>3. <<op[c].back>> \o freeSwp \in Seq(SwpFrame)
  BY <1>1, Current, PutFirst DEF IInv, Types, SwpHand
<1>4. SameWork(c)
  BY <1>1, <1>3, SwapPeekOp
<1>5. TlbInv' /\ FifoInv' /\ BackInv'
  BY <1>1, <1>4, RestKept
<1>6. MemTypes'
  BY <1>1, <1>2, RoomKept DEF MemTypes
<1> QED BY <1>5, <1>6 DEF Rest

LEMMA SwapBackRest ==
  ASSUME IInv, NEW c \in Cpu, OpTypes(c), SwapBack(c)
  PROVE  Rest'
<1>1. op[c] # NoOp /\ Returning(c)
  BY DEF SwapBack, Returning
<1>2. PICK p \in Pid, g \in Page :
        /\ p = op[c].pid /\ g = Page0(c)
        /\ \A d \in Cpu \ {c} : op[d] # NoOp => op[d].pid # p
  BY <1>1, Current DEF IInv
<1>3. MemTypes /\ FifoInv /\ TlbInv /\ op[c].node \in Seq(SwpFrame)
  BY <1>1, RestHolds, Current DEF Rest, IInv
<1>4. /\ freeSwp' = op[c].node
      /\ fifo' = [fifo EXCEPT ![p] = <<g>> \o @]
      /\ op' = [op EXCEPT ![c].back = NoFrame, ![c].node = <<>>]
      /\ UNCHANGED <<lock, pgd, freeRam, ram, swp, tlb, written>>
  BY <1>2 DEF SwapBack, PutSwap
<1>5. BackOf(c)
  BY <1>1 DEF IInv, BackInv
<1>6. PICK b \in Seq(Page) :
         /\ b = fifo[p] /\ NoRepeat(b) /\ pgd[p][g].st = "ram"
         /\ \A k \in 1 .. Len(b) : pgd[p][b[k]].st = "ram" /\ b[k] # g
  BY <1>2, <1>3, <1>5 DEF MemTypes, FifoInv, BackOf
<1>7. PICK t \in Seq(Page) :
         /\ t = <<g>> \o b /\ NoRepeat(t)
         /\ \A k \in 1 .. Len(t) : t[k] = g \/ (k - 1 \in 1 .. Len(b) /\ t[k] = b[k - 1])
  <2> DEFINE t == <<g>> \o b
  <2>1. \A k \in 1 .. Len(b) : b[k] # g
    BY <1>6
  <2>2. /\ t \in Seq(Page) /\ NoRepeat(t)
        /\ \A k \in 1 .. Len(t) : k = 1 \/ (k - 1 \in 1 .. Len(b) /\ t[k] = b[k - 1])
        /\ t[1] = g
    BY <1>6, <2>1, PutFirst
  <2> HIDE DEF t
  <2>3. \A k \in 1 .. Len(t) : t[k] = g \/ (k - 1 \in 1 .. Len(b) /\ t[k] = b[k - 1])
    BY <2>2
  <2> QED BY <2>2, <2>3 DEF t
<1>8. /\ fifo' \in [Pid -> Seq(Page)] /\ fifo'[p] = t
      /\ \A q \in Pid \ {p} : fifo'[q] = fifo[q]
  <2>1. fifo' = [fifo EXCEPT ![p] = t]
    BY <1>4, <1>6, <1>7
  <2> QED BY <1>3, <2>1, FifoTypes
<1>9. FifoInv'
  <2>1. \A k \in 1 .. Len(t) : pgd'[p][t[k]].st = "ram"
    BY <1>4, <1>6, <1>7
  <2> QED BY <1>4, <1>7, <1>8, <2>1, FifoChanged
<1>10. SameWork(c) /\ op'[c].back = NoFrame
  BY <1>1, <1>4, SwapBackOp
<1>11. BackInv'
  <2>1. ~ Returning(c)'
    BY <1>10 DEF Returning
  <2> QED BY <1>2, <1>4, <1>8, <2>1, BackKept
<1>12. MemTypes'
  BY <1>3, <1>4, <1>8, RoomKept DEF MemTypes
<1>13. TlbCoherent'
  BY <1>3, <1>4 DEF TlbInv, TlbCoherent
<1>14. FreeMissInv'
  BY <1>4, <1>10, FreeMissSame DEF SameWork
<1> QED BY <1>9, <1>11, <1>12, <1>13, <1>14 DEF Rest, TlbInv

\* A page of a region that is freed.
LEMMA FreePageRest ==
  ASSUME IInv, NEW c \in Cpu, OpTypes(c), FreePage(c)
  PROVE  Rest'
<1>1. op[c].pc = "free" /\ op[c] # NoOp
  BY UnderWay DEF FreePage, Pc
<1>2. PICK p \in Pid, g \in Page :
        /\ p = op[c].pid /\ g = Page0(c)
        /\ \A d \in Cpu \ {c} : op[d] # NoOp => op[d].pid # p
  BY <1>1, Current DEF IInv
<1>3. pgd[p][g].st = "ram"
  BY <1>2 DEF FreePage
<1>4. PICK f \in RamFrame : f = pgd[p][g].n
  BY <1>3, PteFacts DEF IInv
<1>5. MemTypes /\ FifoInv /\ TlbInv
  BY RestHolds DEF Rest
<1>6. /\ freeRam' = <<f>> \o freeRam
      /\ pgd' = [pgd EXCEPT ![p][g] = Absent]
      /\ fifo' = [fifo EXCEPT ![p] = ClearPgnNode(@, g)]
      /\ written' = written \ {<<p, g>>}
      /\ UNCHANGED <<freeSwp, ram, swp, tlb>>
  BY <1>2, <1>4 DEF FreePage, PutFrame
<1>7. tlb[<<p, g>>] = Miss
  <2>1. op[c].start \in Nat /\ op[c].n \in Nat /\ op[c].i \in Nat /\ op[c].i < op[c].n
    BY <1>1, Current DEF IInv, OpInv
  <2>2. g \in op[c].start .. op[c].start + op[c].n - 1
    BY <1>2, <2>1 DEF Page0
  <2> QED BY <1>1, <1>2, <1>5, <2>2 DEF TlbInv, FreeMissInv
<1>8. /\ pgd' \in [Pid -> [Page -> Pte]] /\ pgd'[p][g] = Absent
      /\ \A q \in Pid, h \in Page : (q = p /\ h = g) \/ pgd'[q][h] = pgd[q][h]
      /\ \A q \in Pid \ {p} : pgd'[q] = pgd[q]
  <2>1. PICK x \in Pte : x = Absent
    BY DEF Pte
  <2>2. pgd' = [pgd EXCEPT ![p][g] = x]
    BY <1>6, <2>1
  <2>3. /\ pgd' \in [Pid -> [Page -> Pte]] /\ pgd'[p][g] = x
        /\ \A q \in Pid, h \in Page : (q = p /\ h = g) \/ pgd'[q][h] = pgd[q][h]
        /\ \A q \in Pid \ {p} : pgd'[q] = pgd[q]
    BY <1>5, <2>2 DEF MemTypes
  <2> QED BY <2>1, <2>3
<1>9. PICK b \in Seq(Page) :
         /\ b = fifo[p] /\ NoRepeat(b)
         /\ \A k \in 1 .. Len(b) : pgd[p][b[k]].st = "ram" /\ b[k] \in Page
  BY <1>5 DEF MemTypes, FifoInv
<1>10. PICK t \in Seq(Page) :
         /\ t = ClearPgnNode(b, g) /\ NoRepeat(t)
         /\ \A k \in 1 .. Len(t) : t[k] # g /\ \E j \in 1 .. Len(b) : t[k] = b[j]
  BY <1>9, ClearedList
<1>11. /\ fifo' \in [Pid -> Seq(Page)] /\ fifo'[p] = t
       /\ \A q \in Pid \ {p} : fifo'[q] = fifo[q]
  <2>1. fifo' = [fifo EXCEPT ![p] = t]
    BY <1>6, <1>9, <1>10
  <2> QED BY <1>5, <2>1, FifoTypes
<1>12. FifoInv'
  <2>1. \A k \in 1 .. Len(t) : pgd'[p][t[k]].st = "ram"
    BY <1>8, <1>9, <1>10
  <2> QED BY <1>8, <1>10, <1>11, <2>1, FifoChanged
<1>13. MemTypes'
  <2>1. RoomInv'
    BY <1>5, <1>6, RoomKept DEF MemTypes
  <2>2. written' \subseteq Pid \X Page
    BY <1>5, <1>6 DEF MemTypes
  <2>3. freeRam \in Seq(RamFrame)
    BY <1>5 DEF MemTypes
  <2>4. freeRam' \in Seq(RamFrame)
    BY <1>6, <2>3, PutFirst
  <2>5. lock' \in Cpu \cup {NoCpu}
    BY <1>5, StepLock DEF MemTypes, Step
  <2> QED BY <1>5, <1>6, <1>8, <1>11, <2>1, <2>2, <2>4, <2>5 DEF MemTypes
<1>14. TlbCoherent'
  <2> SUFFICES ASSUME NEW q \in Pid, NEW h \in Page, tlb[<<q, h>>] # Miss
               PROVE  pgd'[q][h] = InRam(tlb[<<q, h>>])
    BY <1>6 DEF TlbCoherent
  <2> QED BY <1>5, <1>7, <1>8 DEF TlbInv, TlbCoherent
<1>15. FreeMissInv'
  <2>1. op'[c].pc = "free" => op'[c].pid = op[c].pid /\ op'[c].start = op[c].start /\ op'[c].n = op[c].n
    <3>1. CASE IsLast(c)
      BY <3>1, EndStep DEF FreePage
    <3>2. CASE ~ IsLast(c)
      BY <1>1, <3>2, NextPageOp DEF FreePage
    <3> QED BY <3>1, <3>2
  <2> QED BY <1>1, <1>6, <2>1, FreeMissSame
<1>16. BackInv'
  <2>1. ~ Returning(c)'
    <3>1. CASE IsLast(c)
      BY <3>1, EndStep DEF FreePage, Returning
    <3>2. CASE ~ IsLast(c)
      BY <1>1, <3>2, NextPageOp DEF FreePage, Returning
    <3> QED BY <3>1, <3>2
  <2> QED BY <1>2, <1>8, <1>11, <2>1, BackKept
<1> QED BY <1>12, <1>13, <1>14, <1>15, <1>16 DEF Rest, TlbInv

\* The oldest page leaves the list, whatever becomes of the instruction.
LEMMA PopRest ==
  ASSUME IInv, NEW c \in Cpu, OpTypes(c), NEW p \in Pid, PopVictim(p),
         \A d \in Cpu \ {c} : op[d] # NoOp => op[d].pid # p,
         UNCHANGED <<pgd, tlb>>, op'[c] = NoOp
  PROVE  TlbInv' /\ FifoInv' /\ BackInv' /\ fifo' \in [Pid -> Seq(Page)]
<1>1. MemTypes /\ FifoInv /\ TlbInv
  BY RestHolds DEF Rest
<1>2. PICK b \in Seq(Page) :
         /\ b = fifo[p] /\ NoRepeat(b)
         /\ \A k \in 1 .. Len(b) : pgd[p][b[k]].st = "ram"
  BY <1>1 DEF MemTypes, FifoInv
<1>3. PICK s : /\ s = (IF b = <<>> THEN b ELSE Front(b)) /\ NoRepeat(s)
               /\ \A k \in 1 .. Len(s) : k \in 1 .. Len(b) /\ s[k] = b[k]
  BY <1>2, TakeLast
<1>4. /\ fifo' \in [Pid -> Seq(Page)] /\ fifo'[p] = s
      /\ \A q \in Pid \ {p} : fifo'[q] = fifo[q]
  BY <1>1, <1>2, <1>3, PopTypes
<1>5. FifoInv'
  <2>1. \A k \in 1 .. Len(s) : pgd'[p][s[k]].st = "ram"
    BY <1>2, <1>3
  <2> QED BY <1>3, <1>4, <2>1, FifoChanged
<1>6. TlbCoherent'
  BY <1>1 DEF TlbInv, TlbCoherent
<1>7. op'[c].pc # "free" /\ ~ Returning(c)'
  BY DEF NoOp, Returning
<1>8. BackInv'
  BY <1>4, <1>7, BackKept
<1> QED BY <1>4, <1>5, <1>6, <1>7, <1>8, FreeMissSame DEF TlbInv

\* MEMPHY_put_freefp in a loop.
LEMMA Reversed ==
  ASSUME NEW S, NEW s \in Seq(S), NEW t \in Seq(S)
  PROVE  Reverse(s) \o t \in Seq(S)
<1>1. Reverse(s) \in Seq(S)
  BY DEF Reverse
<1> QED BY <1>1

\* An instruction goes on.
LEMMA StepRest ==
  ASSUME IInv, NEW c \in Cpu, Step(c)
  PROVE  Rest'
<1>1. OpTypes(c)
  BY QuietStep
<1>2. MemTypes
  BY RestHolds DEF Rest
<1>3. lock' \in Cpu \cup {NoCpu}
  BY <1>2, StepLock DEF MemTypes
<1>4. tlb' = tlb => RoomInv'
  BY <1>2, RoomKept DEF MemTypes
<1>5. CASE TakeFrame(c)
  <2>1. op[c] # NoOp /\ op[c].pc = "frames" /\ freeRam # <<>>
    BY <1>5, UnderWay DEF TakeFrame, Pc
  <2>2. Head(freeRam) \in RamFrame /\ Tail(freeRam) \in Seq(RamFrame)
    BY <1>2, <2>1, TakeFirst DEF MemTypes
  <2>3. SameWork(c) /\ ~ Returning(c)'
    BY <1>5, <2>1, <2>2, NoneInHand, TakeFrameOp DEF TakeFrame, Returning
  <2>4. TlbInv' /\ FifoInv' /\ BackInv'
    BY <1>1, <1>5, <2>3, RestKept DEF TakeFrame
  <2>5. MemTypes'
    BY <1>2, <1>3, <1>4, <1>5, <2>2 DEF MemTypes, TakeFrame
  <2> QED BY <2>4, <2>5 DEF Rest
<1>6. CASE SwapOut(c)
  BY <1>1, <1>6, SwapOutRest
<1>7. CASE NoVictim(c)
  <2>1. op[c].pc = "frames" /\ AllocFails(c) /\ pgd' = pgd
        /\ UNCHANGED <<fifo, freeSwp, ram, swp, tlb, written>>
        /\ freeRam' = Reverse(op[c].frm) \o freeRam
    BY <1>7 DEF NoVictim, ReturnFrames
  <2>2. op'[c].pc = "idle" /\ ~ Returning(c)'
    BY <2>1, EndStep DEF AllocFails, Returning
  <2>3. op[c].frm \in Seq(RamFrame)
    BY <2>1, UnderWay, Current DEF IInv, Pc
  <2>4. freeRam' \in Seq(RamFrame)
    BY <1>2, <2>1, <2>3, Reversed DEF MemTypes
  <2>5. TlbInv' /\ FifoInv' /\ BackInv'
    BY <1>1, <2>1, <2>2, RestKept
  <2> QED BY <1>2, <1>3, <1>4, <2>1, <2>4, <2>5 DEF Rest, MemTypes
<1>8. CASE NoSwap(c)
  <2>1. op[c].pc = "frames" /\ AllocFails(c) /\ pgd' = pgd
        /\ UNCHANGED <<freeSwp, ram, swp, tlb, written>>
        /\ PopVictim(op[c].pid)
        /\ \E fpn \in RamFrame : freeRam' = <<fpn>>
    BY <1>8 DEF NoSwap
  <2>2. op'[c] = NoOp
    BY <2>1, EndStep DEF AllocFails
  <2>3. op[c].pid \in Pid /\ \A d \in Cpu \ {c} : op[d] # NoOp => op[d].pid # op[c].pid
    BY <2>1, UnderWay, Current DEF IInv, Pc
  <2>4. freeRam' \in Seq(RamFrame)
    BY <2>1
  <2>5. TlbInv' /\ FifoInv' /\ BackInv' /\ fifo' \in [Pid -> Seq(Page)]
    BY <1>1, <2>1, <2>2, <2>3, PopRest
  <2> QED BY <1>2, <1>3, <1>4, <2>1, <2>4, <2>5 DEF Rest, MemTypes
<1>9. CASE MapPages(c)
  BY <1>1, <1>9, MapPagesRest
<1>10. CASE FaultPeek(c)
  <2>1. op[c] # NoOp
    BY <1>10, AtPageUnderWay DEF FaultPeek, Faulting
  <2>2. SameWork(c) /\ ~ Returning(c)'
    BY <1>2, <1>10, <2>1, PeekOp DEF FaultPeek, MemTypes, Faulting, AtPage, Returning
  <2>3. TlbInv' /\ FifoInv' /\ BackInv'
    BY <1>1, <1>10, <2>2, RestKept DEF FaultPeek, memvars
  <2>4. MemTypes'
    BY <1>2, <1>3, <1>4, <1>10 DEF MemTypes, FaultPeek, memvars
  <2> QED BY <2>3, <2>4 DEF Rest
<1>11. CASE SwapIn(c)
  BY <1>1, <1>11, SwapInRest
<1>12. CASE FaultFails(c)
  <2>1. op[c].pid \in Pid /\ \A d \in Cpu \ {c} : op[d] # NoOp => op[d].pid # op[c].pid
    BY <1>12, AtPageUnderWay, Current DEF FaultFails, Faulting, IInv
  <2>2. /\ PopVictim(op[c].pid) /\ End(c)
        /\ UNCHANGED <<pgd, freeRam, freeSwp, ram, swp, tlb, written>>
    BY <1>12 DEF FaultFails, memvars
  <2>3. op'[c] = NoOp
    BY <2>2, EndStep
  <2>4. TlbInv' /\ FifoInv' /\ BackInv' /\ fifo' \in [Pid -> Seq(Page)]
    BY <1>1, <2>1, <2>2, <2>3, PopRest
  <2> QED BY <1>2, <1>3, <1>4, <2>2, <2>4 DEF Rest, MemTypes
<1>13. CASE PageAbsent(c)
  <2>1. End(c) /\ UNCHANGED <<pgd, fifo, freeRam, freeSwp, ram, swp, tlb, written>>
    BY <1>13 DEF PageAbsent, memvars
  <2>2. op'[c].pc = "idle" /\ ~ Returning(c)'
    BY <2>1, EndStep DEF Returning
  <2>3. TlbInv' /\ FifoInv' /\ BackInv'
    BY <1>1, <2>1, <2>2, RestKept
  <2> QED BY <1>2, <1>3, <1>4, <2>1, <2>3 DEF Rest, MemTypes
<1>14. CASE FreePage(c)
  BY <1>1, <1>14, FreePageRest
<1>15. CASE CachePage(c)
  <2>1. op[c] # NoOp /\ op[c].pc = "cache"
    BY <1>15, UnderWay DEF CachePage, Pc
  <2>2. op'[c].pc # "free" /\ ~ Returning(c)'
    <3>1. CASE IsLast(c)
      BY <1>15, <3>1, EndStep DEF CachePage, Returning
    <3>2. CASE ~ IsLast(c)
      BY <1>15, <2>1, <3>2, NextPageOp DEF CachePage, Returning
    <3> QED BY <3>1, <3>2
  <2>3. /\ TlbInv' /\ FifoInv' /\ BackInv' /\ RoomInv'
        /\ tlb' \in [Pid \X Page -> RamFrame \cup {Miss}]
    BY <1>1, <1>15, <2>1, <2>2, StoreKeeps DEF CachePage, memvars
  <2> QED BY <1>2, <1>3, <1>15, <2>3 DEF Rest, MemTypes, CachePage, memvars
<1>16. CASE WritePage(c)
  <2>1. op[c] # NoOp
    BY <1>16, UnderWay DEF WritePage, Pc
  <2>2. op'[c].pc = "idle" /\ ~ Returning(c)'
    BY <1>16, EndStep DEF WritePage, Returning
  <2>3. /\ TlbInv' /\ FifoInv' /\ BackInv' /\ RoomInv'
        /\ tlb' \in [Pid \X Page -> RamFrame \cup {Miss}]
    BY <1>1, <1>16, <2>1, <2>2, StoreKeeps DEF WritePage
  <2>4. PICK p \in Pid, g \in Page : p = op[c].pid /\ g = Page0(c)
    BY <2>1, Current DEF IInv
  <2>5. pgd[p][g].n \in RamFrame /\ WriteByte(p, g, pgd[p][g].n)
    BY <1>16, <2>4, PteFacts DEF WritePage, IInv
  <2>6. ram' \in [RamFrame -> Label] /\ written' \subseteq Pid \X Page
    BY <1>2, <2>5, WriteByteTypes
  <2> QED BY <1>2, <1>3, <1>16, <2>3, <2>6 DEF Rest, MemTypes, WritePage
<1>17. CASE ReadPage(c)
  <2>1. op[c] # NoOp
    BY <1>17, UnderWay DEF ReadPage, Pc
  <2>2. op'[c].pc = "idle" /\ ~ Returning(c)'
    BY <1>17, EndStep DEF ReadPage, Returning
  <2>3. /\ TlbInv' /\ FifoInv' /\ BackInv' /\ RoomInv'
        /\ tlb' \in [Pid \X Page -> RamFrame \cup {Miss}]
    BY <1>1, <1>17, <2>1, <2>2, StoreKeeps DEF ReadPage, memvars
  <2> QED BY <1>2, <1>3, <1>17, <2>3 DEF Rest, MemTypes, ReadPage, memvars
<1>18. CASE SwapPeek(c)
  BY <1>1, <1>18, SwapPeekRest
<1>19. CASE SwapBack(c)
  BY <1>1, <1>19, SwapBackRest
<1> QED BY <1>5, <1>6, <1>7, <1>8, <1>9, <1>10, <1>11, <1>12, <1>13, <1>14,
           <1>15, <1>16, <1>17, <1>18, <1>19 DEF Step

\* An instruction begins.
LEMMA StartRest ==
  ASSUME IInv, NEW c \in Cpu, Start(c)
  PROVE  Rest'
<1>1. MemTypes'
  BY StartMemTypes
<1>2. op[c] = NoOp /\ op[c].pc = "idle"
  BY StartFacts DEF NoOp
<1>3. ASSUME NEW p \in Pid, NEW rg \in Rg, Free(c, p, rg)
      PROVE  TlbInv' /\ FifoInv' /\ BackInv'
  <2> DEFINE r == sym[p][rg]
  <2>1. /\ OpTypes(c) /\ op'[c].pc = "free" /\ op'[c].pid = p /\ Good(r)
        /\ op'[c].start = r.s \div PAGESZ /\ op'[c].n = NumPages(r)
        /\ op'[c].back = NoFrame
    BY <1>3, FreeRegions
  <2>2. T!Invalidate(p, PagesOf(r)) /\ UNCHANGED <<pgd, fifo, freeSwp>>
        /\ \A d \in Cpu : op[d].pid # p
    BY <1>3 DEF Free, memvars, Runs
  <2>3. PagesOf(r) = op'[c].start .. op'[c].start + op'[c].n - 1
    BY <2>1, RegionPages
  <2> HIDE DEF r
  <2>4. /\ \A g \in Page : g \in PagesOf(r) => tlb'[<<p, g>>] = Miss
        /\ \A k \in Pid \X Page : tlb'[k] = tlb[k] \/ tlb'[k] = Miss
    BY <2>2, Invalidates DEF IInv, Types
  <2>5. \A g \in PagesOf(r) : g \in Page
    <3>1. op'[c] # NoOp
      BY <2>1 DEF NoOp
    <3>2. op'[c].start \in Page /\ op'[c].n \in Nat /\ op'[c].start + op'[c].n - 1 <= NPage
      BY <2>1, <3>1 DEF OpTypes, OpInv, OpSet
    <3> QED BY <2>3, <3>2, Sizes DEF Page
  <2>6. \A q \in Pid, g \in Page : tlb'[<<q, g>>] = tlb[<<q, g>>] \/ tlb'[<<q, g>>] = Miss
    BY <2>4
  <2>7. TlbCoherent'
    <3> SUFFICES ASSUME NEW q \in Pid, NEW h \in Page, tlb'[<<q, h>>] # Miss
                 PROVE  pgd[q][h] = InRam(tlb'[<<q, h>>])
      BY <2>2 DEF TlbCoherent
    <3>1. tlb'[<<q, h>>] = tlb[<<q, h>>]
      BY <2>6
    <3> QED BY <3>1 DEF IInv, TlbInv, TlbCoherent
  <2>8. \A g \in op'[c].start .. op'[c].start + op'[c].n - 1 : tlb'[<<op'[c].pid, g>>] = Miss
    BY <2>1, <2>3, <2>4, <2>5
  <2>9. FreeMissInv'
    <3>1. \A q \in Pid \ {p}, g \in Page :
            tlb'[<<q, g>>] = tlb[<<q, g>>] \/ tlb'[<<q, g>>] = Miss
      BY <2>6
    <3>2. \A d \in Cpu \ {c} : op[d] # NoOp => op[d].pid # p
      BY <2>2
    <3> QED BY <2>1, <2>8, <3>1, <3>2, FreeMissKept
  <2> QED BY <2>1, <2>2, <2>7, <2>9, FifoKept, BackSame DEF TlbInv, Returning
<1>4. ASSUME NEW p \in Pid, NEW rg \in Rg, NEW sz \in 1 .. MaxSize, Alloc(c, p, rg, sz)
      PROVE  TlbInv' /\ FifoInv' /\ BackInv'
  <2>1. OpTypes(c) /\ op'[c].pc = "frames" /\ op'[c].back = NoFrame
    BY <1>4, AllocRegions
  <2>2. UNCHANGED <<pgd, fifo, tlb>>
    BY <1>4 DEF Alloc, memvars
  <2> QED BY <2>1, <2>2, RestKept DEF Returning
<1>5. CASE /\ OpTypes(c) /\ Quiet(c) /\ UNCHANGED <<pgd, fifo, freeRam, freeSwp, swp, tlb>>
           /\ op' # op => op'[c].back = NoFrame
  <2>1. ~ Returning(c)'
    BY <1>2, <1>5 DEF Returning
  <2> QED BY <1>1, <1>5, <2>1, RestKept DEF Quiet, Rest
<1>6. CASE Regional(c)
  BY <1>1, <1>2, <1>3, <1>4, <1>6 DEF Rest, Regional, NoVictim, NoSwap, MapPages, FreePage
<1> QED BY <1>1, <1>5, <1>6, QuietStart DEF Rest

-----------------------------------------------------------------------------
(* Theorems.                                                               *)

LEMMA InitInv == Init => IInv
<1> SUFFICES ASSUME Init PROVE IInv
  OBVIOUS
<1>1. /\ lock = NoCpu /\ op = [c \in Cpu |-> NoOp]
      /\ sym = [p \in Pid |-> [r \in Rg |-> NoRegion]]
      /\ freerg = [p \in Pid |-> <<>>] /\ sbrk = [p \in Pid |-> 0]
      /\ pgd = [p \in Pid |-> [g \in Page |-> Absent]]
      /\ fifo = [p \in Pid |-> <<>>]
      /\ freeRam = Formatted(NRam) /\ freeSwp = Formatted(NSwp)
      /\ ram = [f \in RamFrame |-> NoData] /\ swp = [o \in SwpFrame |-> NoData]
      /\ tlb = [k \in Pid \X Page |-> Miss]
      /\ corrupt = {} /\ written = {}
  BY DEF Init, T!Init, T!Key
<1>2. /\ Formatted(NRam) \in Seq(RamFrame)
      /\ Formatted(NSwp) \in Seq(SwpFrame) /\ Len(Formatted(NSwp)) = NSwp
      /\ \A k \in 1 .. NSwp : Formatted(NSwp)[k] = k - 1
  BY Sizes DEF Formatted, RamFrame, SwpFrame
<1>3. 0 \in 0 .. NPage * PAGESZ /\ NoRegion \in Region /\ Absent \in Pte /\ NoData \in Label
  BY Sizes, NoRegionType DEF Pte, Label
<1>4. Types
  <2>1. freerg \in [Pid -> Seq(Region)] /\ fifo \in [Pid -> Seq(Page)]
    BY <1>1
  <2>2. /\ sym \in [Pid -> [Rg -> Region]] /\ sbrk \in [Pid -> 0 .. NPage * PAGESZ]
        /\ pgd \in [Pid -> [Page -> Pte]]
    BY <1>1, <1>3
  <2>3. /\ ram \in [RamFrame -> Label] /\ swp \in [SwpFrame -> Label]
        /\ tlb \in [Pid \X Page -> RamFrame \cup {Miss}]
    BY <1>1, <1>3
  <2>4. /\ lock \in Cpu \cup {NoCpu} /\ op \in [Cpu -> OpSet \cup {NoOp}]
        /\ corrupt \subseteq Pid /\ written \subseteq Pid \X Page
    BY <1>1
  <2> QED BY <1>1, <1>2, <2>1, <2>2, <2>3, <2>4 DEF Types
<1>5. OpInv
  BY <1>1 DEF OpInv
<1>6. RegInv
  <2>1. ASSUME NEW p \in Pid PROVE AreaOf(p) /\ DisjointOf(p) /\ AbsentOf(p)
    <3>1. /\ sbrk[p] = 0 /\ freerg[p] = <<>> /\ \A rg \in Rg : sym[p][rg] = NoRegion
          /\ \A g \in Page : pgd[p][g] = Absent
      BY <1>1
    <3>2. 0 = 0 * PAGESZ /\ \A k \in 1 .. Len(freerg[p]) : FALSE
      BY <3>1, Sizes
    <3> QED BY <1>3, <3>1, <3>2, NoRegionApart DEF AreaOf, DisjointOf, AbsentOf
  <2>2. WorkInv
    BY <1>1 DEF WorkInv, NoOp
  <2> QED BY <2>1, <2>2 DEF RegInv, AreaInv, DisjointInv, AbsentInv
<1>7. TlbInv
  <2>1. TlbCoherent
    BY <1>1 DEF TlbCoherent
  <2>2. FreeMissInv
    BY <1>1 DEF FreeMissInv, NoOp
  <2> QED BY <2>1, <2>2 DEF TlbInv
<1>8. RoomInv
  <2>1. T!Stored = {}
    BY <1>1 DEF T!Stored, T!Key
  <2> QED BY <2>1, FS_EmptySet, Sizes DEF RoomInv
<1>9. FifoInv
  BY <1>1 DEF FifoInv, NoRepeat
<1>10. BackInv
  BY <1>1 DEF BackInv, Returning
<1> QED BY <1>4, <1>5, <1>6, <1>7, <1>8, <1>9, <1>10 DEF IInv

LEMMA StutterInv == IInv /\ UNCHANGED vars => IInv'
<1> SUFFICES ASSUME IInv, UNCHANGED vars PROVE IInv'
  OBVIOUS
<1>1. /\ lock' = lock /\ op' = op /\ sym' = sym /\ freerg' = freerg /\ sbrk' = sbrk
      /\ corrupt' = corrupt /\ pgd' = pgd /\ fifo' = fifo /\ freeRam' = freeRam
      /\ freeSwp' = freeSwp /\ ram' = ram /\ swp' = swp /\ tlb' = tlb /\ written' = written
  BY DEF vars, regvars, memvars
<1>2. Types' /\ OpInv'
  BY <1>1 DEF IInv, Types, OpInv
<1>3. RegInv'
  BY <1>1 DEF IInv, RegInv, AreaInv, AreaOf, DisjointInv, DisjointOf, AbsentInv, AbsentOf,
              WorkInv, Collects, Releases
<1>4. TlbInv' /\ FifoInv' /\ BackInv' /\ RoomInv'
  BY <1>1, RoomKept DEF IInv, TlbInv, TlbCoherent, FreeMissInv, FifoInv, NoRepeat,
                         BackInv, BackOf, Returning, Page0
<1> QED BY <1>2, <1>3, <1>4 DEF IInv

\* Every step of every CPU keeps the invariant.
LEMMA NextInv == IInv /\ [Next]_vars => IInv'
<1>1. ASSUME IInv, Next PROVE IInv'
  <2>1. PICK c \in Cpu : Start(c) \/ Step(c)
    BY <1>1 DEF Next
  <2>2. OpTypes(c) /\ RegInv' /\ RegionTypes'
    BY <1>1, <2>1, RegionsNext
  <2>3. Rest'
    BY <1>1, <2>1, StartRest, StepRest
  <2>4. Types'
    BY <2>2, <2>3 DEF Types, OpTypes, RegionTypes, Rest, MemTypes
  <2> QED BY <2>2, <2>3, <2>4 DEF IInv, OpTypes, Rest, MemTypes
<1> QED BY <1>1, StutterInv

\* The invariant holds in every reachable state, for any number of CPUs and
\* processes, any sizes of pages, RAM, swap and TLB, with READ and its missing
\* lock and with every failure half way included.
THEOREM Invariance == Spec => []IInv
<1> QED BY InitInv, NextInv, PTL DEF Spec

LEMMA InvTypeOK == IInv => TypeOK
<1> SUFFICES ASSUME IInv PROVE TypeOK
  OBVIOUS
<1>1. ASSUME NEW c \in Cpu PROVE OpOK(op[c])
  <2>1. CASE op[c] = NoOp
    BY <2>1 DEF OpOK
  <2>2. CASE op[c] # NoOp
    <3>1. /\ op[c] \in OpSet /\ op[c].n \in Nat /\ op[c].i \in Nat /\ op[c].i < op[c].n
          /\ Page0(c) \in Page
      BY <2>2, Current DEF IInv, OpInv
    <3>2. op[c].i \in 0 .. op[c].n - 1
      BY <3>1
    <3> QED BY <3>1, <3>2 DEF OpOK, OpSet, SwpHand, Page0
  <2> QED BY <2>1, <2>2
<1>2. T!TypeOK
  BY SameCardinality DEF IInv, Types, RoomInv, T!TypeOK, T!Key
<1> QED BY <1>1, <1>2 DEF IInv, Types, TypeOK

\* Every variable keeps its type: frame numbers are frames of their device,
\* page numbers are within the address space, a region ends within the area,
\* and the TLB never holds more than it has entries for.
THEOREM TypeCorrect == Spec => []TypeOK
<1> QED BY Invariance, InvTypeOK, PTL

\* No two regions of a process overlap, whether in use or on the free list:
\* get_free_vmrg_area and the growth of the area never hand out a byte twice.
THEOREM RegionsApart == Spec => []RegionsDisjoint
<1>1. IInv => RegionsDisjoint
  <2> SUFFICES ASSUME IInv, NEW p \in Pid
               PROVE  /\ \A a, b \in Rg : a # b => ~ Overlap(sym[p][a], sym[p][b])
                      /\ \A a \in Rg, i \in DOMAIN freerg[p] :
                           ~ Overlap(sym[p][a], freerg[p][i])
                      /\ \A i, j \in DOMAIN freerg[p] :
                           i # j => ~ Overlap(freerg[p][i], freerg[p][j])
    BY DEF RegionsDisjoint
  <2>1. DisjointOf(p) /\ freerg[p] \in Seq(Region)
    BY DEF IInv, RegInv, DisjointInv, Types
  <2>2. DOMAIN freerg[p] = 1 .. Len(freerg[p])
    BY <2>1
  <2> QED BY <2>1, <2>2 DEF DisjointOf
<1> QED BY Invariance, <1>1, PTL

\* A TLB entry always names the frame its page is in: eviction, FREE, ALLOC
\* and the page fault keep the TLB in step with the page table.
THEOREM TlbInStep == Spec => []TlbCoherent
<1>1. IInv => TlbCoherent
  BY DEF IInv, TlbInv
<1> QED BY Invariance, <1>1, PTL

\* The length of a list without repetitions.
LEMMA ListCardinality ==
  ASSUME NEW S, NEW s \in Seq(S), NoRepeat(s)
  PROVE  IsFiniteSet(ToSet(s)) /\ Cardinality(ToSet(s)) = Len(s)
<1> DEFINE D == 1 .. Len(s)
           R == ToSet(s)
<1>1. DOMAIN s = D /\ Len(s) \in Nat /\ s \in [D -> S]
  OBVIOUS
<1>2. R = {s[i] : i \in D}
  BY <1>1 DEF ToSet
<1>3. IsFiniteSet(D) /\ Cardinality(D) = Len(s)
  BY <1>1, FS_Interval
<1>4. s \in Bijection(D, R)
  <2>1. s \in [D -> R]
    BY <1>1, <1>2
  <2>2. \A a, b \in D : s[a] = s[b] => a = b
    BY DEF NoRepeat
  <2>3. \A t \in R : \E i \in D : s[i] = t
    BY <1>2
  <2> QED BY <2>1, <2>2, <2>3, Fun_IsBij
<1>5. ExistsBijection(D, R)
  BY <1>4 DEF ExistsBijection
<1> HIDE DEF D, R
<1>6. IsFiniteSet(R) /\ Cardinality(R) = Cardinality(D)
  BY <1>3, <1>5, FS_Bijection
<1> QED BY <1>3, <1>6 DEF R

\* fifo_pgn lists a page once, and only pages in RAM, so that the tail that
\* find_victim_page takes is always a page with a frame to give.
THEOREM FifoRight == Spec => []FifoSound
<1>1. IInv => FifoSound
  <2> SUFFICES ASSUME IInv, NEW p \in Pid
               PROVE  /\ Cardinality(ToSet(fifo[p])) = Len(fifo[p])
                      /\ \A g \in ToSet(fifo[p]) : pgd[p][g].st = "ram"
    BY DEF FifoSound
  <2>1. /\ fifo[p] \in Seq(Page) /\ NoRepeat(fifo[p])
        /\ \A k \in 1 .. Len(fifo[p]) : pgd[p][fifo[p][k]].st = "ram"
    BY DEF IInv, Types, FifoInv
  <2>2. DOMAIN fifo[p] = 1 .. Len(fifo[p])
    BY <2>1
  <2>3. \A g \in ToSet(fifo[p]) : pgd[p][g].st = "ram"
    BY <2>1, <2>2 DEF ToSet
  <2> QED BY <2>1, <2>3, ListCardinality
<1> QED BY Invariance, <1>1, PTL

\* A WRITE that passes the range check of tlbwrite reaches no byte of another
\* region of the process, but for the byte at rg_end, which the check lets
\* through.
THEOREM WritesStay == Spec => WriteStaysInRegion
<1> DEFINE Stays == \A c \in Cpu, p \in Pid, rg \in Rg, off \in 0..MaxSize :
             WriteHit(c, p, rg, off) \/ WriteMiss(c, p, rg, off) =>
               LET addr == sym[p][rg].s + off
               IN  \A other \in Rg \ {rg} :
                     addr \in Addrs(sym[p][other]) => addr = sym[p][rg].e
<1>1. ASSUME IInv PROVE Stays
  <2> SUFFICES ASSUME NEW c \in Cpu, NEW p \in Pid, NEW rg \in Rg, NEW off \in 0 .. MaxSize,
                      WriteHit(c, p, rg, off) \/ WriteMiss(c, p, rg, off),
                      NEW other \in Rg \ {rg},
                      sym[p][rg].s + off \in Addrs(sym[p][other])
               PROVE  sym[p][rg].s + off = sym[p][rg].e
    OBVIOUS
  <2> DEFINE r == sym[p][rg]
             t == sym[p][other]
  <2>1. r.s + off <= r.e
    BY DEF WriteHit, WriteMiss, InRange
  <2>2. r \in Region /\ t \in Region /\ ~ Overlap(r, t)
    BY <1>1 DEF IInv, Types, RegInv, DisjointInv, DisjointOf
  <2>3. r.s + off \in t.s .. t.e - 1
    BY DEF Addrs
  <2> HIDE DEF r, t
  <2>4. r.s \in Nat /\ r.e \in Nat /\ t.s \in Nat /\ t.e \in Nat /\ off \in Nat
    BY <2>2, RegionNumbers, Sizes
  <2>5. r.s + off = r.e
    BY <2>1, <2>2, <2>3, <2>4 DEF Overlap
  <2> QED BY <2>5 DEF r
<1> HIDE DEF Stays
<1>2. IInv => Stays
  BY <1>1
<1>3. Spec => [][Stays]_vars
  BY Invariance, <1>2, PTL
<1> QED BY <1>3 DEF Stays, WriteStaysInRegion
=============================================================================
