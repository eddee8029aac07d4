--------------------------- MODULE TlbCacheProofs ---------------------------
(***************************************************************************)
(* Proofs about the TLB for every number of entries and every set of       *)
(* process ids, pages and frames that fit their fields: a page is cached   *)
(* at most once, and the array of 64-bit entries implements the bounded    *)
(* map of module TlbMap, call by call.  The last section is about the      *)
(* calls of module TlbRace, which overlap.                                 *)
(***************************************************************************)
EXTENDS TlbRace, WordProofs, FiniteSetTheorems, FunctionTheorems

-----------------------------------------------------------------------------
(* What the encoding of an entry does.                                     *)

USE DEF BIT, GENMASK, VALID_MASK, TAG_MASK, PID_MASK, FRMNUM_MASK

\* set_TLB_entry followed by the four field macros gives the fields back.
LEMMA EntryFields ==
  ASSUME NEW p \in Pid, NEW g \in Page, NEW f \in Frame
  PROVE  LET e == set_TLB_entry({0}, g, p, f)
         IN  /\ e \subseteq 0..63
             /\ TLB_VALID(e)
             /\ TLB_TAG(e) = g
             /\ TLB_PID(e) = p
             /\ TLB_FRMNUM(e) = f
<1> DEFINE v == SETVAL({}, {0}, {59}, 59)
           t == SETVAL(v, g, 45..58, 45)
           q == SETVAL(t, p, 13..44, 13)
           e == SETVAL(q, f, 0..12, 0)
<1>1. /\ \A b \in g : b \in Nat /\ b + 45 <= 58
      /\ \A b \in p : b \in Nat /\ b + 13 <= 44
      /\ \A b \in f : b \in Nat /\ b + 0 <= 12
  BY FieldAssumption
<1>2. e = set_TLB_entry({0}, g, p, f)
  BY DEF set_TLB_entry
<1> HIDE DEF v, t, q, e
<1>3. e \subseteq 0..63
  <2>1. \A b \in v : b = 59
    BY SetBits DEF v
  <2>2. \A b \in t : b \in 45..59
    BY <2>1, SetBits DEF t
  <2>3. \A b \in q : b \in 13..59
    BY <2>2, SetBits DEF q
  <2>4. \A b \in e : b \in 0..59
    BY <2>3, SetBits DEF e
  <2> QED BY <2>4
<1>4. GETVAL(e, {59}, 59) = {0}
  <2>1. GETVAL(v, {59}, 59) = {0}
    BY SetGetBit DEF v
  <2>2. GETVAL(t, {59}, 59) = {0}
    BY <2>1, SetGetOther DEF t
  <2>3. GETVAL(q, {59}, 59) = {0}
    BY <2>2, SetGetOther DEF q
  <2> QED BY <2>3, SetGetOther DEF e
<1>5. GETVAL(e, 45..58, 45) = g
  <2>1. GETVAL(t, 45..58, 45) = g
    BY <1>1, SetGetSame DEF t
  <2>2. GETVAL(q, 45..58, 45) = g
    BY <2>1, SetGetOther DEF q
  <2> QED BY <2>2, SetGetOther DEF e
<1>6. GETVAL(e, 13..44, 13) = p
  <2>1. GETVAL(q, 13..44, 13) = p
    BY <1>1, SetGetSame DEF q
  <2> QED BY <2>1, SetGetOther DEF e
<1>7. GETVAL(e, 0..12, 0) = f
  BY <1>1, SetGetSame DEF e
<1> QED BY <1>2, <1>3, <1>4, <1>5, <1>6, <1>7
        DEF TLB_VALID, TLB_TAG, TLB_PID, TLB_FRMNUM

\* SET_TLB_VALID(entry, 0) makes an entry invalid and keeps its width.
LEMMA ClearedFields ==
  ASSUME NEW e, e \subseteq 0..63
  PROVE  Cleared(e) \subseteq 0..63 /\ ~ TLB_VALID(Cleared(e))
<1>1. GETVAL(SETVAL(e, {}, {59}, 59), {59}, 59) = {}
  BY SetGetBit
<1>2. \A b \in Cleared(e) : b \in e \/ b = 59
  BY SetBits DEF Cleared
<1>3. Cleared(e) \subseteq 0..63
  <2> SUFFICES ASSUME NEW b \in Cleared(e) PROVE b \in 0..63
    OBVIOUS
  <2>1. CASE b \in e
    BY <2>1
  <2>2. CASE b = 59
    BY <2>2
  <2> QED BY <1>2, <2>1, <2>2
<1> QED BY <1>1, <1>3 DEF Cleared, TLB_VALID

\* An untouched entry of the zeroed storage is not valid.
LEMMA BlankInvalid == ~ TLB_VALID(Blank)
BY DEF TLB_VALID, Blank, GETVAL, Shr

-----------------------------------------------------------------------------
(* The inductive invariant: besides NoDuplicate, a valid entry names a     *)
(* process, a page and a frame, so that what a read answers for a page     *)
(* that is cached is never taken for a miss.                               *)

Meaningful ==
  \A n \in Index : TLB_VALID(storage[n]) =>
    /\ TLB_PID(storage[n]) \in Pid
    /\ TLB_TAG(storage[n]) \in Page
    /\ TLB_FRMNUM(storage[n]) \in Frame

IInv == TypeOK /\ NoDuplicate /\ Meaningful

\* No frame number is -1.
LEMMA MissNoFrame == Miss \notin Frame
<1>1. 31 \in Miss /\ \A f \in Frame : 31 \notin f
  BY FieldAssumption DEF Miss
<1> QED BY <1>1

\* The scanning loops find the first index of a set.
LEMMA FirstIsIn ==
  ASSUME NEW S \in SUBSET Index, S # {}
  PROVE  First(S) \in S
<1>1. S \in SUBSET Nat
  BY DEF Index
<1>2. \E n \in S : \A m \in S : n <= m
  BY <1>1, LeastExists
<1> QED BY <1>2 DEF First

\* What tlb_cache_read answers: the frame of the entry that matches, and Miss
\* exactly when there is none.
LEMMA ReadAnswers ==
  IInv => \A p \in Pid, g \in Page :
            /\ \A n \in Index : Matches(n, p, g) =>
                 /\ Read(p, g) = TLB_FRMNUM(storage[n])
                 /\ Read(p, g) \in Frame
            /\ (\A n \in Index : ~ Matches(n, p, g)) => Read(p, g) = Miss
<1> SUFFICES ASSUME IInv, NEW p \in Pid, NEW g \in Page
             PROVE  /\ \A n \in Index : Matches(n, p, g) =>
                         /\ Read(p, g) = TLB_FRMNUM(storage[n])
                         /\ Read(p, g) \in Frame
                    /\ (\A n \in Index : ~ Matches(n, p, g)) => Read(p, g) = Miss
  OBVIOUS
<1> DEFINE hits == {n \in Index : Matches(n, p, g)}
<1>1. ASSUME NEW n \in Index, Matches(n, p, g)
      PROVE  Read(p, g) = TLB_FRMNUM(storage[n]) /\ Read(p, g) \in Frame
  <2>1. \A m \in hits : m = n
    BY <1>1 DEF IInv, NoDuplicate, Matches
  <2>2. hits # {} /\ First(hits) = n
    BY <1>1, <2>1, FirstIsIn
  <2> QED BY <1>1, <2>2 DEF Read, IInv, Meaningful, Matches
<1>2. ASSUME \A n \in Index : ~ Matches(n, p, g) PROVE Read(p, g) = Miss
  BY <1>2 DEF Read
<1> QED BY <1>1, <1>2

LEMMA InitIInv == Init => IInv
<1> SUFFICES ASSUME Init PROVE IInv
  OBVIOUS
<1>1. \A n \in Index : storage[n] = {} /\ ~ TLB_VALID(storage[n])
  BY BlankInvalid DEF Init, Blank
<1>2. TypeOK
  BY DEF TypeOK, Init, Blank
<1> QED BY <1>1, <1>2 DEF IInv, NoDuplicate, Meaningful

\* A step that sets entry n to page g of process p keeps the invariant, if no
\* other entry is about that page.
LEMMA SetEntryIInv ==
  ASSUME IInv, NEW n \in Index, NEW p \in Pid, NEW g \in Page, NEW f \in Frame,
         \A m \in Index : Matches(m, p, g) => m = n,
         SetEntry(n, p, g, f)
  PROVE  /\ IInv'
         /\ \A q \in Pid, h \in Page, m \in Index :
              Matches(m, q, h)' <=> IF m = n THEN q = p /\ h = g
                                             ELSE Matches(m, q, h)
         /\ TLB_FRMNUM(storage'[n]) = f
         /\ \A m \in Index \ {n} : storage'[m] = storage[m]
<1> DEFINE e == set_TLB_entry({0}, g, p, f)
<1>1. /\ e \subseteq 0..63
      /\ TLB_VALID(e) /\ TLB_TAG(e) = g /\ TLB_PID(e) = p /\ TLB_FRMNUM(e) = f
  BY EntryFields
<1>2. storage' = [storage EXCEPT ![n] = e] /\ storage \in [Index -> SUBSET (0..63)]
  BY DEF SetEntry, IInv, TypeOK
<1> HIDE DEF e
<1>3. storage'[n] = e /\ \A m \in Index \ {n} : storage'[m] = storage[m]
  BY <1>2
<1>4. TypeOK'
  BY <1>1, <1>2 DEF TypeOK
<1>5. Meaningful'
  BY <1>1, <1>3 DEF IInv, Meaningful
<1>6. \A q, h : \A m \in Index :
        Matches(m, q, h)' <=> IF m = n THEN q = p /\ h = g ELSE Matches(m, q, h)
  BY <1>1, <1>3 DEF Matches
<1>7. NoDuplicate'
  BY <1>1, <1>3 DEF IInv, NoDuplicate, Matches
<1> QED BY <1>1, <1>3, <1>4, <1>5, <1>6, <1>7 DEF IInv

\* A step that clears the valid bits of some entries keeps the invariant.
LEMMA ClearIInv ==
  ASSUME IInv, NEW S \in SUBSET Index,
         storage' = [m \in Index |-> IF m \in S THEN Cleared(storage[m])
                                                ELSE storage[m]]
  PROVE  /\ IInv'
         /\ \A q, h : \A m \in Index :
              Matches(m, q, h)' <=> m \notin S /\ Matches(m, q, h)
         /\ \A m \in Index \ S : storage'[m] = storage[m]
<1>1. \A m \in Index : storage[m] \subseteq 0..63
  BY DEF IInv, TypeOK
<1>2. \A m \in S : storage'[m] \subseteq 0..63 /\ ~ TLB_VALID(storage'[m])
  BY <1>1, ClearedFields
<1>3. \A m \in Index \ S : storage'[m] = storage[m]
  OBVIOUS
<1>4. TypeOK'
  BY <1>1, <1>2, <1>3 DEF TypeOK
<1>5. Meaningful' /\ NoDuplicate'
  BY <1>2, <1>3 DEF IInv, Meaningful, NoDuplicate, Matches
<1> QED BY <1>2, <1>3, <1>4, <1>5 DEF IInv, Matches

-----------------------------------------------------------------------------
(* The refinement mapping and the three calls.                             *)

\* What the map says, from the array's point of view.
Tlb == [k \in Pid \X Page |-> Read(k[1], k[2])]

\* The map counts its pages as everybody does.
LEMMA SameCardinality == \A S : Map!Cardinality(S) = Cardinality(S)
BY DEF Map!Cardinality, Cardinality, Map!IsFiniteSet, IsFiniteSet

\* The keys of the map are the pages some entry is about.
LEMMA StoredKeys ==
  IInv => /\ \A k \in Pid \X Page :
               Tlb[k] # Miss <=> \E n \in Index : Matches(n, k[1], k[2])
          /\ Map!Stored = {k \in Pid \X Page : Tlb[k] # Miss}
<1> SUFFICES ASSUME IInv
             PROVE  \A k \in Pid \X Page :
                      Tlb[k] # Miss <=> \E n \in Index : Matches(n, k[1], k[2])
  BY DEF Map!Stored, Map!Key, Tlb
<1> TAKE k \in Pid \X Page
<1>1. k[1] \in Pid /\ k[2] \in Page /\ Tlb[k] = Read(k[1], k[2])
  BY DEF Tlb
<1> QED BY <1>1, ReadAnswers, MissNoFrame

\* While an entry is free, the map is not full: every stored page has an entry
\* of its own.
LEMMA FreeMeansRoom ==
  ASSUME IInv, NEW n \in Index, ~ TLB_VALID(storage[n])
  PROVE  Cardinality(Map!Stored) < TLBSZ
<1> DEFINE S == {k \in Pid \X Page : Tlb[k] # Miss}
           F == [k \in S |-> CHOOSE m \in Index : Matches(m, k[1], k[2])]
           R == Index \ {n}
<1>1. \A k \in S : F[k] \in Index /\ Matches(F[k], k[1], k[2])
  BY StoredKeys
<1>2. F \in [S -> R]
  BY <1>1 DEF Matches
<1>3. ASSUME NEW k \in S, NEW l \in S, F[k] = F[l] PROVE k = l
  <2>1. k[1] = l[1] /\ k[2] = l[2]
    BY <1>1, <1>3, SMTT(30) DEF Matches
  <2> QED BY <2>1
<1>4. IsFiniteSet(Index) /\ Cardinality(Index) = TLBSZ
  BY SizeAssumption, FS_Interval DEF Index
<1>5. IsFiniteSet(R) /\ Cardinality(R) = TLBSZ - 1
  BY <1>4, FS_RemoveElement
<1> HIDE DEF S, F, R
<1>6. F \in Injection(S, R)
  BY <1>2, <1>3, Fun_IsInj
<1>7. IsFiniteSet(S) /\ Cardinality(S) <= Cardinality(R)
  BY <1>5, <1>6, FS_Injection
<1>8. Cardinality(S) \in Nat
  BY <1>7, FS_CardinalityType
<1>9. Map!Stored = S
  BY StoredKeys DEF S
<1> QED BY <1>5, <1>7, <1>8, <1>9, SizeAssumption

\* When every entry is valid the map is full: no two entries are about the same
\* page.
LEMMA NoFreeMeansFull ==
  ASSUME IInv, \A n \in Index : TLB_VALID(storage[n])
  PROVE  ~ (Cardinality(Map!Stored) < TLBSZ)
<1> DEFINE S == {k \in Pid \X Page : Tlb[k] # Miss}
           F == [n \in Index |-> <<TLB_PID(storage[n]), TLB_TAG(storage[n])>>]
           G == [k \in S |-> CHOOSE m \in Index : Matches(m, k[1], k[2])]
<1>1. ASSUME NEW n \in Index PROVE F[n] \in S
  <2>1. F[n] \in Pid \X Page /\ Matches(n, F[n][1], F[n][2])
    BY DEF IInv, Meaningful, Matches
  <2> QED BY <2>1, StoredKeys
<1>2. ASSUME NEW m \in Index, NEW n \in Index, F[m] = F[n] PROVE m = n
  BY <1>2 DEF IInv, NoDuplicate, Matches
<1>3. \A k \in S : G[k] \in Index /\ Matches(G[k], k[1], k[2])
  BY StoredKeys
<1>4. ASSUME NEW k \in S, NEW l \in S, G[k] = G[l] PROVE k = l
  <2>1. k[1] = l[1] /\ k[2] = l[2]
    BY <1>3, <1>4 DEF Matches
  <2> QED BY <2>1
<1>5. F \in [Index -> S] /\ G \in [S -> Index]
  BY <1>1, <1>3
<1>6. IsFiniteSet(Index) /\ Cardinality(Index) = TLBSZ
  BY SizeAssumption, FS_Interval DEF Index
<1> HIDE DEF S, F, G
<1>7. F \in Injection(Index, S) /\ G \in Injection(S, Index)
  BY <1>2, <1>4, <1>5, Fun_IsInj
<1>8. IsFiniteSet(S)
  BY <1>6, <1>7, FS_Injection
<1>9. Cardinality(Index) <= Cardinality(S)
  BY <1>7, <1>8, FS_Injection
<1>10. Cardinality(S) \in Nat
  BY <1>8, FS_CardinalityType
<1>11. Map!Stored = S
  BY StoredKeys DEF S
<1> QED BY <1>6, <1>9, <1>10, <1>11, SizeAssumption

\* tlb_cache_write.
LEMMA WriteStep ==
  ASSUME IInv, NEW p \in Pid, NEW g \in Page, NEW f \in Frame, Write(p, g, f)
  PROVE  IInv' /\ Map!Store(p, g, f)
<1> DEFINE hits == {n \in Index : Matches(n, p, g)}
           free == {n \in Index : ~ TLB_VALID(storage[n])}
<1>1. PICK n \in Index :
        /\ SetEntry(n, p, g, f)
        /\ \A m \in hits : m = n
        /\ \/ n \in hits
           \/ n \in free
           \/ hits = {} /\ free = {}
  <2>1. CASE hits # {}
    <3>1. First(hits) \in hits
      BY <2>1, FirstIsIn
    <3>2. \A m \in hits : m = First(hits)
      BY <3>1 DEF IInv, NoDuplicate, Matches
    <3> QED BY <2>1, <3>1, <3>2 DEF Write
  <2>2. CASE hits = {} /\ free # {}
    <3>1. First(free) \in free
      BY <2>2, FirstIsIn
    <3> QED BY <2>2, <3>1 DEF Write
  <2>3. CASE hits = {} /\ free = {}
    BY <2>3 DEF Write
  <2> QED BY <2>1, <2>2, <2>3
<1>2. \A m \in Index : Matches(m, p, g) => m = n
  BY <1>1
<1>3. /\ IInv'
      /\ \A q \in Pid, h \in Page, m \in Index :
           Matches(m, q, h)' <=> IF m = n THEN q = p /\ h = g
                                          ELSE Matches(m, q, h)
      /\ TLB_FRMNUM(storage'[n]) = f
      /\ \A m \in Index \ {n} : storage'[m] = storage[m]
  BY <1>1, <1>2, SetEntryIInv
<1>4. /\ ReadAnswers!2
      /\ (ReadAnswers!2)'
  BY <1>3, ReadAnswers, PTL
<1>5. ASSUME NEW q \in Pid, NEW h \in Page
      PROVE  Read(q, h)' = IF q = p /\ h = g THEN f
                           ELSE IF Matches(n, q, h) THEN Miss ELSE Read(q, h)
  <2>1. CASE q = p /\ h = g
    BY <1>3, <1>4, <2>1
  <2>2. CASE ~ (q = p /\ h = g) /\ Matches(n, q, h)
    <3>1. \A m \in Index : Matches(m, q, h) => m = n
      BY <2>2 DEF IInv, NoDuplicate, Matches
    <3>2. \A m \in Index : ~ Matches(m, q, h)'
      BY <1>3, <2>2, <3>1
    <3> QED BY <1>4, <2>2, <3>2
  <2>3. CASE ~ (q = p /\ h = g) /\ ~ Matches(n, q, h)
    <3>1. \A m \in Index : Matches(m, q, h)' <=> Matches(m, q, h)
      BY <1>3, <2>3
    <3>2. CASE \A m \in Index : ~ Matches(m, q, h)
      BY <1>4, <2>3, <3>1, <3>2
    <3>3. ASSUME NEW m \in Index, Matches(m, q, h)
          PROVE  Read(q, h)' = Read(q, h)
      <4>1. Matches(m, q, h)' /\ storage'[m] = storage[m]
        BY <1>3, <2>3, <3>1, <3>3
      <4> QED BY <1>4, <3>3, <4>1
    <3> QED BY <2>3, <3>2, <3>3
  <2> QED BY <2>1, <2>2, <2>3
<1>6. Tlb \in [Pid \X Page -> Frame \cup {Miss}] /\ <<p, g>> \in Pid \X Page
  BY <1>4 DEF Tlb
<1>7. Tlb' = [k \in Pid \X Page |->
                 IF k = <<p, g>> THEN f
                 ELSE IF Matches(n, k[1], k[2]) THEN Miss ELSE Tlb[k]]
  <2>1. ASSUME NEW k \in Pid \X Page
        PROVE  Read(k[1], k[2])' = IF k = <<p, g>> THEN f
                                   ELSE IF Matches(n, k[1], k[2]) THEN Miss
                                   ELSE Tlb[k]
    <3>1. k[1] \in Pid /\ k[2] \in Page /\ (k = <<p, g>> <=> k[1] = p /\ k[2] = g)
      OBVIOUS
    <3>2. Tlb[k] = Read(k[1], k[2])
      BY DEF Tlb
    <3> QED BY <1>5, <3>1, <3>2
  <2>2. Tlb' = [k \in Pid \X Page |-> Read(k[1], k[2])']
    BY DEF Tlb
  <2> QED BY <2>1, <2>2
<1>8. Map!Store(p, g, f) <=>
         IF Tlb[<<p, g>>] # Miss \/ Cardinality(Map!Stored) < TLBSZ
           THEN Tlb' = [Tlb EXCEPT ![<<p, g>>] = f]
           ELSE \E v \in Map!Stored : Tlb' = [Tlb EXCEPT ![v] = Miss, ![<<p, g>>] = f]
  BY SameCardinality DEF Map!Store, Tlb
<1>9. CASE n \in hits
  <2>1. Tlb[<<p, g>>] # Miss
    BY <1>9, StoredKeys
  <2>2. \A k \in Pid \X Page : Matches(n, k[1], k[2]) => k = <<p, g>>
    BY <1>9 DEF Matches
  <2>3. Tlb' = [Tlb EXCEPT ![<<p, g>>] = f]
    BY <1>6, <1>7, <2>2
  <2> QED BY <1>3, <1>8, <2>1, <2>3
<1>10. CASE n \in free
  <2>1. Cardinality(Map!Stored) < TLBSZ
    BY <1>10, FreeMeansRoom
  <2>2. \A k \in Pid \X Page : ~ Matches(n, k[1], k[2])
    BY <1>10 DEF Matches
  <2>3. Tlb' = [Tlb EXCEPT ![<<p, g>>] = f]
    BY <1>6, <1>7, <2>2
  <2> QED BY <1>3, <1>8, <2>1, <2>3
<1>11. CASE hits = {} /\ free = {}
  <2> DEFINE v == <<TLB_PID(storage[n]), TLB_TAG(storage[n])>>
  <2>1. Tlb[<<p, g>>] = Miss
    BY <1>4, <1>11 DEF Tlb
  <2>2. ~ (Cardinality(Map!Stored) < TLBSZ)
    BY <1>11, NoFreeMeansFull
  <2>3. v \in Pid \X Page /\ Matches(n, v[1], v[2])
    BY <1>11 DEF IInv, Meaningful, Matches
  <2>4. v \in Map!Stored
    BY <2>3, StoredKeys
  <2>5. \A k \in Pid \X Page : Matches(n, k[1], k[2]) <=> k = v
    BY <1>11 DEF Matches
  <2>6. v # <<p, g>>
    BY <1>11, <2>3
  <2> HIDE DEF v
  <2>7. Tlb' = [Tlb EXCEPT ![v] = Miss, ![<<p, g>>] = f]
    BY <1>6, <1>7, <2>3, <2>5, <2>6
  <2> QED BY <1>3, <1>8, <2>1, <2>2, <2>4, <2>7
<1> QED BY <1>1, <1>9, <1>10, <1>11

\* tlb_cache_invalidate, for one page or for all pages of a process: the entries
\* that are cleared are the ones about these pages.
LEMMA ClearStep ==
  ASSUME IInv, NEW p \in Pid, NEW P \in SUBSET Page, NEW S \in SUBSET Index,
         \A n \in Index, g \in Page :
           \A q \in Pid : Matches(n, q, g) => (n \in S <=> q = p /\ g \in P),
         storage' = [m \in Index |-> IF m \in S THEN Cleared(storage[m])
                                                ELSE storage[m]]
  PROVE  IInv' /\ Map!Invalidate(p, P)
<1>1. /\ IInv'
      /\ \A q, h : \A m \in Index :
           Matches(m, q, h)' <=> m \notin S /\ Matches(m, q, h)
      /\ \A m \in Index \ S : storage'[m] = storage[m]
  BY ClearIInv
<1>2. /\ ReadAnswers!2
      /\ (ReadAnswers!2)'
  BY <1>1, ReadAnswers, PTL
<1>3. ASSUME NEW q \in Pid, NEW h \in Page
      PROVE  Read(q, h)' = IF q = p /\ h \in P THEN Miss ELSE Read(q, h)
  <2>1. CASE \A m \in Index : ~ Matches(m, q, h)
    BY <1>1, <1>2, <2>1
  <2>2. ASSUME NEW m \in Index, Matches(m, q, h)
        PROVE  Read(q, h)' = IF q = p /\ h \in P THEN Miss ELSE Read(q, h)
    <3>1. \A n \in Index : Matches(n, q, h) => n = m
      BY <2>2 DEF IInv, NoDuplicate, Matches
    <3>2. CASE m \in S
      <4>1. (q = p /\ h \in P) /\ \A n \in Index : ~ Matches(n, q, h)'
        BY <1>1, <2>2, <3>1, <3>2
      <4> QED BY <1>2, <4>1
    <3>3. CASE m \notin S
      <4>1. /\ ~ (q = p /\ h \in P)
            /\ Matches(m, q, h)' /\ storage'[m] = storage[m]
        BY <1>1, <2>2, <3>3
      <4> QED BY <1>2, <2>2, <4>1
    <3> QED BY <3>2, <3>3
  <2> QED BY <2>1, <2>2
<1>4. Tlb' = [k \in Pid \X Page |->
                IF k[1] = p /\ k[2] \in P THEN Miss ELSE Tlb[k]]
  BY <1>3 DEF Tlb
<1> QED BY <1>1, <1>4 DEF Map!Invalidate, Map!Key, Tlb

LEMMA InvalidateStep ==
  ASSUME IInv, NEW p \in Pid, NEW g \in Page, Invalidate(p, g)
  PROVE  IInv' /\ Map!Invalidate(p, {g})
<1> DEFINE hits == {n \in Index : Matches(n, p, g)}
<1>1. hits # {} /\ storage' = [storage EXCEPT ![First(hits)] = Cleared(@)]
  BY DEF Invalidate
<1>2. First(hits) \in hits /\ hits = {First(hits)}
  <2>1. First(hits) \in hits
    BY <1>1, FirstIsIn
  <2>2. \A m \in hits : m = First(hits)
    BY <2>1 DEF IInv, NoDuplicate, Matches
  <2> QED BY <2>1, <2>2
<1>3. storage' = [m \in Index |-> IF m \in hits THEN Cleared(storage[m])
                                                ELSE storage[m]]
  BY <1>1, <1>2 DEF IInv, TypeOK
<1>4. \A n \in Index, h \in Page :
        \A q \in Pid : Matches(n, q, h) => (n \in hits <=> q = p /\ h \in {g})
  BY DEF Matches
<1> HIDE DEF hits
<1>5. hits \in SUBSET Index /\ {g} \in SUBSET Page
  BY DEF hits
<1> QED BY <1>3, <1>4, <1>5, ClearStep

LEMMA FlushStep ==
  ASSUME IInv, NEW p \in Pid, Flush(p)
  PROVE  IInv' /\ Map!Invalidate(p, Page)
<1> DEFINE S == {n \in Index : TLB_VALID(storage[n]) /\ TLB_PID(storage[n]) = p}
<1>1. storage' = [m \in Index |-> IF m \in S THEN Cleared(storage[m])
                                             ELSE storage[m]]
  BY DEF Flush
<1>2. \A n \in Index, h \in Page :
        \A q \in Pid : Matches(n, q, h) => (n \in S <=> q = p /\ h \in Page)
  BY DEF Matches
<1> HIDE DEF S
<1>3. S \in SUBSET Index /\ Page \in SUBSET Page
  BY DEF S
<1> QED BY <1>1, <1>2, <1>3, ClearStep

-----------------------------------------------------------------------------
LEMMA NextIInv == IInv /\ [Next]_vars => IInv'
<1> SUFFICES ASSUME IInv, [Next]_vars PROVE IInv'
  OBVIOUS
<1>1. CASE Next
  BY <1>1, WriteStep, InvalidateStep, FlushStep DEF Next
<1>2. CASE UNCHANGED vars
  BY <1>2 DEF vars, IInv, TypeOK, NoDuplicate, Meaningful, Matches
<1> QED BY <1>1, <1>2

\* The inductive invariant.
THEOREM Invariance == Spec => []IInv
BY InitIInv, NextIInv, PTL DEF Spec

\* The storage stays an array of TLBSZ words of 64 bits: no write of an entry
\* goes past the end of the array or of the entry.
THEOREM TypeCorrect == Spec => []TypeOK
<1>1. IInv => TypeOK
  BY DEF IInv
<1> QED BY <1>1, Invariance, PTL

\* A page is cached in at most one entry, for a TLB of any size: the entry an
\* invalidation leaves behind is never a second one for the same page.
THEOREM CachedOnce == Spec => []NoDuplicate
<1>1. IInv => NoDuplicate
  BY DEF IInv
<1> QED BY <1>1, Invariance, PTL

\* The array of entries implements the bounded map that module Paging is built
\* on.
THEOREM RefinesTlbMap == Spec => ImplementsTlbMap
<1>1. Init => Map!Init
  <2> SUFFICES ASSUME Init PROVE Tlb = [k \in Pid \X Page |-> Miss]
    BY DEF Map!Init, Map!Key, Tlb
  <2>1. IInv /\ \A n \in Index : ~ TLB_VALID(storage[n])
    BY InitIInv, BlankInvalid DEF Init
  <2>2. \A p \in Pid, g \in Page : Read(p, g) = Miss
    BY <2>1, ReadAnswers DEF Matches
  <2> QED BY <2>2 DEF Tlb
<1>2. IInv /\ [Next]_vars => [Map!Next]_Tlb
  <2> SUFFICES ASSUME IInv, [Next]_vars PROVE Map!Next \/ Tlb' = Tlb
    OBVIOUS
  <2>1. CASE Next
    BY <2>1, WriteStep, InvalidateStep, FlushStep DEF Next, Map!Next
  <2>2. CASE UNCHANGED vars
    BY <2>2 DEF vars, Tlb, Read, Matches
  <2> QED BY <2>1, <2>2
<1> QED BY <1>1, <1>2, Invariance, PTL DEF Spec, ImplementsTlbMap, Map!Spec, Tlb

\* Each call does to the map what its own specification says: a write stores
\* its page and pushes out at most one other, an invalidation forgets exactly
\* the page, or the process, it was asked to forget.
THEOREM CallsImplement == Spec => CallsAgree
<1>1. IInv /\ [Next]_vars =>
        [\A p \in Pid :
           /\ \A g \in Page :
                /\ \A f \in Frame : Write(p, g, f) => Map!Store(p, g, f)
                /\ Invalidate(p, g) => Map!Invalidate(p, {g})
           /\ Flush(p) => Map!Invalidate(p, Page)]_vars
  BY WriteStep, InvalidateStep, FlushStep
<1> QED BY <1>1, Invariance, PTL DEF Spec, CallsAgree

-----------------------------------------------------------------------------
(* Calls that overlap (module TlbRace).  A call knows what its scan has    *)
(* passed, and only its own process can add an entry for its page.         *)

\* What the call of process p knows of the array.
Knows(p, c) ==
  /\ c.at \in {"match", "find"} =>
       \A n \in Index : n < c.n => ~ Matches(n, p, c.page)
  /\ c.at = "free" => \A n \in Index : ~ Matches(n, p, c.page)
  /\ c.at \in {"store", "clear"} =>
       \A n \in Index : Matches(n, p, c.page) => n = c.n

HasFrame(c) == c.at \in {"match", "free", "store", "clear"} => c.frame \in Frame

CallInv == \A p \in Pid : Knows(p, call[p]) /\ HasFrame(call[p])

RaceInv == IInv /\ RaceTypeOK /\ EntriesCurrent /\ CallInv

\* No entry of another process appears.
NoneFor(p) ==
  \A q \in Pid \ {p}, g \in Page, n \in Index : Matches(n, q, g)' => Matches(n, q, g)

\* A step of p that gives no other process an entry leaves what they know true.
LEMMA OthersKnow ==
  ASSUME RaceInv, NEW p \in Pid, NoneFor(p),
         NEW d, call' = [call EXCEPT ![p] = d],
         Knows(p, d)', HasFrame(d)
  PROVE  CallInv'
<1>1. call'[p] = d /\ \A q \in Pid \ {p} : call'[q] = call[q]
  BY DEF RaceInv, RaceTypeOK
<1>2. ASSUME NEW q \in Pid \ {p} PROVE Knows(q, call[q])' /\ HasFrame(call[q])'
  <2>1. Knows(q, call[q]) /\ HasFrame(call[q])
    BY DEF RaceInv, CallInv
  <2>2. CASE call[q] = Idle
    BY <1>1, <2>2 DEF Knows, HasFrame, Idle
  <2>3. CASE call[q] # Idle
    <3>1. call[q].page \in Page
      BY <2>3 DEF RaceInv, RaceTypeOK
    <3>2. \A n \in Index : Matches(n, q, call[q].page)' => Matches(n, q, call[q].page)
      BY <1>1, <3>1 DEF NoneFor, Matches
    <3> QED BY <1>1, <2>1, <3>2 DEF Knows, HasFrame
  <2> QED BY <2>2, <2>3
<1>3. Knows(p, call[p])' /\ HasFrame(call[p])'
  BY <1>1 DEF Knows, HasFrame, Matches
<1> QED BY <1>2, <1>3 DEF CallInv

\* A step of p that only looks.
LEMMA LookStep ==
  ASSUME RaceInv, NEW p \in Pid, Look,
         NEW d, call' = [call EXCEPT ![p] = d],
         d \in {Idle} \cup [at : Steps, page : Page, frame : Frame \cup {{}}, n : Index],
         Knows(p, d), HasFrame(d)
  PROVE  RaceInv'
<1>1. storage' = storage /\ last' = last
  BY DEF Look
<1>2. IInv' /\ EntriesCurrent'
  BY <1>1 DEF RaceInv, IInv, TypeOK, NoDuplicate, Meaningful, Matches, EntriesCurrent
<1>3. RaceTypeOK'
  BY <1>1, <1>2 DEF RaceInv, RaceTypeOK, IInv
<1>4. NoneFor(p) /\ Knows(p, d)'
  BY <1>1 DEF NoneFor, Matches, Knows
<1>5. CallInv'
  BY <1>4, OthersKnow
<1> QED BY <1>2, <1>3, <1>5 DEF RaceInv

\* The call of a process that is not idle.
LEMMA InCall ==
  ASSUME RaceInv, NEW p \in Pid, call[p].at # "idle"
  PROVE  /\ call[p] \in [at : Steps, page : Page, frame : Frame \cup {{}}, n : Index]
         /\ Knows(p, call[p]) /\ HasFrame(call[p])
BY DEF RaceInv, RaceTypeOK, CallInv, Idle

\* Moving on in a loop, or out of it, keeps the page and the frame of a call.
LEMMA GotoStep ==
  ASSUME RaceInv, NEW p \in Pid, Look, call[p].at # "idle",
         NEW at \in {"match", "free", "store", "find"}, NEW n \in Index, Goto(p, at, n),
         at # "find" => call[p].frame \in Frame,
         at \in {"match", "find"} =>
           \A m \in Index : m < n => ~ Matches(m, p, call[p].page),
         at = "free" => \A m \in Index : ~ Matches(m, p, call[p].page),
         at = "store" => \A m \in Index : Matches(m, p, call[p].page) => m = n
  PROVE  RaceInv'
<1> DEFINE d == [call[p] EXCEPT !.at = at, !.n = n]
<1>1. call[p] \in [at : Steps, page : Page, frame : Frame \cup {{}}, n : Index]
  BY InCall
<1>2. /\ d \in [at : Steps, page : Page, frame : Frame \cup {{}}, n : Index]
      /\ d.at = at /\ d.n = n /\ d.page = call[p].page /\ d.frame = call[p].frame
  BY <1>1 DEF Steps
<1>3. call' = [call EXCEPT ![p] = d]
  BY DEF Goto
<1> HIDE DEF d
<1>4. Knows(p, d) /\ HasFrame(d)
  BY <1>2 DEF Knows, HasFrame
<1> QED BY <1>2, <1>3, <1>4, LookStep

LEMMA StartsStep ==
  ASSUME RaceInv, NEW p \in Pid, StartWrite(p) \/ StartInvalidate(p)
  PROVE  RaceInv'
<1> DEFINE D(at, g, f) == [at |-> at, page |-> g, frame |-> f, n |-> 0]
<1>1. PICK at \in {"match", "find"}, g \in Page, f \in Frame \cup {{}} :
        /\ call' = [call EXCEPT ![p] = D(at, g, f)] /\ Look
        /\ at = "match" => f \in Frame
  BY DEF StartWrite, StartInvalidate
<1> DEFINE d == D(at, g, f)
<1>2. d \in [at : Steps, page : Page, frame : Frame \cup {{}}, n : Index]
  BY SizeAssumption DEF Steps, Index
<1>3. Knows(p, d) /\ HasFrame(d)
  BY <1>1 DEF Knows, HasFrame, Index
<1> HIDE DEF d
<1> QED BY <1>1, <1>2, <1>3, LookStep DEF d

LEMMA MatchesStep ==
  ASSUME RaceInv, NEW p \in Pid, MatchStep(p)
  PROVE  RaceInv'
<1> DEFINE c == call[p]
<1>1. c.at = "match" /\ Look
  BY DEF MatchStep
<1>2. /\ c.n \in Index /\ c.frame \in Frame
      /\ \A m \in Index : m < c.n => ~ Matches(m, p, c.page)
  BY <1>1, InCall DEF Knows, HasFrame
<1>3. CASE Matches(c.n, p, c.page) /\ Goto(p, "store", c.n)
  <2>1. \A m \in Index : Matches(m, p, c.page) => m = c.n
    BY <1>2, <1>3 DEF RaceInv, IInv, NoDuplicate, Matches
  <2> QED BY <1>1, <1>2, <1>3, <2>1, GotoStep
<1>4. CASE ~ Matches(c.n, p, c.page) /\ c.n + 1 \in Index /\ Goto(p, "match", c.n + 1)
  <2>1. \A m \in Index : m < c.n + 1 => ~ Matches(m, p, c.page)
    <3>1. \A m \in Index : m < c.n + 1 => m = c.n \/ m < c.n
      BY <1>2 DEF Index
    <3> QED BY <1>2, <1>4, <3>1
  <2> QED BY <1>1, <1>2, <1>4, <2>1, GotoStep
<1>5. CASE ~ Matches(c.n, p, c.page) /\ c.n + 1 \notin Index /\ Goto(p, "free", 0)
  <2>1. \A m \in Index : ~ Matches(m, p, c.page)
    <3>1. \A m \in Index : m = c.n \/ m < c.n
      BY <1>2, <1>5, SizeAssumption DEF Index
    <3> QED BY <1>2, <1>5, <3>1
  <2>2. 0 \in Index
    BY SizeAssumption DEF Index
  <2> QED BY <1>1, <1>2, <1>5, <2>1, <2>2, GotoStep
<1> QED BY <1>3, <1>4, <1>5 DEF MatchStep

LEMMA FreeStepKeeps ==
  ASSUME RaceInv, NEW p \in Pid, FreeStep(p)
  PROVE  RaceInv'
<1> DEFINE c == call[p]
<1>1. c.at = "free" /\ Look
  BY DEF FreeStep
<1>2. /\ c.n \in Index /\ c.frame \in Frame
      /\ \A m \in Index : ~ Matches(m, p, c.page)
  BY <1>1, InCall DEF Knows, HasFrame
<1>3. \/ \E n \in Index : Goto(p, "store", n)
      \/ \E n \in Index : Goto(p, "free", n)
  BY <1>2 DEF FreeStep
<1> QED BY <1>1, <1>2, <1>3, GotoStep

\* The end of a scan that found nothing: the page has no entry.
LEMMA NothingFound ==
  ASSUME RaceInv, NEW p \in Pid, NEW g \in Page,
         \A m \in Index : ~ Matches(m, p, g),
         storage' = storage, call' = [call EXCEPT ![p] = Idle],
         last' = [last EXCEPT ![<<p, g>>] = Miss]
  PROVE  RaceInv'
<1>1. IInv'
  BY DEF RaceInv, IInv, TypeOK, NoDuplicate, Meaningful, Matches
<1>2. last \in [Pid \X Page -> Frame \cup {Miss}] /\ <<p, g>> \in Pid \X Page
  BY DEF RaceInv, RaceTypeOK
<1>3. last' \in [Pid \X Page -> Frame \cup {Miss}]
  BY <1>2
<1>4. RaceTypeOK'
  BY <1>1, <1>3 DEF RaceInv, RaceTypeOK, IInv
<1>5. EntriesCurrent'
  <2> SUFFICES ASSUME NEW n \in Index, TLB_VALID(storage[n])
               PROVE  LET k == <<TLB_PID(storage[n]), TLB_TAG(storage[n])>>
                      IN  k \in DOMAIN last' /\ last'[k] = TLB_FRMNUM(storage[n])
    BY DEF EntriesCurrent
  <2> DEFINE k == <<TLB_PID(storage[n]), TLB_TAG(storage[n])>>
  <2>1. k \in Pid \X Page /\ last[k] = TLB_FRMNUM(storage[n])
    BY <1>2 DEF RaceInv, EntriesCurrent
  <2>2. k # <<p, g>>
    BY DEF Matches
  <2> QED BY <1>2, <2>1, <2>2
<1>6. NoneFor(p) /\ Knows(p, Idle)' /\ HasFrame(Idle)
  BY DEF NoneFor, Matches, Knows, HasFrame, Idle
<1>7. CallInv'
  BY <1>6, OthersKnow
<1> QED BY <1>1, <1>4, <1>5, <1>7 DEF RaceInv

LEMMA FindStepKeeps ==
  ASSUME RaceInv, NEW p \in Pid, FindStep(p)
  PROVE  RaceInv'
<1> DEFINE c == call[p]
<1>1. c.at = "find"
  BY DEF FindStep
<1>2. /\ c.n \in Index /\ c.page \in Page
      /\ c \in [at : Steps, page : Page, frame : Frame \cup {{}}, n : Index]
      /\ \A m \in Index : m < c.n => ~ Matches(m, p, c.page)
  BY <1>1, InCall DEF Knows
<1>3. CASE /\ Matches(c.n, p, c.page) /\ Look
           /\ call' = [call EXCEPT ![p].at = "clear",
                                  ![p].frame = TLB_FRMNUM(storage[c.n])]
  <2> DEFINE d == [c EXCEPT !.at = "clear", !.frame = TLB_FRMNUM(storage[c.n])]
  <2>1. TLB_FRMNUM(storage[c.n]) \in Frame
    BY <1>2, <1>3 DEF RaceInv, IInv, Meaningful, Matches
  <2>2. /\ d \in [at : Steps, page : Page, frame : Frame \cup {{}}, n : Index]
        /\ d.at = "clear" /\ d.n = c.n /\ d.page = c.page /\ d.frame \in Frame
    BY <1>2, <2>1 DEF Steps
  <2>3. call' = [call EXCEPT ![p] = d]
    BY <1>3
  <2>4. \A m \in Index : Matches(m, p, c.page) => m = c.n
    BY <1>2, <1>3 DEF RaceInv, IInv, NoDuplicate, Matches
  <2> HIDE DEF d
  <2>5. Knows(p, d) /\ HasFrame(d)
    BY <2>2, <2>4 DEF Knows, HasFrame
  <2> QED BY <1>3, <2>2, <2>3, <2>5, LookStep
<1>4. CASE ~ Matches(c.n, p, c.page) /\ c.n + 1 \in Index /\ Goto(p, "find", c.n + 1) /\ Look
  <2>1. \A m \in Index : m < c.n + 1 => ~ Matches(m, p, c.page)
    <3>1. \A m \in Index : m < c.n + 1 => m = c.n \/ m < c.n
      BY <1>2 DEF Index
    <3> QED BY <1>2, <1>4, <3>1
  <2> QED BY <1>1, <1>2, <1>4, <2>1, GotoStep
<1>5. CASE /\ ~ Matches(c.n, p, c.page) /\ c.n + 1 \notin Index
           /\ call' = [call EXCEPT ![p] = Idle]
           /\ last' = [last EXCEPT ![<<p, c.page>>] = Miss]
           /\ UNCHANGED storage
  <2>1. \A m \in Index : m = c.n \/ m < c.n
    BY <1>2, <1>5, SizeAssumption DEF Index
  <2>2. \A m \in Index : ~ Matches(m, p, c.page)
    BY <1>2, <1>5, <2>1
  <2> QED BY <1>2, <1>5, <2>2, NothingFound
<1> QED BY <1>3, <1>4, <1>5 DEF FindStep

\* What was known of the page of slot n is forgotten, and nothing else.
LEMMA LosePageForgets ==
  ASSUME RaceInv, NEW n \in Index
  PROVE  /\ LosePage(n) \in [Pid \X Page -> Frame \cup {Miss}]
         /\ \A m \in Index \ {n} : TLB_VALID(storage[m]) =>
              LET k == <<TLB_PID(storage[m]), TLB_TAG(storage[m])>>
              IN  k \in Pid \X Page /\ LosePage(n)[k] = TLB_FRMNUM(storage[m])
<1>1. last \in [Pid \X Page -> Frame \cup {Miss}]
  BY DEF RaceInv, RaceTypeOK
<1>2. LosePage(n) \in [Pid \X Page -> Frame \cup {Miss}]
  BY <1>1 DEF LosePage
<1>3. ASSUME NEW m \in Index \ {n}, TLB_VALID(storage[m])
      PROVE  LET k == <<TLB_PID(storage[m]), TLB_TAG(storage[m])>>
             IN  k \in Pid \X Page /\ LosePage(n)[k] = TLB_FRMNUM(storage[m])
  <2> DEFINE k == <<TLB_PID(storage[m]), TLB_TAG(storage[m])>>
             j == <<TLB_PID(storage[n]), TLB_TAG(storage[n])>>
  <2>1. k \in Pid \X Page /\ last[k] = TLB_FRMNUM(storage[m])
    BY <1>1, <1>3 DEF RaceInv, EntriesCurrent
  <2>2. TLB_VALID(storage[n]) => j # k
    BY <1>3 DEF RaceInv, IInv, NoDuplicate, Matches
  <2> HIDE DEF k
  <2> QED BY <1>1, <2>1, <2>2 DEF LosePage, k
<1> QED BY <1>2, <1>3

LEMMA StoreKeeps ==
  ASSUME RaceInv, NEW p \in Pid, StoreEntry(p)
  PROVE  RaceInv'
<1>1. PICK n \in Index, g \in Page, f \in Frame :
        /\ SetEntry(n, p, g, f)
        /\ last' = [LosePage(n) EXCEPT ![<<p, g>>] = f]
        /\ call' = [call EXCEPT ![p] = Idle]
        /\ \A m \in Index : Matches(m, p, g) => m = n
  <2>1. call[p].at = "store"
    BY DEF StoreEntry
  <2>2. /\ call[p].n \in Index /\ call[p].page \in Page /\ call[p].frame \in Frame
        /\ \A m \in Index : Matches(m, p, call[p].page) => m = call[p].n
    BY <2>1, InCall DEF Knows, HasFrame
  <2> QED BY <2>2 DEF StoreEntry
<1>2. /\ IInv'
      /\ \A q \in Pid, h \in Page, m \in Index :
           Matches(m, q, h)' <=> IF m = n THEN q = p /\ h = g ELSE Matches(m, q, h)
      /\ TLB_FRMNUM(storage'[n]) = f
      /\ \A m \in Index \ {n} : storage'[m] = storage[m]
  BY <1>1, SetEntryIInv DEF RaceInv
<1>3. last' \in [Pid \X Page -> Frame \cup {Miss}] /\ last'[<<p, g>>] = f
  BY <1>1, LosePageForgets
<1>4. RaceTypeOK'
  BY <1>1, <1>2, <1>3 DEF RaceInv, RaceTypeOK, IInv
<1>5. EntriesCurrent'
  <2> SUFFICES ASSUME NEW m \in Index, TLB_VALID(storage'[m])
               PROVE  LET k == <<TLB_PID(storage'[m]), TLB_TAG(storage'[m])>>
                      IN  k \in DOMAIN last' /\ last'[k] = TLB_FRMNUM(storage'[m])
    BY DEF EntriesCurrent
  <2>1. CASE m = n
    <3>1. Matches(n, p, g)'
      BY <1>1, <1>2
    <3>2. TLB_PID(storage'[n]) = p /\ TLB_TAG(storage'[n]) = g
      BY <3>1 DEF Matches
    <3> QED BY <1>1, <1>2, <1>3, <2>1, <3>2
  <2>2. CASE m # n
    <3> DEFINE k == <<TLB_PID(storage[m]), TLB_TAG(storage[m])>>
    <3>1. storage'[m] = storage[m]
      BY <1>2, <2>2
    <3>2. k \in Pid \X Page /\ LosePage(n)[k] = TLB_FRMNUM(storage[m])
      BY <1>1, <2>2, <3>1, LosePageForgets
    <3>3. k # <<p, g>>
      BY <1>1, <2>2, <3>1 DEF Matches
    <3> HIDE DEF k
    <3>4. k \in DOMAIN last' /\ last'[k] = LosePage(n)[k]
      BY <1>1, <1>3, <3>2, <3>3, LosePageForgets
    <3> QED BY <3>1, <3>2, <3>4 DEF k
  <2> QED BY <2>1, <2>2
<1>6. NoneFor(p)
  BY <1>2 DEF NoneFor
<1>7. Knows(p, Idle)' /\ HasFrame(Idle)
  BY DEF Knows, HasFrame, Idle
<1>8. CallInv'
  BY <1>1, <1>6, <1>7, OthersKnow
<1> QED BY <1>2, <1>4, <1>5, <1>8 DEF RaceInv

LEMMA ClearKeeps ==
  ASSUME RaceInv, NEW p \in Pid, ClearEntry(p)
  PROVE  RaceInv'
<1> DEFINE n == call[p].n
           g == call[p].page
           f == call[p].frame
           e == Cleared(set_TLB_entry({0}, g, p, f))
<1>1. /\ storage' = [storage EXCEPT ![n] = e]
      /\ last' = [LosePage(n) EXCEPT ![<<p, g>>] = Miss]
      /\ call' = [call EXCEPT ![p] = Idle]
      /\ call[p].at = "clear"
  BY DEF ClearEntry
<1>2. /\ n \in Index /\ g \in Page /\ f \in Frame
      /\ \A m \in Index : Matches(m, p, g) => m = n
  BY <1>1, InCall DEF Knows, HasFrame
<1>3. e \subseteq 0..63 /\ ~ TLB_VALID(e)
  BY <1>2, EntryFields, ClearedFields
<1> HIDE DEF n, g, f, e
<1>4. storage \in [Index -> SUBSET (0..63)]
  BY DEF RaceInv, IInv, TypeOK
<1>5. /\ ~ TLB_VALID(storage'[n])
      /\ \A m \in Index \ {n} : storage'[m] = storage[m]
      /\ TypeOK'
  BY <1>1, <1>2, <1>3, <1>4 DEF TypeOK
<1>6. IInv'
  BY <1>2, <1>5 DEF RaceInv, IInv, NoDuplicate, Meaningful, Matches
<1>7. last' \in [Pid \X Page -> Frame \cup {Miss}]
  BY <1>1, <1>2, LosePageForgets
<1>8. RaceTypeOK'
  BY <1>1, <1>5, <1>7 DEF RaceInv, RaceTypeOK
<1>9. EntriesCurrent'
  <2> SUFFICES ASSUME NEW m \in Index, TLB_VALID(storage'[m])
               PROVE  LET k == <<TLB_PID(storage'[m]), TLB_TAG(storage'[m])>>
                      IN  k \in DOMAIN last' /\ last'[k] = TLB_FRMNUM(storage'[m])
    BY DEF EntriesCurrent
  <2> DEFINE k == <<TLB_PID(storage[m]), TLB_TAG(storage[m])>>
  <2>1. m # n /\ storage'[m] = storage[m]
    BY <1>5
  <2>2. k \in Pid \X Page /\ LosePage(n)[k] = TLB_FRMNUM(storage[m])
    BY <1>2, <2>1, LosePageForgets
  <2>3. k # <<p, g>>
    BY <1>2, <2>1 DEF Matches
  <2> HIDE DEF k
  <2>4. k \in DOMAIN last' /\ last'[k] = LosePage(n)[k]
    BY <1>1, <1>2, <1>7, <2>2, <2>3, LosePageForgets
  <2> QED BY <2>1, <2>2, <2>4 DEF k
<1>10. NoneFor(p) /\ Knows(p, Idle)' /\ HasFrame(Idle)
  BY <1>5 DEF NoneFor, Matches, Knows, HasFrame, Idle
<1>11. CallInv'
  BY <1>1, <1>10, OthersKnow
<1> QED BY <1>6, <1>8, <1>9, <1>11 DEF RaceInv

LEMMA RaceInitInv == RaceInit => RaceInv
<1> SUFFICES ASSUME RaceInit PROVE RaceInv
  OBVIOUS
<1>1. IInv
  BY InitIInv DEF RaceInit
<1>2. \A n \in Index : ~ TLB_VALID(storage[n])
  BY BlankInvalid DEF RaceInit, Init
<1>3. RaceTypeOK
  BY <1>1 DEF RaceInit, RaceTypeOK, IInv
<1>4. EntriesCurrent /\ CallInv
  BY <1>2 DEF RaceInit, EntriesCurrent, CallInv, Knows, HasFrame, Idle
<1> QED BY <1>1, <1>3, <1>4 DEF RaceInv

LEMMA RaceNextInv == RaceInv /\ [RaceNext]_raceVars => RaceInv'
<1> SUFFICES ASSUME RaceInv, [RaceNext]_raceVars PROVE RaceInv'
  OBVIOUS
<1>1. CASE RaceNext
  BY <1>1, StartsStep, MatchesStep, FreeStepKeeps, StoreKeeps, FindStepKeeps, ClearKeeps
     DEF RaceNext
<1>2. CASE UNCHANGED raceVars
  BY <1>2 DEF raceVars, RaceInv, IInv, TypeOK, NoDuplicate, Meaningful, Matches,
     RaceTypeOK, EntriesCurrent, CallInv, Knows, HasFrame
<1> QED BY <1>1, <1>2

LEMMA RaceInvariance == RaceSpec => []RaceInv
BY RaceInitInv, RaceNextInv, PTL DEF RaceSpec

\* Calls that overlap stay at indices of the array and write words of 64 bits.
THEOREM RaceTypeCorrect == RaceSpec => []RaceTypeOK
<1>1. RaceInv => RaceTypeOK
  BY DEF RaceInv
<1> QED BY <1>1, RaceInvariance, PTL

\* A page is cached in at most one entry although the calls of different
\* processes interleave index by index: only the process itself adds an entry
\* for its page, and its other calls are over by then.
THEOREM CachedOnceRacing == RaceSpec => []NoDuplicate
<1>1. RaceInv => NoDuplicate
  BY DEF RaceInv, IInv
<1> QED BY <1>1, RaceInvariance, PTL

\* Every valid entry holds the frame its process stored last and has not
\* invalidated: overlapping calls of tlb_cache_write and tlb_cache_invalidate
\* lose entries but bring none back.
THEOREM CurrentRacing == RaceSpec => []EntriesCurrent
<1>1. RaceInv => EntriesCurrent
  BY DEF RaceInv
<1> QED BY <1>1, RaceInvariance, PTL
=============================================================================
