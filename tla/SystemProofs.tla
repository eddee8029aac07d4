---------------------------- MODULE SystemProofs ----------------------------
(***************************************************************************)
(* What tlb_lock buys.  When READ, which takes no lock, is not used or     *)
(* there is one CPU, memory instructions follow one another, and with that *)
(* the frames of the RAM are conserved, written data is never lost and the *)
(* regions in the symbol tables stay mapped.  The system with the slot     *)
(* barrier (module System) behaves like module Paging, so that everything  *)
(* proved there holds for it.                                              *)
(***************************************************************************)
EXTENDS System, PagingProofs

\* No instruction runs beside another one.
Sequential == "read" \notin Ops \/ \A c, d \in Cpu : c = d

\* The swap device has a frame for every page of every process.
EnoughSwap == IsFiniteSet(Pid) /\ NSwp >= Cardinality(Pid) * NPage

-----------------------------------------------------------------------------
(* The invariants.                                                         *)

\* ALLOC, FREE and WRITE hold the lock.
LockInv ==
  \A c \in Cpu : op[c] # NoOp =>
    IF op[c].pc = "read" THEN "read" \in Ops ELSE lock = c

\* A region is being taken off the free list, or freed.
Pending(p, rg) ==
  \E c \in Cpu : /\ op[c] # NoOp /\ op[c].pid = p /\ op[c].rg = rg
                 /\ (op[c].pc = "free" \/ (op[c].pc = "frames" /\ op[c].reuse))

\* The pages of every other region are mapped ...
LiveOf(p) ==
  \A rg \in Rg : \/ Pending(p, rg)
                 \/ \A g \in Page : Within(sym[p][rg], g) => pgd[p][g] # Absent

\* ... and the ones a FREE has not come to: since it has freed a page it has a
\* frame for one that must be swapped in, and cannot fail half way.
ToFree(c) ==
  LET r == op[c]
  IN  /\ \A g \in r.start + r.i .. r.start + r.n - 1 : pgd[r.pid][g] # Absent
      /\ r.i > 0 /\ pgd[r.pid][Page0(c)].st = "swap" /\ r.peek = <<>> =>
           freeRam # <<>>

LiveInv == /\ \A p \in Pid : LiveOf(p)
           /\ \A c \in Cpu : op[c].pc = "free" => ToFree(c)

\* Where a frame of the RAM is.
OnList(s, f) == \E k \in 1 .. Len(s) : s[k] = f
Held(c, f) == op[c] # NoOp /\ OnList(op[c].frm, f)

\* FramesConserved, frame by frame; the free list a fault has read is still
\* the free list.
FrameOnce ==
  /\ NoRepeat(freeRam)
  /\ \A f \in RamFrame, p \in Pid, g \in Page :
       pgd[p][g] = InRam(f) =>
         /\ ~ OnList(freeRam, f)
         /\ \A c \in Cpu : ~ Held(c, f)
         /\ \A q \in Pid, h \in Page : pgd[q][h] = InRam(f) => p = q /\ g = h
  /\ \A f \in RamFrame, c \in Cpu : Held(c, f) => ~ OnList(freeRam, f)

FrameSomewhere ==
  \A f \in RamFrame : \/ OnList(freeRam, f)
                      \/ \E p \in Pid, g \in Page : pgd[p][g] = InRam(f)
                      \/ \E c \in Cpu : Held(c, f)

WorkFrames ==
  \A c \in Cpu : op[c] # NoOp =>
    /\ NoRepeat(op[c].frm)
    /\ op[c].frm # <<>> => op[c].pc = "frames"
    /\ op[c].peek # <<>> => op[c].peek = freeRam /\ Faulting(c)

FrameInv == FrameOnce /\ FrameSomewhere /\ WorkFrames

\* The same for the frames of the swap device; the list a fault has made to
\* give a frame back is the free list with that frame before it.
Owes(c, o) == op[c] # NoOp /\ op[c].back = o

SwapOnce ==
  /\ NoRepeat(freeSwp)
  /\ \A o \in SwpFrame, p \in Pid, g \in Page :
       pgd[p][g] = InSwp(o) =>
         /\ ~ OnList(freeSwp, o)
         /\ \A c \in Cpu : ~ Owes(c, o)
         /\ \A q \in Pid, h \in Page : pgd[q][h] = InSwp(o) => p = q /\ g = h
  /\ \A o \in SwpFrame, c \in Cpu : Owes(c, o) => ~ OnList(freeSwp, o)

SwapSomewhere ==
  \A o \in SwpFrame : \/ OnList(freeSwp, o)
                      \/ \E p \in Pid, g \in Page : pgd[p][g] = InSwp(o)
                      \/ \E c \in Cpu : Owes(c, o)

NodeOf(c) ==
  op[c] # NoOp /\ op[c].node # <<>> =>
    op[c].back # NoFrame /\ op[c].node = <<op[c].back>> \o freeSwp

SwapNode == \A c \in Cpu : NodeOf(c)

SwapInv == SwapOnce /\ SwapSomewhere /\ SwapNode

-----------------------------------------------------------------------------
(* The lock.                                                               *)

\* A CPU begins an instruction.
LEMMA StartWork ==
  ASSUME IInv, NEW c \in Cpu, Start(c)
  PROVE  /\ op[c] = NoOp
         /\ \/ op' = op /\ lock' = lock
            \/ /\ op' = op /\ lock = NoCpu /\ lock' = c
               /\ \E p \in Pid : BadRegion(c, p)
            \/ op' = op /\ "read" \in Ops /\ lock' = NoCpu
            \/ /\ op'[c] # NoOp /\ op'[c].pc = "read" /\ "read" \in Ops
               /\ lock' = lock
            \/ /\ op'[c] # NoOp /\ op'[c].pc # "read" /\ lock = NoCpu /\ lock' = c
               /\ op'[c].pc = "spin" => \E p \in Pid : AllocZero(c, p)
<1> DEFINE Hit == op' = op /\ lock' = lock
           Bad == /\ op' = op /\ lock = NoCpu /\ lock' = c
                  /\ \E p \in Pid : BadRegion(c, p)
           Out == op' = op /\ "read" \in Ops /\ lock' = NoCpu
           Rd == /\ op'[c] # NoOp /\ op'[c].pc = "read" /\ "read" \in Ops
                 /\ lock' = lock
           Lk == /\ op'[c] # NoOp /\ op'[c].pc # "read" /\ lock = NoCpu /\ lock' = c
                 /\ op'[c].pc = "spin" => \E p \in Pid : AllocZero(c, p)
<1>1. op \in [Cpu -> OpSet \cup {NoOp}] /\ op[c] = NoOp
  BY StartFacts DEF IInv, Types
<1>2. ASSUME NEW pc, NEW p, NEW rg, NEW start, NEW n, NEW size, NEW reuse,
             Begin(c, OpRec(pc, p, rg, start, n, size, reuse))
      PROVE  op'[c].pc = pc
  BY <1>1, <1>2 DEF Begin, OpRec
<1>3. op'[c].pc # "idle" => op'[c] # NoOp
  BY DEF NoOp
<1>4. ASSUME NEW p \in Pid, BadRegion(c, p) PROVE Bad
  BY <1>4 DEF BadRegion, Lock
<1>5. ASSUME NEW p \in Pid, AllocZero(c, p) PROVE Lk
  <2>1. PICK rg \in Rg : Begin(c, OpRec("spin", p, rg, 0, 1, 0, TRUE))
    BY <1>5 DEF AllocZero
  <2>2. op'[c].pc = "spin"
    BY <1>2, <2>1
  <2> QED BY <1>3, <1>5, <2>2 DEF AllocZero, Lock
<1>6. ASSUME NEW p \in Pid, NEW rg \in Rg, Free(c, p, rg) PROVE Lk
  <2>1. op'[c].pc = "free"
    BY <1>2, <1>6 DEF Free
  <2> QED BY <1>3, <1>6, <2>1 DEF Free, Lock
<1>7. ASSUME NEW p \in Pid, NEW rg \in Rg, NEW sz \in 1 .. MaxSize, Alloc(c, p, rg, sz)
      PROVE  Lk
  <2>1. op'[c].pc = "frames"
    BY <1>7, AllocRegions
  <2> QED BY <1>3, <1>7, <2>1 DEF Alloc, Lock
<1>8. ASSUME NEW p \in Pid, NEW rg \in Rg, NEW off \in 0 .. MaxSize, WriteHit(c, p, rg, off)
      PROVE  Hit
  BY <1>8 DEF WriteHit
<1>9. ASSUME NEW p \in Pid, NEW rg \in Rg, NEW off \in 0 .. MaxSize, WriteMiss(c, p, rg, off)
      PROVE  Lk
  <2>1. op'[c].pc = "write"
    BY <1>2, <1>9 DEF WriteMiss
  <2> QED BY <1>3, <1>9, <2>1 DEF WriteMiss, Lock
<1>10. ASSUME NEW p \in Pid, NEW rg \in Rg, NEW off \in 0 .. MaxSize,
              ReadOutOfRange(c, p, rg, off)
       PROVE  Out
  BY <1>10 DEF ReadOutOfRange, Unlock
<1>11. ASSUME NEW p \in Pid, NEW rg \in Rg, NEW off \in 0 .. MaxSize, ReadMiss(c, p, rg, off)
       PROVE  Rd
  <2>1. op'[c].pc = "read"
    BY <1>2, <1>11 DEF ReadMiss
  <2> QED BY <1>3, <1>11, <2>1 DEF ReadMiss
<1> HIDE DEF Hit, Bad, Out, Rd, Lk
<1>12. Hit \/ Bad \/ Out \/ Rd \/ Lk
  BY <1>4, <1>5, <1>6, <1>7, <1>8, <1>9, <1>10, <1>11 DEF Start
<1> QED BY <1>1, <1>12 DEF Hit, Bad, Out, Rd, Lk

\* What the three steps of a fault that has got its frame do to the instruction.
LEMMA SwapInWork ==
  ASSUME IInv, NEW c \in Cpu, SwapIn(c)
  PROVE  /\ op[c] # NoOp /\ op[c].pc \in {"cache", "free", "read", "write"}
         /\ SameWork(c) /\ op[c].back = NoFrame
         /\ op'[c].frm = op[c].frm /\ op'[c].peek = <<>> /\ op'[c].node = op[c].node
         /\ op'[c].back \in SwpFrame
         /\ pgd[op[c].pid][Page0(c)] = InSwp(op'[c].back)
<1>1. op[c] # NoOp /\ AtPage(c)
  BY AtPageUnderWay DEF SwapIn, Faulting
<1>2. PICK p \in Pid, g \in Page : p = op[c].pid /\ g = Page0(c)
  BY <1>1, Current DEF IInv
<1>3. pgd[p][g].st = "swap"
  BY <1>2 DEF SwapIn, Faulting
<1>4. PICK o \in SwpFrame : o = pgd[p][g].n /\ pgd[p][g] = InSwp(o)
  BY <1>3, PteFacts DEF IInv
<1>5. op' = [op EXCEPT ![c].peek = <<>>, ![c].back = o]
  BY <1>2, <1>4 DEF SwapIn
<1>6. /\ SameWork(c) /\ op'[c].frm = op[c].frm /\ op'[c].peek = <<>>
      /\ op'[c].back = o /\ op'[c].node = op[c].node
  BY <1>1, <1>5, SwapInOp
<1> QED BY <1>1, <1>2, <1>4, <1>6 DEF AtPage

LEMMA SwapPeekWork ==
  ASSUME IInv, NEW c \in Cpu, SwapPeek(c)
  PROVE  /\ op[c] # NoOp /\ op[c].pc \in {"cache", "free", "read", "write"}
         /\ SameWork(c) /\ op[c].back \in SwpFrame
         /\ op'[c].frm = op[c].frm /\ op'[c].peek = op[c].peek
         /\ op'[c].back = op[c].back /\ op'[c].node = <<op[c].back>> \o freeSwp
         /\ UNCHANGED <<lock, regvars, pgd, fifo, freeRam, freeSwp, ram, swp, tlb, written>>
<1>1. /\ op[c] # NoOp /\ op[c].back # NoFrame /\ Returning(c)
      /\ op' = [op EXCEPT ![c].node = <<op[c].back>> \o freeSwp]
      /\ UNCHANGED <<lock, regvars, pgd, fifo, freeRam, freeSwp, ram, swp, tlb, written>>
  BY DEF SwapPeek, Returning, memvars
<1>2. op[c].back \in SwpFrame
  BY <1>1, Current DEF IInv, SwpHand
<1>3. <<op[c].back>> \o freeSwp \in Seq(SwpFrame)
  BY <1>2, PutFirst DEF IInv, Types
<1>4. /\ SameWork(c) /\ op'[c].frm = op[c].frm /\ op'[c].peek = op[c].peek
      /\ op'[c].back = op[c].back /\ op'[c].node = <<op[c].back>> \o freeSwp
  BY <1>1, <1>3, SwapPeekOp
<1>5. BackOf(c)
  BY <1>1 DEF IInv, BackInv
<1> QED BY <1>1, <1>2, <1>4, <1>5 DEF BackOf

LEMMA SwapBackWork ==
  ASSUME IInv, NEW c \in Cpu, SwapBack(c)
  PROVE  /\ op[c] # NoOp /\ op[c].pc \in {"cache", "free", "read", "write"}
         /\ SameWork(c) /\ op[c].back \in SwpFrame
         /\ op'[c].frm = op[c].frm /\ op'[c].peek = op[c].peek
         /\ op'[c].back = NoFrame /\ op'[c].node = <<>>
         /\ op[c].node # <<>> /\ freeSwp' = op[c].node
         /\ UNCHANGED <<lock, regvars, pgd, freeRam, ram, swp, tlb, written>>
<1>1. /\ op[c] # NoOp /\ op[c].back # NoFrame /\ Returning(c) /\ op[c].node # <<>>
      /\ op' = [op EXCEPT ![c].back = NoFrame, ![c].node = <<>>]
      /\ freeSwp' = op[c].node
      /\ UNCHANGED <<lock, regvars, pgd, freeRam, ram, swp, tlb, written>>
  BY DEF SwapBack, PutSwap, Returning
<1>2. op[c].back \in SwpFrame
  BY <1>1, Current DEF IInv, SwpHand
<1>3. /\ SameWork(c) /\ op'[c].frm = op[c].frm /\ op'[c].peek = op[c].peek
      /\ op'[c].back = NoFrame /\ op'[c].node = <<>>
  BY <1>1, SwapBackOp
<1>4. BackOf(c)
  BY <1>1 DEF IInv, BackInv
<1> QED BY <1>1, <1>2, <1>3, <1>4 DEF BackOf

\* A CPU goes on with its instruction, or ends it.
LEMMA StepWork ==
  ASSUME IInv, NEW c \in Cpu, Step(c)
  PROVE  /\ op[c] # NoOp /\ op[c].pc # "spin"
         /\ \/ /\ op'[c] = NoOp
               /\ lock' = NoCpu \/ (lock' = lock /\ op[c].pc = "read")
            \/ /\ op'[c] # NoOp /\ lock' = lock
               /\ op'[c].pc = op[c].pc \/ (op[c].pc = "frames" /\ op'[c].pc = "cache")
<1> DEFINE Ends == /\ op'[c] = NoOp
                   /\ lock' = NoCpu \/ (lock' = lock /\ op[c].pc = "read")
           Goes == /\ op'[c] # NoOp /\ lock' = lock
                   /\ op'[c].pc = op[c].pc \/ (op[c].pc = "frames" /\ op'[c].pc = "cache")
           At == op[c] # NoOp /\ op[c].pc # "spin"
<1>1. op[c].pc \in Pc \ {"spin"} => At
  BY UnderWay
<1>2. End(c) => op'[c] = NoOp
  BY EndStep
<1>3. At /\ SameWork(c) /\ lock' = lock => Goes
  <2>1. op[c] # NoOp => op[c].pc # "idle"
    BY OpFacts DEF IInv
  <2> QED BY <2>1 DEF SameWork, NoOp
<1>4. CASE TakeFrame(c)
  <2>1. At /\ lock' = lock
    BY <1>1, <1>4 DEF TakeFrame, Pc
  <2>2. Head(freeRam) \in RamFrame
    BY <1>4, TakeFirst DEF TakeFrame, IInv, Types
  <2>3. SameWork(c)
    BY <1>4, <2>1, <2>2, TakeFrameOp DEF TakeFrame
  <2> QED BY <1>3, <2>1, <2>3
<1>5. CASE SwapOut(c)
  <2>1. At /\ lock' = lock
    BY <1>1, <1>5 DEF SwapOut, Pc
  <2>2. PICK p \in Pid : p = op[c].pid
    BY <2>1, Current DEF IInv
  <2>3. fifo[p] # <<>> /\ op' = [op EXCEPT ![c].frm = <<pgd[p][Victim(p)].n>> \o @]
    BY <1>5, <2>2 DEF SwapOut
  <2>4. pgd[p][Victim(p)].n \in RamFrame
    BY <2>3, VictimPage
  <2>5. SameWork(c)
    BY <2>1, <2>3, <2>4, TakeFrameOp
  <2> QED BY <1>3, <2>1, <2>5
<1>6. CASE NoVictim(c) \/ NoSwap(c)
  BY <1>1, <1>2, <1>6 DEF NoVictim, NoSwap, AllocFails, Unlock, Pc
<1>7. CASE MapPages(c)
  <2>1. At /\ lock' = lock /\ op[c].pc = "frames"
    BY <1>1, <1>7 DEF MapPages, Pc
  <2>2. op'[c].pc = "cache"
    BY <1>7, <2>1, MappedOp DEF MapPages
  <2> QED BY <2>1, <2>2 DEF NoOp
<1>8. CASE CachePage(c)
  <2>1. At /\ op[c].pc = "cache"
    BY <1>1, <1>8 DEF CachePage, Pc
  <2>2. CASE IsLast(c)
    BY <1>2, <1>8, <2>1, <2>2 DEF CachePage, Unlock
  <2>3. CASE ~ IsLast(c)
    BY <1>8, <2>1, <2>3, NextPageOp DEF CachePage, NoOp
  <2> QED BY <2>2, <2>3
<1>9. CASE FaultPeek(c)
  <2>1. At /\ lock' = lock
    BY <1>1, <1>9 DEF FaultPeek, Faulting, AtPage, Pc
  <2>2. SameWork(c)
    BY <1>9, <2>1, PeekOp DEF FaultPeek, IInv, Types
  <2> QED BY <1>3, <2>1, <2>2
<1>10. CASE SwapIn(c) \/ SwapPeek(c) \/ SwapBack(c)
  <2>1. op[c].pc \in {"cache", "free", "read", "write"} /\ SameWork(c)
    BY <1>10, SwapInWork, SwapPeekWork, SwapBackWork
  <2>2. lock' = lock
    BY <1>10 DEF SwapIn, SwapPeek, SwapBack
  <2>3. At
    BY <1>1, <2>1 DEF Pc
  <2> QED BY <1>3, <2>1, <2>2, <2>3
<1>11. CASE FaultFails(c) \/ PageAbsent(c)
  BY <1>1, <1>2, <1>11 DEF FaultFails, PageAbsent, Faulting, AtPage, Unlock, Pc
<1>12. CASE FreePage(c)
  <2>1. At /\ op[c].pc = "free"
    BY <1>1, <1>12 DEF FreePage, Pc
  <2>2. CASE IsLast(c)
    BY <1>2, <1>12, <2>1, <2>2 DEF FreePage, Unlock
  <2>3. CASE ~ IsLast(c)
    BY <1>12, <2>1, <2>3, NextPageOp DEF FreePage, NoOp
  <2> QED BY <2>2, <2>3
<1>13. CASE WritePage(c)
  BY <1>1, <1>2, <1>13 DEF WritePage, Unlock, Pc
<1>14. CASE ReadPage(c)
  BY <1>1, <1>2, <1>14 DEF ReadPage, Pc
<1> QED BY <1>4, <1>5, <1>6, <1>7, <1>8, <1>9, <1>10, <1>11, <1>12, <1>13, <1>14 DEF Step

\* At most one instruction is under way.
LEMMA Solo ==
  ASSUME Sequential, LockInv, NEW c \in Cpu, NEW d \in Cpu,
         op[c] # NoOp, op[d] # NoOp
  PROVE  c = d
BY DEF Sequential, LockInv

LEMMA LockNext == Sequential /\ IInv /\ LockInv /\ [Next]_vars => LockInv'
<1>1. ASSUME Sequential, IInv, LockInv, Next PROVE LockInv'
  <2> USE <1>1
  <2>1. PICK c \in Cpu : Start(c) \/ Step(c)
    BY DEF Next
  <2>2. OpTypes(c)
    BY <2>1, RegionsNext
  <2> SUFFICES ASSUME NEW d \in Cpu, op'[d] # NoOp
               PROVE  IF op'[d].pc = "read" THEN "read" \in Ops ELSE lock' = d
    BY DEF LockInv
  <2>3. NoCpu \notin Cpu
    BY CpuAssumption DEF NoCpu
  <2>4. CASE Start(c)
    <3>1. CASE d = c
      BY <2>4, <3>1, StartWork DEF LockInv
    <3>2. CASE d # c
      <4>1. op'[d] = op[d] /\ "read" \notin Ops
        BY <2>2, <3>2 DEF OpTypes, Sequential
      <4>2. op[d].pc # "read" /\ lock = d
        BY <4>1 DEF LockInv
      <4> QED BY <2>3, <2>4, <4>1, <4>2, StartWork
    <3> QED BY <3>1, <3>2
  <2>5. CASE Step(c)
    <3>1. op[c] # NoOp
      BY <2>5, StepWork
    <3>2. d = c
      BY <2>2, <3>1, Solo DEF OpTypes
    <3>3. IF op[c].pc = "read" THEN "read" \in Ops ELSE lock = c
      BY <3>1 DEF LockInv
    <3> QED BY <2>5, <3>2, <3>3, StepWork
  <2> QED BY <2>1, <2>4, <2>5
<1>2. LockInv /\ UNCHANGED vars => LockInv'
  BY DEF LockInv, vars
<1> QED BY <1>1, <1>2

LEMMA LockInvariance == Sequential => (Spec => []LockInv)
<1> SUFFICES ASSUME Sequential PROVE Spec => []LockInv
  OBVIOUS
<1>1. Init => LockInv
  BY DEF Init, LockInv
<1>2. IInv /\ LockInv /\ [Next]_vars => LockInv'
  BY LockNext
<1> QED BY Invariance, <1>1, <1>2, PTL DEF Spec

\* A CPU inside ALLOC, FREE or WRITE holds tlb_lock, so two of them never
\* overlap, when READ is not used or there is one CPU.
THEOREM MutualExclusion == Sequential => (Spec => []Exclusive)
<1> SUFFICES ASSUME Sequential PROVE Spec => []Exclusive
  OBVIOUS
<1>1. LockInv => Exclusive
  BY DEF LockInv, Exclusive, Inside
<1>2. Spec => []LockInv
  BY LockInvariance
<1> QED BY <1>1, <1>2, PTL

\* Every way out of ALLOC, FREE and WRITE gives tlb_lock back, but for a region
\* id that get_symrg_byid rejects and an ALLOC of size 0, when READ, which
\* unlocks what it has not locked, is not used.
THEOREM LockReturned == "read" \notin Ops => (Spec => LockGivenBack)
<1> DEFINE Given == ~ Abandoned /\ Abandoned' =>
                      \E c \in Cpu, p \in Pid : BadRegion(c, p) \/ AllocZero(c, p)
<1> SUFFICES ASSUME "read" \notin Ops PROVE Spec => LockGivenBack
  OBVIOUS
<1>1. ASSUME IInv, LockInv, Next PROVE Given
  <2> SUFFICES ASSUME ~ Abandoned, Abandoned'
               PROVE  \E c \in Cpu, p \in Pid : BadRegion(c, p) \/ AllocZero(c, p)
    OBVIOUS
  <2> USE <1>1
  <2>1. PICK c \in Cpu : Start(c) \/ Step(c)
    BY DEF Next
  <2>2. OpTypes(c)
    BY <2>1, RegionsNext
  <2>3. PICK d \in Cpu : lock' = d /\ (op'[d] = NoOp \/ op'[d].pc = "spin")
    BY DEF Abandoned
  <2>4. NoCpu \notin Cpu
    BY CpuAssumption DEF NoCpu
  <2>5. ~ (lock = d /\ op'[d] = op[d])
    BY <2>3 DEF Abandoned
  <2>6. CASE Start(c)
    BY <2>2, <2>3, <2>4, <2>5, <2>6, StartWork DEF OpTypes
  <2>7. CASE Step(c)
    <3>1. lock' = lock /\ op'[c] # NoOp /\ op'[c].pc # "spin"
      <4>1. op[c].pc # "read"
        BY <2>7, StepWork DEF LockInv
      <4> QED BY <2>3, <2>4, <2>7, <4>1, StepWork
    <3> QED BY <2>2, <2>3, <2>5, <3>1 DEF OpTypes
  <2> QED BY <2>1, <2>6, <2>7
<1> HIDE DEF Given
<1>2. IInv /\ LockInv /\ [Next]_vars => [Given]_vars
  BY <1>1
<1>3. Spec => []LockInv
  BY LockInvariance DEF Sequential
<1>4. Spec => [][Given]_vars
  BY Invariance, <1>2, <1>3, PTL DEF Spec
<1> QED BY <1>4 DEF Given, LockGivenBack

-----------------------------------------------------------------------------
(* The pages of the regions in use.                                        *)

\* The region an instruction works on is the only one to look at.
LEMMA LiveStep ==
  ASSUME IInv, Sequential, LockInv, LiveInv, NEW c \in Cpu, OpTypes(c), op[c] # NoOp,
         NEW p \in Pid, NEW rg \in Rg, p = op[c].pid, rg = op[c].rg,
         \A q \in Pid, r \in Rg : (q = p /\ r = rg) \/ sym'[q][r] = sym[q][r],
         \A q \in Pid, r \in Rg, g \in Page :
           \/ q = p /\ r = rg
           \/ Within(sym[q][r], g) /\ pgd[q][g] # Absent => pgd'[q][g] # Absent,
         \/ Pending(p, rg)'
         \/ \A g \in Page : Within(sym'[p][rg], g) => pgd'[p][g] # Absent,
         op'[c].pc = "free" => ToFree(c)'
  PROVE  LiveInv'
<1>1. \A d \in Cpu \ {c} : op[d] = NoOp /\ op'[d] = NoOp
  BY Solo DEF OpTypes
<1>2. \A d \in Cpu : op'[d].pc = "free" => ToFree(d)'
  <2> SUFFICES ASSUME NEW d \in Cpu, op'[d].pc = "free" PROVE d = c
    OBVIOUS
  <2> QED BY <1>1 DEF NoOp
<1>3. ASSUME NEW q \in Pid, NEW r \in Rg, ~ (q = p /\ r = rg)
      PROVE  \A g \in Page : Within(sym'[q][r], g) => pgd'[q][g] # Absent
  <2>1. ~ Pending(q, r)
    BY <1>1, <1>3 DEF Pending
  <2>2. \A g \in Page : Within(sym[q][r], g) => pgd[q][g] # Absent
    BY <2>1 DEF LiveInv, LiveOf
  <2>3. sym'[q][r] = sym[q][r]
    BY <1>3
  <2> QED BY <1>3, <2>2, <2>3
<1>4. ASSUME NEW q \in Pid PROVE LiveOf(q)'
  <2> SUFFICES ASSUME NEW r \in Rg
               PROVE  \/ Pending(q, r)'
                      \/ \A g \in Page : Within(sym'[q][r], g) => pgd'[q][g] # Absent
    BY DEF LiveOf, Within
  <2>1. CASE q = p /\ r = rg
    BY <2>1
  <2>2. CASE ~ (q = p /\ r = rg)
    BY <1>3, <2>2
  <2> QED BY <2>1, <2>2
<1> QED BY <1>2, <1>4 DEF LiveInv

\* The steps that leave the regions alone, but for the end of a FREE.
LEMMA LiveQuiet ==
  ASSUME IInv, Sequential, LockInv, LiveInv, NEW c \in Cpu, OpTypes(c), op[c] # NoOp,
         Quiet(c), op[c].pc \in {"frames", "free"} => SameWork(c),
         op'[c].pc = "free" => ToFree(c)'
  PROVE  LiveInv'
<1>1. PICK p \in Pid, rg \in Rg : p = op[c].pid /\ rg = op[c].rg
  BY Current DEF IInv
<1>2. sym' = sym /\ \A q \in Pid, g \in Page : pgd'[q][g] = Absent <=> pgd[q][g] = Absent
  BY DEF Quiet, regvars
<1>3. Pending(p, rg) => Pending(p, rg)'
  <2> SUFFICES ASSUME Pending(p, rg) PROVE Pending(p, rg)'
    OBVIOUS
  <2>1. PICK d \in Cpu : /\ op[d] # NoOp /\ op[d].pid = p /\ op[d].rg = rg
                         /\ (op[d].pc = "free" \/ (op[d].pc = "frames" /\ op[d].reuse))
    BY DEF Pending
  <2>2. d = c
    BY <2>1, Solo
  <2>3. SameWork(c)
    BY <2>1, <2>2
  <2>4. op'[c] # NoOp
    BY <2>1, <2>2, <2>3 DEF SameWork, NoOp
  <2> QED BY <2>1, <2>2, <2>3, <2>4 DEF Pending, SameWork
<1>4. \/ Pending(p, rg)'
      \/ \A g \in Page : Within(sym'[p][rg], g) => pgd'[p][g] # Absent
  BY <1>2, <1>3 DEF LiveInv, LiveOf
<1> QED BY <1>1, <1>2, <1>4, LiveStep

\* An instruction begins.
LEMMA LiveStart ==
  ASSUME IInv, Sequential, LockInv, LiveInv, NEW c \in Cpu, Start(c)
  PROVE  LiveInv'
<1>1. op[c] = NoOp /\ op[c].pc = "idle" /\ OpTypes(c)
  BY StartFacts, RegionsNext DEF NoOp
<1>2. pgd' = pgd /\ freeRam' = freeRam
  <2>1. ASSUME NEW p \in Pid, NEW rg \in Rg, NEW sz \in 1 .. MaxSize, Alloc(c, p, rg, sz)
        PROVE  pgd' = pgd /\ freeRam' = freeRam
    BY <2>1 DEF Alloc, memvars
  <2>2. ASSUME NEW p \in Pid, NEW rg \in Rg, Free(c, p, rg)
        PROVE  pgd' = pgd /\ freeRam' = freeRam
    BY <2>2 DEF Free, memvars
  <2>3. Regional(c) => pgd' = pgd /\ freeRam' = freeRam
    BY <1>1, <2>1, <2>2 DEF Regional, NoVictim, NoSwap, MapPages, FreePage
  <2> QED BY <2>3, QuietStart
<1>3. ASSUME NEW d \in Cpu \ {c}, op'[d].pc = "free" PROVE ToFree(d)'
  <2>1. op'[d] = op[d] /\ ToFree(d)
    BY <1>1, <1>3 DEF OpTypes, LiveInv
  <2> QED BY <1>2, <2>1 DEF ToFree, Page0
<1>4. \A p \in Pid, rg \in Rg : Pending(p, rg) => Pending(p, rg)'
  BY <1>1 DEF Pending, OpTypes
<1>5. ASSUME NEW p \in Pid, NEW rg \in Rg, Free(c, p, rg) PROVE LiveInv'
  <2> DEFINE r == sym[p][rg]
  <2>1. /\ op'[c].pc = "free" /\ op'[c].pid = p /\ Good(r)
        /\ op'[c].start = r.s \div PAGESZ /\ op'[c].n = NumPages(r)
    BY <1>5, FreeRegions
  <2>2. sym' = sym /\ \A d \in Cpu : op[d].pid # p
    BY <1>5 DEF Free, regvars, Runs
  <2>3. op'[c].i = 0
    BY <1>1, <1>5 DEF Free, Begin, OpRec, IInv, Types
  <2>4. \A g \in Page : Within(r, g) => pgd[p][g] # Absent
    <3>1. ~ Pending(p, rg)
      BY <2>2 DEF Pending
    <3> QED BY <3>1 DEF LiveInv, LiveOf
  <2>5. /\ op'[c].start \in Nat /\ op'[c].n \in Nat
        /\ \A g \in op'[c].start .. op'[c].start + op'[c].n - 1 : g \in Page /\ Within(r, g)
    <3>1. /\ r.s \div PAGESZ \in Page /\ NumPages(r) \in Nat
          /\ r.s \div PAGESZ + NumPages(r) - 1 <= NPage
      BY <2>1, RegionInSpace
    <3>2. /\ PagesOf(r) = (r.s \div PAGESZ) .. (r.s \div PAGESZ + NumPages(r) - 1)
          /\ \A g \in Nat : g \in PagesOf(r) <=> r.s <= g * PAGESZ /\ g * PAGESZ < r.e
      BY <2>1, RegionPages
    <3>3. r.s \div PAGESZ \in Nat
      BY <3>1 DEF Page
    <3> DEFINE a == r.s \div PAGESZ
               n == NumPages(r)
    <3> HIDE DEF a, n, r
    <3>4. \A g \in a .. a + n - 1 : g \in Page /\ g \in Nat
      BY <3>1, <3>3, Sizes DEF Page, a, n
    <3> QED BY <2>1, <3>1, <3>2, <3>3, <3>4 DEF Within, a, n
  <2>6. ToFree(c)'
    <3>1. op'[c].start + op'[c].i = op'[c].start
      BY <2>3, <2>5
    <3>2. \A g \in op'[c].start + op'[c].i .. op'[c].start + op'[c].n - 1 :
            pgd'[op'[c].pid][g] # Absent
      BY <1>2, <2>1, <2>4, <2>5, <3>1
    <3> QED BY <2>3, <3>2 DEF ToFree
  <2>7. \A q \in Pid : LiveOf(q)'
    BY <1>2, <1>4, <2>2 DEF LiveInv, LiveOf
  <2> QED BY <1>3, <2>6, <2>7 DEF LiveInv
<1>6. ASSUME NEW p \in Pid, NEW rg \in Rg, NEW sz \in 1 .. MaxSize, Alloc(c, p, rg, sz)
      PROVE  LiveInv'
  <2>1. op'[c].pc = "frames" /\ op'[c].pid = p /\ sym \in [Pid -> [Rg -> Region]]
    BY <1>6, AllocRegions DEF IInv, Types
  <2>2. \A q \in Pid : LiveOf(q)'
    <3>1. CASE AllocBrk(c, p, rg, sz)
      <4>1. sym' = sym
        BY <3>1 DEF AllocBrk
      <4> QED BY <1>2, <1>4, <4>1 DEF LiveInv, LiveOf
    <3>2. CASE AllocReuse(c, p, rg, sz)
      <4>1. /\ \A q \in Pid, r \in Rg : (q = p /\ r = rg) \/ sym'[q][r] = sym[q][r]
            /\ op'[c].rg = rg /\ op'[c].reuse
        BY <1>1, <2>1, <3>2 DEF AllocReuse, Begin, OpRec, IInv, Types
      <4>2. op'[c] # NoOp
        BY <2>1 DEF NoOp
      <4>3. Pending(p, rg)'
        BY <2>1, <4>1, <4>2 DEF Pending
      <4>4. ASSUME NEW q \in Pid, NEW r \in Rg
            PROVE  \/ Pending(q, r)'
                   \/ \A g \in Page : Within(sym'[q][r], g) => pgd'[q][g] # Absent
        <5>1. CASE q = p /\ r = rg
          BY <4>3, <5>1
        <5>2. CASE ~ (q = p /\ r = rg)
          BY <1>2, <1>4, <4>1, <5>2 DEF LiveInv, LiveOf
        <5> QED BY <5>1, <5>2
      <4> QED BY <4>4 DEF LiveOf, Within
    <3> QED BY <1>6, <3>1, <3>2 DEF Alloc
  <2>3. op'[c].pc # "free"
    BY <2>1
  <2> QED BY <1>3, <2>2, <2>3 DEF LiveInv
<1>7. CASE Quiet(c)
  <2>1. op'[c].pc \notin {"frames", "free"} /\ sym' = sym
    BY <1>1, <1>7 DEF Quiet, SameWork, regvars
  <2>2. \A q \in Pid : LiveOf(q)'
    BY <1>2, <1>4, <2>1 DEF LiveInv, LiveOf
  <2> QED BY <1>3, <2>1, <2>2 DEF LiveInv
<1>8. CASE Regional(c)
  BY <1>1, <1>5, <1>6, <1>8 DEF Regional, NoVictim, NoSwap, MapPages, FreePage
<1> QED BY <1>7, <1>8, QuietStart

\* The pages a FREE is about.
LEMMA FreeWork ==
  ASSUME IInv, NEW c \in Cpu, op[c].pc = "free"
  PROVE  LET p == op[c].pid
             r == sym[p][op[c].rg]
         IN  /\ op[c] # NoOp /\ p \in Pid /\ op[c].rg \in Rg /\ Good(r)
             /\ op[c].start \in Nat /\ op[c].n \in Nat /\ op[c].i \in Nat /\ op[c].i < op[c].n
             /\ \A g \in op[c].start .. op[c].start + op[c].n - 1 : g \in Page
             /\ \A g \in Page : g \in op[c].start .. op[c].start + op[c].n - 1 <=> Within(r, g)
<1> DEFINE p == op[c].pid
           r == sym[p][op[c].rg]
           a == r.s \div PAGESZ
           n == NumPages(r)
<1>1. op[c] # NoOp /\ Releases(c)
  BY UnderWay DEF IInv, RegInv, WorkInv, Pc
<1>2. /\ p \in Pid /\ op[c].rg \in Rg /\ op[c].n \in Nat /\ op[c].i \in Nat
      /\ op[c].i < op[c].n
  BY <1>1, Current DEF IInv, OpInv
<1>3. Good(r) /\ op[c].start = a /\ op[c].n = n
  BY <1>1 DEF Releases
<1> HIDE DEF r
<1>4. a \in Page /\ n \in Nat /\ a + n - 1 <= NPage
  BY <1>3, RegionInSpace
<1>5. a \in Nat /\ \A g \in Page : g \in Nat
  BY <1>4 DEF Page
<1>6. /\ PagesOf(r) = a .. a + n - 1
      /\ \A g \in Nat : g \in PagesOf(r) <=> r.s <= g * PAGESZ /\ g * PAGESZ < r.e
  BY <1>3, RegionPages
<1> HIDE DEF a, n
<1>7. \A g \in a .. a + n - 1 : g \in Page
  BY <1>4, <1>5, Sizes DEF Page
<1>8. \A g \in Page : g \in a .. a + n - 1 <=> Within(r, g)
  BY <1>5, <1>6 DEF Within
<1> QED BY <1>1, <1>2, <1>3, <1>5, <1>7, <1>8 DEF r

\* alloc_pages_range fails.
LEMMA LiveFails ==
  ASSUME IInv, Sequential, LockInv, LiveInv, NEW c \in Cpu, OpTypes(c),
         op[c].pc = "frames", AllocFails(c), pgd' = pgd
  PROVE  LiveInv'
<1>1. op[c] # NoOp
  BY UnderWay DEF Pc
<1>2. PICK p \in Pid, rg \in Rg : p = op[c].pid /\ rg = op[c].rg
  BY <1>1, Current DEF IInv
<1>3. sym \in [Pid -> [Rg -> Region]] /\ op'[c].pc = "idle"
  BY EndStep DEF IInv, Types, AllocFails
<1>4. \A q \in Pid, r \in Rg : (q = p /\ r = rg) \/ sym'[q][r] = sym[q][r]
  BY <1>2, <1>3 DEF AllocFails, ClearSym
<1>5. \A g \in Page : Within(sym'[p][rg], g) => pgd'[p][g] # Absent
  <2>1. CASE op[c].reuse
    <3>1. sym'[p][rg] = NoRegion
      BY <1>2, <1>3, <2>1 DEF AllocFails, ClearSym
    <3>2. \A g \in Page : ~ Within(NoRegion, g)
      BY Sizes, NoRegionPages DEF Within, Page
    <3> QED BY <3>1, <3>2
  <2>2. CASE ~ op[c].reuse
    <3>1. ~ Pending(p, rg)
      <4> SUFFICES ASSUME NEW d \in Cpu, op[d] # NoOp, op[d].pc = "free" \/ op[d].reuse
                   PROVE  FALSE
        BY DEF Pending
      <4> QED BY <1>1, <2>2, Solo
    <3>2. sym' = sym
      BY <2>2 DEF AllocFails
    <3> QED BY <3>1, <3>2 DEF LiveInv, LiveOf
  <2> QED BY <2>1, <2>2
<1> QED BY <1>1, <1>2, <1>3, <1>4, <1>5, LiveStep

\* The region is mapped.
LEMMA LiveMaps ==
  ASSUME IInv, Sequential, LockInv, LiveInv, NEW c \in Cpu, OpTypes(c), MapPages(c)
  PROVE  LiveInv'
<1>1. op[c].pc = "frames" /\ op[c] # NoOp
  BY UnderWay DEF MapPages, Pc
<1>2. PICK p \in Pid, rg \in Rg, first \in Nat, n \in Nat, size \in Nat :
        /\ p = op[c].pid /\ rg = op[c].rg /\ first = op[c].start /\ n = op[c].n
        /\ size = op[c].size
  BY <1>1, Current DEF IInv
<1>3. sym \in [Pid -> [Rg -> Region]] /\ op'[c].pc = "cache"
  BY <1>1, MappedOp DEF IInv, Types, MapPages
<1>4. sym' = IF op[c].reuse THEN sym
             ELSE [sym EXCEPT ![p][rg] = [s |-> first * PAGESZ, e |-> first * PAGESZ + size]]
  BY <1>2 DEF MapPages
<1>5. \A q \in Pid, r \in Rg : (q = p /\ r = rg) \/ sym'[q][r] = sym[q][r]
  BY <1>3, <1>4
<1>6. /\ Collects(c)
      /\ \A g \in first .. first + n - 1 : pgd'[p][g] # Absent
      /\ \A g \in Page : g \notin first .. first + n - 1 => pgd'[p][g] = pgd[p][g]
      /\ \A q \in Pid \ {p} : pgd'[q] = pgd[q]
  <2>1. \A x : InRam(x) # Absent
    BY DEF InRam, Absent
  <2>2. p = op[c].pid
    BY <1>2
  <2>3. /\ Collects(c)
        /\ \A g \in op[c].start .. op[c].start + op[c].n - 1 :
              pgd'[p][g] = InRam(op[c].frm[g - op[c].start + 1])
        /\ \A g \in Page : g \notin op[c].start .. op[c].start + op[c].n - 1 =>
              pgd'[p][g] = pgd[p][g]
        /\ \A q \in Pid \ {p} : pgd'[q] = pgd[q]
    BY <2>2, MapEffect
  <2>4. first = op[c].start /\ n = op[c].n
    BY <1>2
  <2> QED BY <2>1, <2>3, <2>4
<1>7. \A q \in Pid, g \in Page : pgd[q][g] # Absent => pgd'[q][g] # Absent
  BY <1>6
<1>8. \A g \in Page : Within(sym'[p][rg], g) => g \in first .. first + n - 1
  <2> SUFFICES ASSUME NEW g \in Page, Within(sym'[p][rg], g)
               PROVE  g \in first .. first + n - 1
    OBVIOUS
  <2>1. g \in Nat
    BY DEF Page
  <2>2. /\ first * PAGESZ \in Nat /\ n * PAGESZ \in Nat /\ g * PAGESZ \in Nat
        /\ (first + n) * PAGESZ = first * PAGESZ + n * PAGESZ
    BY <2>1, PageSpan
  <2>3. first * PAGESZ <= g * PAGESZ /\ g * PAGESZ < (first + n) * PAGESZ
    <3>1. CASE op[c].reuse
      <4>1. sym'[p][rg] = [s |-> first * PAGESZ, e |-> (first + n) * PAGESZ]
        BY <1>2, <1>4, <1>6, <3>1 DEF Collects
      <4> QED BY <4>1 DEF Within
    <3>2. CASE ~ op[c].reuse
      <4>1. sym'[p][rg] = [s |-> first * PAGESZ, e |-> first * PAGESZ + size]
        BY <1>3, <1>4, <3>2
      <4>2. size <= n * PAGESZ
        BY <1>2, <1>6, <3>2 DEF Collects
      <4> QED BY <2>2, <4>1, <4>2 DEF Within
    <3> QED BY <3>1, <3>2
  <2> QED BY <2>1, <2>3, PagesBetween
<1>9. \A g \in Page : Within(sym'[p][rg], g) => pgd'[p][g] # Absent
  BY <1>6, <1>8
<1> QED BY <1>1, <1>2, <1>3, <1>5, <1>7, <1>9, LiveStep

\* A page is freed: it is in no other region.
LEMMA LiveFrees ==
  ASSUME IInv, Sequential, LockInv, LiveInv, NEW c \in Cpu, OpTypes(c), FreePage(c)
  PROVE  LiveInv'
<1>1. op[c].pc = "free"
  BY DEF FreePage
<1>2. PICK p \in Pid, rg \in Rg, first \in Nat, n \in Nat, i \in Nat :
        /\ p = op[c].pid /\ rg = op[c].rg /\ first = op[c].start /\ n = op[c].n
        /\ i = op[c].i /\ i < n /\ op[c] # NoOp /\ Good(sym[p][rg])
        /\ \A g \in first .. first + n - 1 : g \in Page
        /\ \A g \in Page : g \in first .. first + n - 1 <=> Within(sym[p][rg], g)
  BY <1>1, FreeWork
<1>3. PICK g \in Page : g = first + i /\ g = Page0(c) /\ Within(sym[p][rg], g)
  <2>1. first + i \in first .. first + n - 1
    BY <1>2
  <2> QED BY <1>2, <2>1 DEF Page0
<1>4. /\ pgd' = [pgd EXCEPT ![p][g] = Absent] /\ freeRam' = <<pgd[p][g].n>> \o freeRam
      /\ pgd[p][g].st = "ram"
  BY <1>2, <1>3 DEF FreePage, PutFrame
<1>5. \A q \in Pid, h \in Page : (q = p /\ h = g) \/ pgd'[q][h] = pgd[q][h]
  BY <1>4 DEF IInv, Types
<1>6. sym \in [Pid -> [Rg -> Region]] /\ freeRam \in Seq(RamFrame)
  BY DEF IInv, Types
<1>7. \A q \in Pid, r \in Rg : (q = p /\ r = rg) \/ sym'[q][r] = sym[q][r]
  BY <1>2, <1>6, SMTT(30) DEF FreePage, ClearSym
<1>8. ASSUME NEW q \in Pid, NEW r \in Rg, NEW h \in Page, ~ (q = p /\ r = rg),
             Within(sym[q][r], h), pgd[q][h] # Absent
      PROVE  pgd'[q][h] # Absent
  <2>1. CASE q = p /\ h = g
    <3>1. ~ Overlap(sym[p][r], sym[p][rg])
      BY <1>8, <2>1 DEF IInv, RegInv, DisjointInv, DisjointOf
    <3>2. sym[p][r] \in Region /\ sym[p][rg] \in Region
      BY <1>6
    <3>3. /\ sym[p][r].s \in Nat /\ sym[p][r].e \in Nat
          /\ sym[p][rg].s \in Nat /\ sym[p][rg].e \in Nat /\ g * PAGESZ \in Nat
      BY <3>2, RegionNumbers, Sizes DEF Page
    <3> QED BY <1>3, <1>8, <2>1, <3>1, <3>3 DEF Within, Overlap
  <2>2. CASE ~ (q = p /\ h = g)
    BY <1>5, <1>8, <2>2
  <2> QED BY <2>1, <2>2
<1>9. CASE IsLast(c)
  <2>1. sym' = [sym EXCEPT ![p][rg] = NoRegion] /\ End(c)
    BY <1>2, <1>9 DEF FreePage, ClearSym
  <2>2. op'[c].pc = "idle" /\ sym'[p][rg] = NoRegion
    BY <1>6, <2>1, EndStep
  <2>3. \A h \in Page : ~ Within(NoRegion, h)
    BY Sizes, NoRegionPages DEF Within, Page
  <2> QED BY <1>2, <1>7, <1>8, <2>2, <2>3, LiveStep
<1>10. CASE ~ IsLast(c)
  <2>1. /\ op'[c].pc = "free" /\ op'[c].pid = p /\ op'[c].rg = rg /\ op'[c].start = first
        /\ op'[c].n = n /\ op'[c].i = i + 1
    BY <1>1, <1>2, <1>10, NextPageOp DEF FreePage
  <2>2. op'[c] # NoOp
    BY <2>1 DEF NoOp
  <2>3. Pending(p, rg)'
    BY <2>1, <2>2 DEF Pending
  <2>4. \A h \in first + (i + 1) .. first + n - 1 : pgd'[p][h] # Absent
    <3> TAKE h \in first + (i + 1) .. first + n - 1
    <3>1. h \in first .. first + n - 1 /\ h \in first + i .. first + n - 1 /\ h # g
      BY <1>2, <1>3
    <3>2. h \in Page
      BY <1>2, <3>1
    <3>3. pgd[p][h] # Absent
      BY <1>1, <1>2, <3>1 DEF LiveInv, ToFree
    <3> QED BY <1>5, <3>1, <3>2, <3>3
  <2>5. freeRam' # <<>>
    <3>1. pgd[p][g].n \in RamFrame
      BY <1>4, PteFacts DEF IInv
    <3> QED BY <1>4, <1>6, <3>1, PutFirst
  <2>6. ToFree(c)'
    BY <2>1, <2>4, <2>5 DEF ToFree
  <2> QED BY <1>2, <1>7, <1>8, <2>3, <2>6, LiveStep
<1> QED BY <1>9, <1>10

\* A fault fails, or the page is not there: a FREE has not begun its work.
LEMMA LiveAborts ==
  ASSUME IInv, Sequential, LockInv, LiveInv, NEW c \in Cpu, OpTypes(c),
         FaultFails(c) \/ PageAbsent(c)
  PROVE  LiveInv'
<1>1. op[c] # NoOp /\ op[c].pc \in {"cache", "free", "read", "write"} /\ op'[c].pc = "idle"
  BY AtPageUnderWay, EndStep DEF FaultFails, PageAbsent, Faulting, AtPage
<1>2. sym' = sym /\ pgd' = pgd
  BY DEF FaultFails, PageAbsent, regvars
<1>3. PICK p \in Pid, rg \in Rg : p = op[c].pid /\ rg = op[c].rg
  BY <1>1, Current DEF IInv
<1>4. \A g \in Page : Within(sym'[p][rg], g) => pgd'[p][g] # Absent
  <2>1. CASE op[c].pc = "free"
    <3>1. PICK first \in Nat, n \in Nat, i \in Nat :
            /\ first = op[c].start /\ n = op[c].n /\ i = op[c].i /\ i < n
            /\ \A g \in Page : g \in first .. first + n - 1 <=> Within(sym[p][rg], g)
      BY <1>3, <2>1, FreeWork
    <3>2. /\ \A g \in first + i .. first + n - 1 : pgd[p][g] # Absent
          /\ i > 0 /\ pgd[p][Page0(c)].st = "swap" /\ op[c].peek = <<>> => freeRam # <<>>
      BY <1>3, <2>1, <3>1 DEF LiveInv, ToFree
    <3>3. Page0(c) = first + i /\ first + i \in first + i .. first + n - 1
      BY <3>1 DEF Page0
    <3>4. pgd[p][Page0(c)] # Absent /\ Page0(c) \in Page
      BY <1>1, <3>2, <3>3, Current DEF IInv
    <3>5. ~ PageAbsent(c)
      BY <1>3, <3>4, PteFacts DEF PageAbsent, IInv
    <3>6. i = 0
      BY <1>3, <3>1, <3>2, <3>5 DEF FaultFails, Faulting
    <3>7. first + i = first
      BY <3>1, <3>6
    <3> QED BY <1>2, <3>1, <3>2, <3>7
  <2>2. CASE op[c].pc # "free"
    <3>1. ~ Pending(p, rg)
      <4> SUFFICES ASSUME NEW d \in Cpu, op[d] # NoOp, op[d].pc \in {"free", "frames"}
                   PROVE  FALSE
        BY DEF Pending
      <4> QED BY <1>1, <2>2, Solo
    <3> QED BY <1>2, <3>1 DEF LiveInv, LiveOf
  <2> QED BY <2>1, <2>2
<1> QED BY <1>1, <1>2, <1>3, <1>4, LiveStep

LEMMA LiveNext ==
  Sequential /\ IInv /\ LockInv /\ LiveInv /\ [Next]_vars => LiveInv'
<1>1. ASSUME Sequential, IInv, LockInv, LiveInv, NEW c \in Cpu, Step(c) PROVE LiveInv'
  <2> USE <1>1
  <2>1. OpTypes(c) /\ (Regional(c) \/ Quiet(c)) /\ op[c] # NoOp
    BY QuietStep, StepWork
  <2>2. op[c].pc = "free" => ToFree(c)
    BY DEF LiveInv
  <2>3. CASE TakeFrame(c)
    <3>1. op[c].pc = "frames" /\ Head(freeRam) \in RamFrame
      BY <2>3, TakeFirst DEF TakeFrame, IInv, Types
    <3>2. SameWork(c)
      BY <2>1, <2>3, <3>1, TakeFrameOp DEF TakeFrame
    <3>3. op'[c].pc = "frames" /\ Quiet(c)
      BY <2>3, <3>1, <3>2 DEF SameWork, TakeFrame, Quiet
    <3> QED BY <2>1, <3>2, <3>3, LiveQuiet
  <2>4. CASE SwapOut(c)
    <3>1. PICK p \in Pid : p = op[c].pid
      BY <2>1, Current DEF IInv
    <3>2. /\ fifo[p] # <<>> /\ op' = [op EXCEPT ![c].frm = <<pgd[p][Victim(p)].n>> \o @]
          /\ op[c].pc = "frames" /\ UNCHANGED regvars
      BY <2>4, <3>1 DEF SwapOut
    <3>3. /\ pgd[p][Victim(p)].n \in RamFrame /\ Victim(p) \in Page
          /\ pgd[p][Victim(p)].st = "ram"
      BY <3>2, VictimPage
    <3>4. SameWork(c)
      BY <2>1, <3>2, <3>3, TakeFrameOp
    <3>5. \A q \in Pid, g \in Page : pgd'[q][g] = Absent <=> pgd[q][g] = Absent
      <4>1. PICK v \in Page : v = Victim(p)
        BY <3>3
      <4>2. pgd' = [pgd EXCEPT ![p][v] = InSwp(Head(freeSwp))]
        BY <2>4, <3>1, <4>1 DEF SwapOut
      <4>3. pgd[p][v] # Absent /\ InSwp(Head(freeSwp)) # Absent
        BY <3>3, <4>1 DEF Absent, InSwp
      <4> QED BY <4>2, <4>3 DEF IInv, Types
    <3>6. Quiet(c) /\ op'[c].pc = "frames"
      BY <3>2, <3>4, <3>5 DEF Quiet, SameWork
    <3> QED BY <2>1, <3>4, <3>6, LiveQuiet
  <2>5. CASE NoVictim(c) \/ NoSwap(c)
    <3>1. op[c].pc = "frames" /\ AllocFails(c) /\ pgd' = pgd
      BY <2>5 DEF NoVictim, NoSwap
    <3> QED BY <2>1, <3>1, LiveFails
  <2>6. CASE MapPages(c)
    BY <2>1, <2>6, LiveMaps
  <2>7. CASE CachePage(c) \/ WritePage(c) \/ ReadPage(c)
    <3>1. op[c].pc \in {"cache", "write", "read"}
      BY <2>7 DEF CachePage, WritePage, ReadPage
    <3>2. op'[c].pc \notin {"free", "frames"}
      BY <3>1, StepWork DEF NoOp
    <3>3. Quiet(c)
      BY <2>7, <3>2 DEF Quiet, CachePage, WritePage, ReadPage
    <3> QED BY <2>1, <3>1, <3>2, <3>3, LiveQuiet
  <2>8. CASE FaultPeek(c)
    <3>1. SameWork(c) /\ op'[c].peek = freeRam /\ freeRam # <<>>
      BY <2>1, <2>8, PeekOp DEF FaultPeek, IInv, Types
    <3>2. Quiet(c) /\ pgd' = pgd
      BY <2>8, <3>1 DEF Quiet, FaultPeek
    <3>3. op'[c].pc = "free" => ToFree(c)'
      BY <2>2, <3>1, <3>2 DEF ToFree, SameWork, Page0
    <3> QED BY <2>1, <3>1, <3>2, <3>3, LiveQuiet
  <2>9. CASE SwapIn(c)
    <3>2. SameWork(c) /\ op'[c].peek = <<>>
      BY <2>9, SwapInWork
    <3>3. PICK p \in Pid, g \in Page : p = op[c].pid /\ g = Page0(c)
      BY <2>1, Current DEF IInv
    <3>4. /\ pgd' = [pgd EXCEPT ![p][g] = InRam(Head(op[c].peek))] /\ UNCHANGED regvars
          /\ pgd[p][g].st = "swap"
      BY <2>9, <3>3 DEF SwapIn, Faulting
    <3>5. pgd'[p][g].st = "ram"
      BY <3>4 DEF IInv, Types, InRam
    <3>6. \A q \in Pid, h \in Page : pgd'[q][h] = Absent <=> pgd[q][h] = Absent
      <4>1. pgd[p][g] # Absent /\ InRam(Head(op[c].peek)) # Absent
        BY <3>4 DEF Absent, InRam
      <4> QED BY <3>4, <4>1 DEF IInv, Types
    <3>7. Quiet(c)
      BY <3>2, <3>4, <3>6 DEF Quiet
    <3>8. ASSUME op'[c].pc = "free" PROVE ToFree(c)'
      <4>1. op[c].pc = "free" /\ ToFree(c) /\ Page0(c)' = g /\ op'[c].pid = p
        BY <2>2, <3>2, <3>3, <3>8 DEF SameWork, Page0
      <4>2. /\ op[c].start \in Nat /\ op[c].n \in Nat /\ op[c].i \in Nat
            /\ \A h \in op[c].start .. op[c].start + op[c].n - 1 : h \in Page
        BY <4>1, FreeWork
      <4>3. ASSUME NEW h \in op[c].start + op[c].i .. op[c].start + op[c].n - 1
            PROVE  pgd'[p][h] # Absent
        <5>1. h \in op[c].start .. op[c].start + op[c].n - 1
          BY <4>2
        <5>2. h \in Page /\ pgd[p][h] # Absent
          BY <3>3, <4>1, <4>2, <5>1 DEF ToFree
        <5> QED BY <3>6, <5>2
      <4> QED BY <3>2, <3>5, <4>1, <4>3 DEF ToFree, SameWork
    <3> QED BY <2>1, <3>2, <3>7, <3>8, LiveQuiet
  <2>10. CASE FaultFails(c) \/ PageAbsent(c)
    BY <2>1, <2>10, LiveAborts
  <2>11. CASE FreePage(c)
    BY <2>1, <2>11, LiveFrees
  <2>12. CASE SwapPeek(c) \/ SwapBack(c)
    <3>1. /\ SameWork(c) /\ op'[c].peek = op[c].peek
          /\ UNCHANGED <<regvars, pgd, freeRam>>
      BY <2>12, SwapPeekWork, SwapBackWork
    <3>2. Quiet(c)
      BY <3>1 DEF Quiet
    <3>3. op'[c].pc = "free" => ToFree(c)'
      BY <2>2, <3>1 DEF ToFree, SameWork, Page0
    <3> QED BY <2>1, <3>1, <3>2, <3>3, LiveQuiet
  <2> QED BY <2>3, <2>4, <2>5, <2>6, <2>7, <2>8, <2>9, <2>10, <2>11, <2>12 DEF Step
<1>2. LiveInv /\ UNCHANGED vars => LiveInv'
  BY DEF LiveInv, LiveOf, Pending, ToFree, Page0, vars, regvars, memvars
<1> QED BY <1>1, <1>2, LiveStart DEF Next

LEMMA LiveInvariance == Sequential => (Spec => []LiveInv)
<1> SUFFICES ASSUME Sequential PROVE Spec => []LiveInv
  OBVIOUS
<1>1. Init => LiveInv
  <2> SUFFICES ASSUME Init PROVE LiveInv
    OBVIOUS
  <2>1. /\ op = [c \in Cpu |-> NoOp]
        /\ sym = [p \in Pid |-> [r \in Rg |-> NoRegion]]
    BY DEF Init
  <2>2. \A h \in Page : ~ Within(NoRegion, h)
    BY Sizes, NoRegionPages DEF Within, Page
  <2> QED BY <2>1, <2>2 DEF LiveInv, LiveOf, NoOp
<1>2. IInv /\ LockInv /\ LiveInv /\ [Next]_vars => LiveInv'
  BY LiveNext
<1>3. Spec => []LockInv
  BY LockInvariance
<1> QED BY Invariance, <1>1, <1>2, <1>3, PTL DEF Spec

\* Every page of a region in the symbol table is mapped and no page of a free
\* region is, but for the region an ALLOC or FREE is changing: no failure half
\* way leaves a region with holes.
THEOREM RegionsLive == Sequential => (Spec => []LiveMapped)
<1> SUFFICES ASSUME Sequential PROVE Spec => []LiveMapped
  OBVIOUS
<1>1. ASSUME IInv, LiveInv PROVE LiveMapped
  <2> USE <1>1
  <2>1. \A x \in Page : x \in Nat
    BY DEF Page
  <2>2. ASSUME NEW r, Good(r), NEW g \in PagesOf(r) PROVE g \in Page /\ Within(r, g)
    <3>1. /\ r.s \div PAGESZ \in Page /\ NumPages(r) \in Nat
          /\ r.s \div PAGESZ + NumPages(r) - 1 <= NPage
      BY <2>2, RegionInSpace
    <3>2. /\ PagesOf(r) = (r.s \div PAGESZ) .. (r.s \div PAGESZ + NumPages(r) - 1)
          /\ \A h \in Nat : h \in PagesOf(r) <=> r.s <= h * PAGESZ /\ h * PAGESZ < r.e
      BY <2>2, RegionPages
    <3> DEFINE a == r.s \div PAGESZ
               n == NumPages(r)
    <3> HIDE DEF a, n
    <3>3. g \in a .. a + n - 1 /\ a \in Nat
      BY <2>1, <2>2, <3>1, <3>2 DEF a, n
    <3>4. g \in Page /\ g \in Nat
      BY <3>1, <3>3, Sizes DEF Page, a, n
    <3> QED BY <2>2, <3>2, <3>4 DEF Within
  <2>3. ASSUME NEW p \in Pid, NEW rg \in Rg,
               ~ \E c \in Cpu : op[c] # NoOp /\ op[c].pid = p /\ op[c].rg = rg
                                /\ op[c].pc \in {"frames", "free"},
               NEW g \in PagesOf(sym[p][rg])
        PROVE  pgd[p][g].st # "absent"
    <3>1. ~ Pending(p, rg)
      BY <2>3 DEF Pending
    <3>2. sym[p][rg] # NoRegion
      BY <2>3, NoRegionPages
    <3>3. Good(sym[p][rg])
      BY <3>2 DEF IInv, RegInv, AreaInv, AreaOf
    <3>4. g \in Page /\ Within(sym[p][rg], g)
      BY <2>2, <2>3, <3>3
    <3>5. pgd[p][g] # Absent
      BY <3>1, <3>4 DEF LiveInv, LiveOf
    <3> QED BY <3>4, <3>5, PteFacts DEF IInv
  <2>4. ASSUME NEW p \in Pid, NEW k \in DOMAIN freerg[p], NEW g \in PagesOf(freerg[p][k])
        PROVE  pgd[p][g].st = "absent"
    <3>1. GoodList(freerg[p]) /\ AbsentOf(p) /\ freerg[p] \in Seq(Region)
      BY RegionFacts DEF IInv, Types
    <3>2. k \in 1 .. Len(freerg[p])
      BY <2>4, <3>1
    <3>3. Good(freerg[p][k])
      BY <3>1, <3>2 DEF GoodList
    <3>4. g \in Page /\ Within(freerg[p][k], g)
      BY <2>2, <2>4, <3>3
    <3>5. pgd[p][g] = Absent
      BY <3>1, <3>2, <3>4 DEF AbsentOf
    <3> QED BY <3>5 DEF Absent
  <2> QED BY <2>3, <2>4 DEF LiveMapped
<1>2. IInv /\ LiveInv => LiveMapped
  BY <1>1
<1>3. Spec => []LiveInv
  BY LiveInvariance
<1> QED BY Invariance, <1>2, <1>3, PTL

-----------------------------------------------------------------------------
(* The free lists.                                                         *)

LEMMA OnEmpty == \A f : ~ OnList(<<>>, f)
BY DEF OnList

LEMMA OnPut ==
  ASSUME NEW S, NEW s \in Seq(S), NEW x \in S
  PROVE  /\ <<x>> \o s \in Seq(S)
         /\ \A f : OnList(<<x>> \o s, f) <=> (f = x \/ OnList(s, f))
         /\ NoRepeat(s) /\ ~ OnList(s, x) => NoRepeat(<<x>> \o s)
<1> DEFINE t == <<x>> \o s
<1>1. /\ t \in Seq(S) /\ Len(t) = Len(s) + 1 /\ Len(s) \in Nat
      /\ t[1] = x /\ \A k \in 1 .. Len(s) : t[k + 1] = s[k]
      /\ \A k \in 1 .. Len(t) : k = 1 \/ (k - 1 \in 1 .. Len(s) /\ t[k] = s[k - 1])
      /\ NoRepeat(s) /\ (\A k \in 1 .. Len(s) : s[k] # x) => NoRepeat(t)
  BY PutFirst
<1> HIDE DEF t
<1>2. ASSUME NEW f, OnList(t, f) PROVE f = x \/ OnList(s, f)
  BY <1>1, <1>2 DEF OnList
<1>3. ASSUME NEW f, f = x \/ OnList(s, f) PROVE OnList(t, f)
  <2>1. CASE f = x
    <3>1. 1 \in 1 .. Len(t)
      BY <1>1
    <3> QED BY <1>1, <2>1, <3>1 DEF OnList
  <2>2. ASSUME NEW k \in 1 .. Len(s), s[k] = f PROVE OnList(t, f)
    <3>1. k + 1 \in 1 .. Len(t)
      BY <1>1
    <3> QED BY <1>1, <2>2, <3>1 DEF OnList
  <2> QED BY <1>3, <2>1, <2>2 DEF OnList
<1>4. NoRepeat(s) /\ ~ OnList(s, x) => NoRepeat(t)
  BY <1>1 DEF OnList
<1> QED BY <1>1, <1>2, <1>3, <1>4 DEF t

LEMMA OnTail ==
  ASSUME NEW S, NEW s \in Seq(S), s # <<>>
  PROVE  /\ Head(s) \in S /\ Tail(s) \in Seq(S)
         /\ \A f : OnList(s, f) <=> (f = Head(s) \/ OnList(Tail(s), f))
         /\ NoRepeat(s) => NoRepeat(Tail(s)) /\ ~ OnList(Tail(s), Head(s))
<1>1. /\ Tail(s) \in Seq(S) /\ Len(Tail(s)) = Len(s) - 1 /\ Len(s) \in Nat \ {0}
      /\ Head(s) = s[1] /\ Head(s) \in S
      /\ \A k \in 1 .. Len(Tail(s)) : k + 1 \in 1 .. Len(s) /\ Tail(s)[k] = s[k + 1]
      /\ NoRepeat(s) => NoRepeat(Tail(s)) /\ \A k \in 1 .. Len(Tail(s)) : Tail(s)[k] # Head(s)
  BY TakeFirst
<1> DEFINE t == Tail(s)
           x == Head(s)
<1> HIDE DEF t, x
<1>2. ASSUME NEW f, OnList(s, f) PROVE f = x \/ OnList(t, f)
  <2>1. PICK k \in 1 .. Len(s) : s[k] = f
    BY <1>2 DEF OnList
  <2>2. CASE k = 1
    BY <1>1, <2>1, <2>2 DEF x
  <2>3. CASE k # 1
    <3>1. k - 1 \in 1 .. Len(t) /\ (k - 1) + 1 = k
      BY <1>1, <2>3 DEF t
    <3>2. t[k - 1] = f
      BY <1>1, <2>1, <3>1 DEF t
    <3> QED BY <3>1, <3>2 DEF OnList
  <2> QED BY <2>2, <2>3
<1>3. ASSUME NEW f, f = x \/ OnList(t, f) PROVE OnList(s, f)
  <2>1. CASE f = x
    <3>1. 1 \in 1 .. Len(s)
      BY <1>1
    <3> QED BY <1>1, <2>1, <3>1 DEF OnList, x
  <2>2. CASE OnList(t, f)
    BY <1>1, <2>2 DEF OnList, t
  <2> QED BY <1>3, <2>1, <2>2
<1> QED BY <1>1, <1>2, <1>3 DEF OnList, t, x

\* MEMPHY_put_freefp of every frame of a list, into an empty free list.
LEMMA OnReturn ==
  ASSUME NEW S, NEW s \in Seq(S)
  PROVE  /\ \A f : OnList(Reverse(s) \o <<>>, f) <=> OnList(s, f)
         /\ NoRepeat(s) => NoRepeat(Reverse(s) \o <<>>)
<1> DEFINE r == Reverse(s)
           n == Len(s)
<1>1. /\ r \in Seq(S) /\ Len(r) = n /\ n \in Nat
      /\ \A k \in 1 .. n : r[k] = s[n - k + 1]
  BY DEF Reverse
<1>2. Reverse(s) \o <<>> = r
  BY <1>1
<1> HIDE DEF r
<1>3. \A k \in 1 .. n : n - k + 1 \in 1 .. n /\ n - (n - k + 1) + 1 = k
  BY <1>1
<1>4. \A j, k \in 1 .. n : n - j + 1 = n - k + 1 => j = k
  BY <1>1
<1> HIDE DEF n
<1>5. \A f : OnList(r, f) <=> OnList(s, f)
  <2> TAKE f
  <2>1. OnList(r, f) => OnList(s, f)
    BY <1>1, <1>3 DEF OnList, n
  <2>2. ASSUME NEW k \in 1 .. n, s[k] = f PROVE OnList(r, f)
    <3>1. n - k + 1 \in 1 .. n /\ r[n - k + 1] = s[k]
      BY <1>1, <1>3
    <3> QED BY <1>1, <2>2, <3>1 DEF OnList
  <2> QED BY <2>1, <2>2 DEF OnList, n
<1>6. NoRepeat(s) => NoRepeat(r)
  BY <1>1, <1>3, <1>4, SMTT(30) DEF NoRepeat, n
<1> QED BY <1>2, <1>5, <1>6

\* An instruction that begins has no frames yet.
EmptyHands(c) == /\ op[c].frm = <<>> /\ op[c].peek = <<>>
                 /\ op[c].back = NoFrame /\ op[c].node = <<>>

LEMMA StartFrames ==
  ASSUME IInv, NEW c \in Cpu, Start(c)
  PROVE  /\ pgd' = pgd /\ freeRam' = freeRam /\ freeSwp' = freeSwp /\ op[c] = NoOp
         /\ op'[c] = NoOp \/ EmptyHands(c)'
<1> DEFINE G == /\ pgd' = pgd /\ freeRam' = freeRam /\ freeSwp' = freeSwp
                /\ op'[c] = NoOp \/ EmptyHands(c)'
<1>1. op \in [Cpu -> OpSet \cup {NoOp}] /\ op[c] = NoOp
  BY StartFacts DEF IInv, Types
<1>2. ASSUME NEW pc, NEW p, NEW rg, NEW start, NEW n, NEW size, NEW reuse,
             Begin(c, OpRec(pc, p, rg, start, n, size, reuse))
      PROVE  EmptyHands(c)'
  BY <1>1, <1>2 DEF Begin, OpRec, EmptyHands
<1>3. ASSUME NEW p \in Pid, BadRegion(c, p) PROVE G
  BY <1>1, <1>3 DEF BadRegion, memvars
<1>4. ASSUME NEW p \in Pid, AllocZero(c, p) PROVE G
  BY <1>2, <1>4 DEF AllocZero, memvars
<1>5. ASSUME NEW p \in Pid, NEW rg \in Rg, Free(c, p, rg) PROVE G
  BY <1>2, <1>5 DEF Free, memvars
<1>6. ASSUME NEW p \in Pid, NEW rg \in Rg, NEW sz \in 1 .. MaxSize, Alloc(c, p, rg, sz)
      PROVE  G
  <2>1. CASE AllocReuse(c, p, rg, sz)
    BY <1>2, <1>6, <2>1 DEF Alloc, AllocReuse, memvars
  <2>2. CASE AllocBrk(c, p, rg, sz)
    BY <1>2, <1>6, <2>2 DEF Alloc, AllocBrk, memvars
  <2> QED BY <1>6, <2>1, <2>2 DEF Alloc
<1>7. ASSUME NEW p \in Pid, NEW rg \in Rg, NEW off \in 0 .. MaxSize,
             WriteHit(c, p, rg, off) \/ ReadOutOfRange(c, p, rg, off)
      PROVE  G
  BY <1>1, <1>7 DEF WriteHit, ReadOutOfRange, memvars
<1>8. ASSUME NEW p \in Pid, NEW rg \in Rg, NEW off \in 0 .. MaxSize,
             WriteMiss(c, p, rg, off) \/ ReadMiss(c, p, rg, off)
      PROVE  G
  BY <1>2, <1>8 DEF WriteMiss, ReadMiss, memvars
<1> HIDE DEF G
<1>9. G
  BY <1>3, <1>4, <1>5, <1>6, <1>7, <1>8 DEF Start
<1> QED BY <1>1, <1>9 DEF G

-----------------------------------------------------------------------------
(* The frames of the swap device.                                          *)

\* Only the CPU that has an instruction under way owes a frame.
LEMMA SwapMove ==
  ASSUME Sequential, LockInv, NEW c \in Cpu, OpTypes(c), op[c] # NoOp,
         NoRepeat(freeSwp'),
         \A o \in SwpFrame, p \in Pid, g \in Page : pgd'[p][g] = InSwp(o) =>
           /\ ~ OnList(freeSwp', o) /\ ~ Owes(c, o)'
           /\ \A q \in Pid, h \in Page : pgd'[q][h] = InSwp(o) => p = q /\ g = h,
         \A o \in SwpFrame : Owes(c, o)' => ~ OnList(freeSwp', o),
         \A o \in SwpFrame : \/ OnList(freeSwp', o)
                             \/ \E p \in Pid, g \in Page : pgd'[p][g] = InSwp(o)
                             \/ Owes(c, o)',
         NodeOf(c)'
  PROVE  SwapInv'
<1>1. \A d \in Cpu \ {c} : op'[d] = NoOp
  BY Solo DEF OpTypes
<1>2. \A o \in SwpFrame, d \in Cpu : Owes(d, o)' <=> d = c /\ Owes(c, o)'
  BY <1>1 DEF Owes
<1>3. SwapOnce'
  <2>1. NoRepeat(freeSwp)'
    BY DEF NoRepeat
  <2>2. \A o : OnList(freeSwp, o)' <=> OnList(freeSwp', o)
    BY DEF OnList
  <2>3. \A o \in SwpFrame, p \in Pid, g \in Page : (pgd[p][g] = InSwp(o))' <=> pgd'[p][g] = InSwp(o)
    BY DEF InSwp
  <2> QED BY <1>2, <2>1, <2>2, <2>3 DEF SwapOnce
<1>4. SwapSomewhere'
  <2> SUFFICES ASSUME NEW o \in SwpFrame
               PROVE  \/ OnList(freeSwp', o)
                      \/ \E p \in Pid, g \in Page : pgd'[p][g] = InSwp(o)
                      \/ \E d \in Cpu : Owes(d, o)'
    BY DEF SwapSomewhere, OnList, InSwp
  <2> QED BY <1>2
<1>5. SwapNode'
  <2>1. \A d \in Cpu \ {c} : NodeOf(d)'
    BY <1>1 DEF NodeOf
  <2> QED BY <2>1 DEF SwapNode, NodeOf
<1> QED BY <1>3, <1>4, <1>5 DEF SwapInv

\* Where the frames are before the step.
LEMMA SwapFacts ==
  ASSUME Sequential, LockInv, SwapInv, NEW c \in Cpu, op[c] # NoOp
  PROVE  /\ NoRepeat(freeSwp)
         /\ NodeOf(c)
         /\ \A o \in SwpFrame, p \in Pid, g \in Page : pgd[p][g] = InSwp(o) =>
              /\ ~ OnList(freeSwp, o) /\ ~ Owes(c, o)
              /\ \A q \in Pid, h \in Page : pgd[q][h] = InSwp(o) => p = q /\ g = h
         /\ \A o \in SwpFrame : Owes(c, o) => ~ OnList(freeSwp, o)
         /\ \A o \in SwpFrame : \/ OnList(freeSwp, o)
                                \/ \E p \in Pid, g \in Page : pgd[p][g] = InSwp(o)
                                \/ Owes(c, o)
<1>1. \A d \in Cpu \ {c} : op[d] = NoOp
  BY Solo
<1>2. \A o \in SwpFrame, d \in Cpu : Owes(d, o) <=> d = c /\ Owes(c, o)
  BY <1>1 DEF Owes
<1> QED BY <1>2 DEF SwapInv, SwapOnce, SwapSomewhere, SwapNode

LEMMA NoFrameOut == NoFrame \notin SwpFrame
BY DEF NoFrame, SwpFrame

LEMMA OwesNone ==
  ASSUME NEW c \in Cpu
  PROVE  /\ op[c].back = NoFrame => \A o \in SwpFrame : ~ Owes(c, o)
         /\ op'[c].back = NoFrame \/ op'[c] = NoOp => \A o \in SwpFrame : ~ Owes(c, o)'
BY NoFrameOut DEF Owes

\* The steps that move no frame of the swap device.
LEMMA SwapStays ==
  ASSUME Sequential, LockInv, SwapInv, NEW c \in Cpu, OpTypes(c), op[c] # NoOp,
         freeSwp' = freeSwp,
         \A o \in SwpFrame, p \in Pid, g \in Page :
           pgd'[p][g] = InSwp(o) <=> pgd[p][g] = InSwp(o),
         \/ op'[c] = NoOp /\ op[c].back = NoFrame
         \/ /\ op'[c] # NoOp /\ op'[c].back = op[c].back
            /\ \/ op'[c].node = op[c].node
               \/ op[c].back # NoFrame /\ op'[c].node = <<op[c].back>> \o freeSwp
  PROVE  SwapInv'
<1>0. \A o \in SwpFrame : Owes(c, o)' <=> Owes(c, o)
  BY NoFrameOut DEF Owes
<1>1. NoRepeat(freeSwp')
  BY SwapFacts
<1>2. \A o \in SwpFrame, p \in Pid, g \in Page : pgd'[p][g] = InSwp(o) =>
        /\ ~ OnList(freeSwp', o) /\ ~ Owes(c, o)'
        /\ \A q \in Pid, h \in Page : pgd'[q][h] = InSwp(o) => p = q /\ g = h
  BY <1>0, SwapFacts
<1>3. \A o \in SwpFrame : Owes(c, o)' => ~ OnList(freeSwp', o)
  BY <1>0, SwapFacts
<1>4. \A o \in SwpFrame : \/ OnList(freeSwp', o)
                          \/ \E p \in Pid, g \in Page : pgd'[p][g] = InSwp(o)
                          \/ Owes(c, o)'
  BY <1>0, SwapFacts
<1>5. NodeOf(c)'
  <2>1. NodeOf(c)
    BY SwapFacts
  <2> QED BY <2>1 DEF NodeOf
<1> QED BY <1>1, <1>2, <1>3, <1>4, <1>5, SwapMove

\* The first free frame takes the victim.
LEMMA SwapGoesOut ==
  ASSUME IInv, Sequential, LockInv, SwapInv, NEW c \in Cpu, OpTypes(c), SwapOut(c)
  PROVE  SwapInv'
<1>1. op[c].pc = "frames" /\ op[c] # NoOp /\ op[c].back = NoFrame
  BY UnderWay, NoneInHand DEF SwapOut, Pc
<1>2. PICK p \in Pid : p = op[c].pid
  BY <1>1, Current DEF IInv
<1>3. fifo[p] # <<>> /\ freeSwp # <<>> /\ freeSwp \in Seq(SwpFrame)
  BY <1>2 DEF SwapOut, IInv, Types
<1>4. PICK v \in Page, x \in RamFrame : v = Victim(p) /\ x = pgd[p][v].n /\ pgd[p][v] = InRam(x)
  BY <1>3, VictimPage
<1>5. PICK o \in SwpFrame : o = Head(freeSwp)
  BY <1>3, OnTail
<1>6. /\ pgd'[p][v] = InSwp(o)
      /\ \A q \in Pid, h \in Page : (q = p /\ h = v) \/ pgd'[q][h] = pgd[q][h]
  <2>1. PICK y \in Pte : y = InSwp(o)
    BY DEF Pte
  <2>2. pgd' = [pgd EXCEPT ![p][v] = y]
    BY <1>2, <1>4, <1>5, <2>1 DEF SwapOut
  <2>3. /\ pgd'[p][v] = y
        /\ \A q \in Pid, h \in Page : (q = p /\ h = v) \/ pgd'[q][h] = pgd[q][h]
    BY <2>2 DEF IInv, Types
  <2> QED BY <2>1, <2>3
<1>7. op' = [op EXCEPT ![c].frm = <<x>> \o @] /\ freeSwp' = Tail(freeSwp)
  BY <1>2, <1>4 DEF SwapOut
<1>8. op'[c] # NoOp /\ op'[c].back = NoFrame /\ op'[c].node = <<>>
  <2>1. op[c].node = <<>>
    BY <1>1, SwapFacts DEF NodeOf
  <2>2. SameWork(c) /\ op'[c].back = op[c].back /\ op'[c].node = op[c].node
    BY <1>1, <1>7, TakeFrameOp
  <2> QED BY <1>1, <2>1, <2>2 DEF SameWork, NoOp
<1>9. /\ \A y : OnList(freeSwp, y) <=> (y = o \/ OnList(freeSwp', y))
      /\ NoRepeat(freeSwp') /\ ~ OnList(freeSwp', o)
  <2>1. NoRepeat(freeSwp)
    BY <1>1, SwapFacts
  <2> QED BY <1>3, <1>5, <1>7, <2>1, OnTail
<1>10. pgd[p][v] = InRam(x)
  BY <1>4
<1>11. \A y \in SwpFrame, q \in Pid, h \in Page :
         pgd'[q][h] = InSwp(y) <=> (pgd[q][h] = InSwp(y) \/ (q = p /\ h = v /\ y = o))
  BY <1>6, <1>10 DEF InSwp, InRam
<1>12. /\ \A q \in Pid, h \in Page : pgd[q][h] # InSwp(o)
       /\ \A y \in SwpFrame, q \in Pid, h \in Page : pgd[q][h] = InSwp(y) =>
            /\ ~ OnList(freeSwp', y)
            /\ \A q2 \in Pid, h2 \in Page : pgd[q2][h2] = InSwp(y) => q = q2 /\ h = h2
  BY <1>1, <1>9, SwapFacts
<1>13. ASSUME NEW y \in SwpFrame, NEW q \in Pid, NEW h \in Page, pgd'[q][h] = InSwp(y)
       PROVE  /\ ~ OnList(freeSwp', y)
              /\ \A q2 \in Pid, h2 \in Page : pgd'[q2][h2] = InSwp(y) => q = q2 /\ h = h2
  BY <1>9, <1>11, <1>12, <1>13
<1>14. \A y \in SwpFrame : \/ OnList(freeSwp', y)
                           \/ \E q \in Pid, h \in Page : pgd'[q][h] = InSwp(y)
  <2> TAKE y \in SwpFrame
  <2>1. OnList(freeSwp, y) \/ \E q \in Pid, h \in Page : pgd[q][h] = InSwp(y)
    BY <1>1, OwesNone, SwapFacts
  <2> QED BY <1>9, <1>11, <2>1
<1>15. (\A y \in SwpFrame : ~ Owes(c, y)') /\ NodeOf(c)'
  BY <1>8, OwesNone DEF NodeOf
<1> QED BY <1>1, <1>8, <1>9, <1>13, <1>14, <1>15, SwapMove

\* The page is back in RAM: its swap frame is in the hands of the fault.
LEMMA SwapComesIn ==
  ASSUME IInv, Sequential, LockInv, SwapInv, NEW c \in Cpu, OpTypes(c), SwapIn(c)
  PROVE  SwapInv'
<1>1. PICK o \in SwpFrame :
        /\ o = op'[c].back /\ pgd[op[c].pid][Page0(c)] = InSwp(o)
        /\ op[c] # NoOp /\ op[c].back = NoFrame /\ SameWork(c)
        /\ op'[c].node = op[c].node
  BY SwapInWork
<1>2. PICK p \in Pid, g \in Page : p = op[c].pid /\ g = Page0(c)
  BY <1>1, Current DEF IInv
<1>3. pgd[p][g] = InSwp(o) /\ op[c].node = <<>>
  BY <1>1, <1>2, SwapFacts DEF NodeOf
<1>4. /\ op'[c] # NoOp /\ op'[c].back = o /\ op'[c].node = <<>> /\ freeSwp' = freeSwp
      /\ NodeOf(c)'
  <2>1. op[c].pc # "idle" /\ op'[c].pc = op[c].pc
    BY <1>1, OpFacts DEF IInv, SameWork
  <2>2. op'[c] # NoOp
    BY <2>1 DEF NoOp
  <2>3. freeSwp' = freeSwp
    BY DEF SwapIn
  <2> QED BY <1>1, <1>3, <2>2, <2>3 DEF NodeOf
<1>5. pgd' = [pgd EXCEPT ![p][g] = InRam(Head(op[c].peek))]
  BY <1>2 DEF SwapIn
<1>11. /\ \A y \in SwpFrame : ~ Owes(c, y)
       /\ \A y \in SwpFrame : Owes(c, y)' <=> y = o
  BY <1>1, <1>4, NoFrameOut DEF Owes
<1>6. /\ pgd'[p][g] = InRam(Head(op[c].peek))
      /\ \A q \in Pid, h \in Page : (q = p /\ h = g) \/ pgd'[q][h] = pgd[q][h]
  BY <1>5 DEF IInv, Types
<1>7. \A y \in SwpFrame, q \in Pid, h \in Page :
        pgd'[q][h] = InSwp(y) <=> (pgd[q][h] = InSwp(y) /\ y # o)
  <2> TAKE y \in SwpFrame, q \in Pid, h \in Page
  <2>1. pgd[q][h] = InSwp(o) => q = p /\ h = g
    BY <1>1, <1>3, SwapFacts
  <2>2. \A a, b : InSwp(a) = InSwp(b) => a = b
    BY DEF InSwp
  <2>3. pgd'[p][g] # InSwp(y)
    BY <1>6 DEF InRam, InSwp
  <2> QED BY <1>3, <1>6, <2>1, <2>2, <2>3
<1>8. NoRepeat(freeSwp') /\ ~ OnList(freeSwp', o)
  BY <1>1, <1>3, <1>4, SwapFacts
<1>9. \A y \in SwpFrame, q \in Pid, h \in Page : pgd'[q][h] = InSwp(y) =>
        /\ ~ OnList(freeSwp', y) /\ ~ Owes(c, y)'
        /\ \A q2 \in Pid, h2 \in Page : pgd'[q2][h2] = InSwp(y) => q = q2 /\ h = h2
  BY <1>1, <1>4, <1>7, <1>11, SwapFacts
<1>10. \A y \in SwpFrame : \/ OnList(freeSwp', y)
                           \/ \E q \in Pid, h \in Page : pgd'[q][h] = InSwp(y)
                           \/ Owes(c, y)'
  <2> TAKE y \in SwpFrame
  <2>1. OnList(freeSwp, y) \/ \E q \in Pid, h \in Page : pgd[q][h] = InSwp(y)
    BY <1>1, <1>11, SwapFacts
  <2> QED BY <1>4, <1>7, <1>11, <2>1
<1> QED BY <1>1, <1>4, <1>8, <1>9, <1>10, <1>11, NoFrameOut, SwapMove

\* The list with the frame given back becomes the free list.
LEMMA SwapGivenBack ==
  ASSUME IInv, Sequential, LockInv, SwapInv, NEW c \in Cpu, OpTypes(c), SwapBack(c)
  PROVE  SwapInv'
<1>1. PICK o \in SwpFrame :
        /\ o = op[c].back /\ op[c] # NoOp /\ op[c].node # <<>> /\ SameWork(c)
        /\ op'[c].back = NoFrame /\ op'[c].node = <<>>
        /\ freeSwp' = op[c].node /\ pgd' = pgd
  BY SwapBackWork
<1>2. op'[c] # NoOp
  <2>1. op[c].pc # "idle"
    BY <1>1, OpFacts DEF IInv
  <2> QED BY <1>1, <2>1 DEF SameWork, NoOp
<1>7. /\ \A y \in SwpFrame : Owes(c, y) <=> y = o
      /\ \A y \in SwpFrame : ~ Owes(c, y)'
  BY <1>1, NoFrameOut DEF Owes
<1>3. /\ freeSwp' = <<o>> \o freeSwp /\ freeSwp \in Seq(SwpFrame)
      /\ NoRepeat(freeSwp) /\ ~ OnList(freeSwp, o)
  <2>1. NodeOf(c) /\ NoRepeat(freeSwp) /\ ~ OnList(freeSwp, o)
    BY <1>1, <1>7, SwapFacts
  <2> QED BY <1>1, <2>1 DEF IInv, Types, NodeOf
<1>4. /\ \A y : OnList(freeSwp', y) <=> (y = o \/ OnList(freeSwp, y))
      /\ NoRepeat(freeSwp')
  BY <1>3, OnPut
<1>5. \A y \in SwpFrame, q \in Pid, h \in Page : pgd'[q][h] = InSwp(y) =>
        /\ ~ OnList(freeSwp', y)
        /\ \A q2 \in Pid, h2 \in Page : pgd'[q2][h2] = InSwp(y) => q = q2 /\ h = h2
  BY <1>1, <1>4, <1>7, SwapFacts
<1>6. \A y \in SwpFrame : \/ OnList(freeSwp', y)
                          \/ \E q \in Pid, h \in Page : pgd'[q][h] = InSwp(y)
  BY <1>1, <1>4, <1>7, SwapFacts
<1>8. NodeOf(c)'
  BY <1>1 DEF NodeOf
<1>9. op[c] # NoOp
  BY <1>1
<1> QED BY <1>2, <1>4, <1>5, <1>6, <1>7, <1>8, <1>9, SwapMove

LEMMA SwapStart ==
  ASSUME IInv, SwapInv, NEW c \in Cpu, OpTypes(c), Start(c)
  PROVE  SwapInv'
<1>1. /\ pgd' = pgd /\ freeSwp' = freeSwp /\ op[c] = NoOp
      /\ op'[c] = NoOp \/ (op'[c].back = NoFrame /\ op'[c].node = <<>>)
      /\ \A d \in Cpu \ {c} : op'[d] = op[d]
  BY StartFrames DEF OpTypes, EmptyHands
<1>2. \A o \in SwpFrame, d \in Cpu : Owes(d, o)' <=> Owes(d, o)
  BY <1>1, NoFrameOut DEF Owes
<1>3. SwapOnce'
  BY <1>1, <1>2 DEF SwapInv, SwapOnce, OnList, NoRepeat, InSwp
<1>4. SwapSomewhere'
  BY <1>1, <1>2 DEF SwapInv, SwapSomewhere, OnList, InSwp
<1>5. SwapNode'
  <2> SUFFICES ASSUME NEW d \in Cpu PROVE NodeOf(d)'
    BY DEF SwapNode, NodeOf
  <2>1. NodeOf(d)
    BY DEF SwapInv, SwapNode
  <2> QED BY <1>1, <2>1 DEF NodeOf
<1> QED BY <1>3, <1>4, <1>5 DEF SwapInv

\* Pages that are mapped anew or freed have no swap frame before or after.
LEMMA SwapPages ==
  ASSUME IInv, NEW c \in Cpu, MapPages(c) \/ FreePage(c)
  PROVE  \A o \in SwpFrame, q \in Pid, h \in Page :
           pgd'[q][h] = InSwp(o) <=> pgd[q][h] = InSwp(o)
<1>1. /\ \A x, y : InRam(x) # InSwp(y)
      /\ \A y : Absent # InSwp(y)
      /\ \A y : InSwp(y).st = "swap"
  BY DEF InRam, InSwp, Absent
<1>2. op[c] # NoOp
  BY UnderWay DEF MapPages, FreePage, Pc
<1>3. PICK p \in Pid, g \in Page : p = op[c].pid /\ g = Page0(c)
  BY <1>2, Current DEF IInv
<1>4. CASE MapPages(c)
  <2> DEFINE new == op[c].start .. op[c].start + op[c].n - 1
  <2>1. /\ \A h \in new : pgd[p][h] = Absent
                          /\ pgd'[p][h] = InRam(op[c].frm[h - op[c].start + 1])
        /\ \A h \in Page : h \notin new => pgd'[p][h] = pgd[p][h]
        /\ \A q \in Pid \ {p} : pgd'[q] = pgd[q]
    BY <1>3, <1>4, MapEffect
  <2> HIDE DEF new
  <2> TAKE o \in SwpFrame, q \in Pid, h \in Page
  <2>2. CASE q = p /\ h \in new
    BY <1>1, <2>1, <2>2
  <2>3. CASE ~ (q = p /\ h \in new)
    BY <2>1, <2>3
  <2> QED BY <2>2, <2>3
<1>5. CASE FreePage(c)
  <2>1. pgd' = [pgd EXCEPT ![p][g] = Absent] /\ pgd[p][g].st = "ram"
    BY <1>3, <1>5 DEF FreePage
  <2>2. /\ pgd'[p][g] = Absent
        /\ \A q \in Pid, h \in Page : (q = p /\ h = g) \/ pgd'[q][h] = pgd[q][h]
    BY <2>1 DEF IInv, Types
  <2> QED BY <1>1, <2>1, <2>2
<1> QED BY <1>4, <1>5

LEMMA SwapNext ==
  Sequential /\ IInv /\ LockInv /\ SwapInv /\ [Next]_vars => SwapInv'
<1>1. ASSUME Sequential, IInv, LockInv, SwapInv, Next PROVE SwapInv'
  <2> USE <1>1
  <2>1. PICK c \in Cpu : Start(c) \/ Step(c)
    BY DEF Next
  <2>2. OpTypes(c)
    BY <2>1, RegionsNext
  <2>3. CASE Start(c)
    BY <2>2, <2>3, SwapStart
  <2>4. CASE TakeFrame(c)
    <3>1. op[c].pc = "frames" /\ op[c] # NoOp /\ freeRam # <<>>
      BY <2>4, UnderWay DEF TakeFrame, Pc
    <3>2. PICK x \in RamFrame : x = Head(freeRam)
      BY <3>1, OnTail DEF IInv, Types
    <3>3. SameWork(c) /\ op'[c].back = op[c].back /\ op'[c].node = op[c].node
      BY <2>4, <3>1, <3>2, TakeFrameOp DEF TakeFrame
    <3>4. op'[c] # NoOp /\ pgd' = pgd /\ freeSwp' = freeSwp
      BY <2>4, <3>1, <3>3 DEF SameWork, NoOp, TakeFrame
    <3> QED BY <2>2, <3>1, <3>3, <3>4, SwapStays
  <2>5. CASE NoVictim(c) \/ NoSwap(c)
    <3>1. op[c].pc = "frames" /\ op[c] # NoOp
      BY <2>5, UnderWay DEF NoVictim, NoSwap, Pc
    <3>2. op'[c] = NoOp /\ pgd' = pgd /\ freeSwp' = freeSwp
      BY <2>5, EndStep DEF NoVictim, NoSwap, AllocFails
    <3> QED BY <2>2, <3>1, <3>2, NoneInHand, SwapStays
  <2>6. CASE MapPages(c)
    <3>1. op[c].pc = "frames" /\ op[c] # NoOp
      BY <2>6, UnderWay DEF MapPages, Pc
    <3>2. /\ op'[c].pc = "cache" /\ op'[c].back = op[c].back /\ op'[c].node = op[c].node
          /\ freeSwp' = freeSwp
      BY <2>6, <3>1, MappedOp DEF MapPages, memvars
    <3>3. op'[c] # NoOp
      BY <3>2 DEF NoOp
    <3> QED BY <2>2, <2>6, <3>1, <3>2, <3>3, SwapPages, SwapStays
  <2>7. CASE CachePage(c)
    <3>1. /\ op[c].pc = "cache" /\ op[c] # NoOp /\ op[c].back = NoFrame
          /\ pgd' = pgd /\ freeSwp' = freeSwp
      BY <2>7, UnderWay DEF CachePage, Pc, memvars
    <3>2. \/ op'[c] = NoOp
          \/ op'[c] # NoOp /\ op'[c].back = op[c].back /\ op'[c].node = op[c].node
      <4>1. CASE IsLast(c)
        BY <2>7, <4>1, EndStep DEF CachePage
      <4>2. CASE ~ IsLast(c)
        BY <2>7, <3>1, <4>2, NextPageOp DEF CachePage, NoOp
      <4> QED BY <4>1, <4>2
    <3> QED BY <2>2, <3>1, <3>2, SwapStays
  <2>8. CASE FaultPeek(c)
    <3>1. op[c] # NoOp /\ pgd' = pgd /\ freeSwp' = freeSwp
      BY <2>8, AtPageUnderWay DEF FaultPeek, Faulting, memvars
    <3>2. SameWork(c) /\ op'[c].back = op[c].back /\ op'[c].node = op[c].node
      BY <2>8, <3>1, PeekOp DEF FaultPeek, IInv, Types
    <3>3. op'[c] # NoOp
      BY <3>1, <3>2, OpFacts DEF IInv, SameWork, NoOp
    <3> QED BY <2>2, <3>1, <3>2, <3>3, SwapStays
  <2>9. CASE SwapPeek(c)
    <3>1. /\ op[c] # NoOp /\ SameWork(c) /\ op[c].back \in SwpFrame
          /\ op'[c].back = op[c].back /\ op'[c].node = <<op[c].back>> \o freeSwp
          /\ pgd' = pgd /\ freeSwp' = freeSwp
      BY <2>9, SwapPeekWork
    <3>2. op'[c] # NoOp /\ op[c].back # NoFrame
      BY <3>1, NoFrameOut, OpFacts DEF IInv, SameWork, NoOp
    <3> QED BY <2>2, <3>1, <3>2, SwapStays
  <2>10. CASE FaultFails(c) \/ PageAbsent(c) \/ WritePage(c) \/ ReadPage(c)
    <3>1. op[c].pc \in Pc /\ op[c].back = NoFrame /\ pgd' = pgd /\ freeSwp' = freeSwp
      BY <2>10 DEF FaultFails, PageAbsent, WritePage, ReadPage, Faulting, AtPage, memvars, Pc
    <3>2. op[c] # NoOp /\ op'[c] = NoOp
      BY <2>10, <3>1, UnderWay, EndStep DEF FaultFails, PageAbsent, WritePage, ReadPage
    <3> QED BY <2>2, <3>1, <3>2, SwapStays
  <2>11. CASE FreePage(c)
    <3>1. /\ op[c].pc = "free" /\ op[c] # NoOp /\ op[c].back = NoFrame
          /\ freeSwp' = freeSwp
      BY <2>11, UnderWay DEF FreePage, Pc
    <3>2. \/ op'[c] = NoOp
          \/ op'[c] # NoOp /\ op'[c].back = op[c].back /\ op'[c].node = op[c].node
      <4>1. CASE IsLast(c)
        BY <2>11, <4>1, EndStep DEF FreePage
      <4>2. CASE ~ IsLast(c)
        BY <2>11, <3>1, <4>2, NextPageOp DEF FreePage, NoOp
      <4> QED BY <4>1, <4>2
    <3> QED BY <2>2, <2>11, <3>1, <3>2, SwapPages, SwapStays
  <2> QED BY <2>1, <2>2, <2>3, <2>4, <2>5, <2>6, <2>7, <2>8, <2>9, <2>10, <2>11,
             SwapGoesOut, SwapComesIn, SwapGivenBack DEF Step
<1>2. ASSUME SwapInv, UNCHANGED vars PROVE SwapInv'
  <2>1. op' = op /\ pgd' = pgd /\ freeSwp' = freeSwp
    BY <1>2 DEF vars, memvars
  <2> QED BY <1>2, <2>1 DEF SwapInv, SwapOnce, SwapSomewhere, SwapNode, NodeOf, Owes, OnList,
                            NoRepeat, InSwp
<1> QED BY <1>1, <1>2

LEMMA SwapInit == Init => SwapInv
<1> SUFFICES ASSUME Init PROVE SwapInv
  OBVIOUS
<1>1. /\ op = [c \in Cpu |-> NoOp] /\ pgd = [p \in Pid |-> [g \in Page |-> Absent]]
      /\ freeSwp = [k \in 1 .. NSwp |-> k - 1] /\ NSwp \in Nat \ {0}
  BY Sizes DEF Init, Formatted
<1>2. Len(freeSwp) = NSwp
  BY <1>1
<1>3. \A k \in 1 .. NSwp : freeSwp[k] = k - 1
  BY <1>1
<1>4. NoRepeat(freeSwp)
  BY <1>1, <1>2, <1>3 DEF NoRepeat
<1>5. \A o \in SwpFrame : OnList(freeSwp, o)
  <2> TAKE o \in SwpFrame
  <2>1. o + 1 \in 1 .. NSwp /\ (o + 1) - 1 = o
    BY <1>1 DEF SwpFrame
  <2> QED BY <1>2, <1>3, <2>1 DEF OnList
<1>6. \A o \in SwpFrame, p \in Pid, g \in Page : pgd[p][g] # InSwp(o)
  BY <1>1 DEF Absent, InSwp
<1>7. \A c \in Cpu : op[c] = NoOp
  BY <1>1
<1> QED BY <1>4, <1>5, <1>6, <1>7 DEF SwapInv, SwapOnce, SwapSomewhere, SwapNode, NodeOf, Owes

LEMMA SwapInvariance == Sequential => (Spec => []SwapInv)
<1> SUFFICES ASSUME Sequential PROVE Spec => []SwapInv
  OBVIOUS
<1>1. IInv /\ LockInv /\ SwapInv /\ [Next]_vars => SwapInv'
  BY SwapNext
<1>2. Spec => []LockInv
  BY LockInvariance
<1> QED BY Invariance, SwapInit, <1>1, <1>2, PTL DEF Spec

\* A frame of the swap device is never lost and never used twice: it is on the
\* free list, or holds one page of one process, or is in the hands of one
\* fault that gives it back, whatever fails on the way, if no READ, which
\* takes no lock, runs beside another instruction.
THEOREM SwapAccounted == Sequential => (Spec => []SwapConserved)
<1> SUFFICES ASSUME Sequential PROVE Spec => []SwapConserved
  OBVIOUS
<1>1. ASSUME IInv, LockInv, SwapInv PROVE SwapConserved
  <2> USE <1>1
  <2> SUFFICES ASSUME NEW o \in SwpFrame PROVE SwpUses(o) = 1
    BY DEF SwapConserved
  <2> DEFINE A == {i \in DOMAIN freeSwp : freeSwp[i] = o}
             B == {k \in Pid \X Page : pgd[k[1]][k[2]] = InSwp(o)}
             H == {c \in Cpu : Owes(c, o)}
  <2>1. SwpUses(o) = Cardinality(A) + Cardinality(B) + Cardinality(H)
    BY DEF SwpUses, Owes
  <2>2. DOMAIN freeSwp = 1 .. Len(freeSwp) /\ NoRepeat(freeSwp)
    BY DEF IInv, Types, SwapInv, SwapOnce
  <2>3. CASE OnList(freeSwp, o)
    <3>1. PICK k \in 1 .. Len(freeSwp) : freeSwp[k] = o
      BY <2>3 DEF OnList
    <3>2. A = {k}
      BY <2>2, <3>1 DEF NoRepeat
    <3>3. B = {} /\ H = {}
      BY <2>3 DEF SwapInv, SwapOnce
    <3> HIDE DEF A, B, H
    <3>4. Cardinality(A) = 1 /\ Cardinality(B) = 0 /\ Cardinality(H) = 0
      BY <3>2, <3>3, FS_Singleton, FS_EmptySet, Zenon
    <3> QED BY <2>1, <3>4
  <2>4. ASSUME NEW p \in Pid, NEW g \in Page, pgd[p][g] = InSwp(o)
        PROVE  SwpUses(o) = 1
    <3>1. /\ ~ OnList(freeSwp, o) /\ \A c \in Cpu : ~ Owes(c, o)
          /\ \A q \in Pid, h \in Page : pgd[q][h] = InSwp(o) => p = q /\ g = h
      BY <2>4 DEF SwapInv, SwapOnce
    <3>2. A = {} /\ H = {}
      BY <2>2, <3>1 DEF OnList
    <3>3. \A k \in Pid \X Page : pgd[k[1]][k[2]] = InSwp(o) => k = <<p, g>>
      <4> TAKE k \in Pid \X Page
      <4> HAVE pgd[k[1]][k[2]] = InSwp(o)
      <4>1. k[1] = p /\ k[2] = g
        BY <3>1
      <4> QED BY <4>1
    <3>4. B = {<<p, g>>}
      BY <2>4, <3>3
    <3> HIDE DEF A, B, H
    <3>5. Cardinality(A) = 0 /\ Cardinality(B) = 1 /\ Cardinality(H) = 0
      BY <3>2, <3>4, FS_Singleton, FS_EmptySet, Zenon
    <3> QED BY <2>1, <3>5
  <2>5. ASSUME NEW c \in Cpu, Owes(c, o) PROVE SwpUses(o) = 1
    <3>1. ~ OnList(freeSwp, o) /\ \A p \in Pid, g \in Page : pgd[p][g] # InSwp(o)
      BY <2>5 DEF SwapInv, SwapOnce
    <3>2. A = {} /\ B = {}
      BY <2>2, <3>1 DEF OnList
    <3>3. \A d \in Cpu : Owes(d, o) => d = c
      BY <2>5, Solo DEF Owes
    <3>4. H = {c}
      BY <2>5, <3>3
    <3> HIDE DEF A, B, H
    <3>5. Cardinality(A) = 0 /\ Cardinality(B) = 0 /\ Cardinality(H) = 1
      BY <3>2, <3>4, FS_Singleton, FS_EmptySet, Zenon
    <3> QED BY <2>1, <3>5
  <2> QED BY <2>3, <2>4, <2>5 DEF SwapInv, SwapSomewhere
<1>2. Spec => [](LockInv /\ SwapInv)
  BY LockInvariance, SwapInvariance, PTL
<1> QED BY Invariance, <1>1, <1>2, PTL

-----------------------------------------------------------------------------
(* The frames of the RAM.                                                  *)

\* The last page of the address space is never mapped.
LEMMA MappedBelow ==
  ASSUME IInv, NEW p \in Pid, NEW g \in Page, pgd[p][g] # Absent
  PROVE  g \in 0 .. NPage - 1
<1>1. NPage \in Page /\ NPage \in Nat /\ g \in Nat /\ g <= NPage
  BY Sizes DEF Page
<1>2. sbrk[p] <= NPage * PAGESZ
  <2>1. sbrk[p] \in 0 .. NPage * PAGESZ
    BY DEF IInv, Types
  <2> QED BY <2>1, Sizes
<1>3. pgd[p][NPage] = Absent
  BY <1>1, <1>2 DEF IInv, RegInv, AbsentInv, AbsentOf
<1> QED BY <1>1, <1>3

\* When the swap device is large enough there is a frame for every victim.
LEMMA SwapLeft ==
  ASSUME IInv, EnoughSwap, Sequential, LockInv, SwapInv, NEW c \in Cpu,
         op[c].pc = "frames", NEW p \in Pid, fifo[p] # <<>>
  PROVE  freeSwp # <<>>
<1> SUFFICES ASSUME freeSwp = <<>> PROVE FALSE
  OBVIOUS
<1> DEFINE Low == 0 .. NPage - 1
           All == Pid \X Low
           v == Victim(p)
           Used == All \ {<<p, v>>}
           h == [o \in SwpFrame |->
                  CHOOSE k \in Used : pgd[k[1]][k[2]] = InSwp(o)]
<1>1. v \in Page /\ pgd[p][v].st = "ram"
  BY VictimPage
<1>2. v \in Low
  <2>1. pgd[p][v] # Absent
    BY <1>1 DEF Absent
  <2> QED BY <1>1, <2>1, MappedBelow
<1> HIDE DEF v
<1>3. ASSUME NEW o \in SwpFrame
      PROVE  \E k \in Used : pgd[k[1]][k[2]] = InSwp(o)
  <2>1. ~ OnList(freeSwp, o)
    BY OnEmpty
  <2>2. PICK q \in Pid, g \in Page : pgd[q][g] = InSwp(o)
    <3>1. op[c] # NoOp /\ ~ Owes(c, o)
      BY UnderWay, NoneInHand, OwesNone DEF Pc
    <3> QED BY <2>1, <3>1, SwapFacts
  <2>3. pgd[q][g] # Absent /\ pgd[q][g].st = "swap"
    BY <2>2 DEF InSwp, Absent
  <2>4. g \in Low
    BY <2>3, MappedBelow
  <2>5. <<q, g>> # <<p, v>>
    BY <1>1, <2>3
  <2>6. <<q, g>> \in Used
    BY <2>4, <2>5
  <2> QED BY <2>2, <2>6
<1>4. \A o \in SwpFrame : h[o] \in Used /\ pgd[h[o][1]][h[o][2]] = InSwp(o)
  <2> HIDE DEF Used
  <2> TAKE o \in SwpFrame
  <2>1. h[o] = CHOOSE k \in Used : pgd[k[1]][k[2]] = InSwp(o)
    OBVIOUS
  <2> HIDE DEF h
  <2> QED BY <1>3, <2>1
<1>5. h \in [SwpFrame -> Used]
  <2> HIDE DEF Used
  <2>1. h = [o \in SwpFrame |-> h[o]]
    OBVIOUS
  <2> HIDE DEF h
  <2> QED BY <1>4, <2>1
<1> HIDE DEF h, Used
<1>6. h \in Injection(SwpFrame, Used)
  <2>1. \A x, y : InSwp(x) = InSwp(y) => x = y
    BY DEF InSwp
  <2>2. \A a, b \in SwpFrame : h[a] = h[b] => a = b
    BY <1>4, <2>1
  <2> QED BY <1>5, <2>2, Fun_IsInj
<1>7. NPage \in Nat \ {0} /\ NSwp \in Nat \ {0}
  BY Sizes
<1>8. IsFiniteSet(Low) /\ Cardinality(Low) = NPage
  <2>1. 0 \in Int /\ NPage - 1 \in Int
    BY <1>7
  <2>2. IsFiniteSet(Low) /\ Cardinality(Low) = IF 0 > NPage - 1 THEN 0 ELSE (NPage - 1) - 0 + 1
    BY <2>1, FS_Interval
  <2> QED BY <1>7, <2>2
<1>9. IsFiniteSet(SwpFrame) /\ Cardinality(SwpFrame) = NSwp
  <2>1. 0 \in Int /\ NSwp - 1 \in Int
    BY <1>7
  <2>2. IsFiniteSet(0 .. NSwp - 1)
        /\ Cardinality(0 .. NSwp - 1) = IF 0 > NSwp - 1 THEN 0 ELSE (NSwp - 1) - 0 + 1
    BY <2>1, FS_Interval
  <2> QED BY <1>7, <2>2 DEF SwpFrame
<1> HIDE DEF Low
<1>10. IsFiniteSet(Pid)
  BY DEF EnoughSwap
<1>11. IsFiniteSet(All) /\ Cardinality(All) = Cardinality(Pid) * NPage
  BY <1>8, <1>10, FS_Product
<1>12. <<p, v>> \in All
  BY <1>2
<1> HIDE DEF All
<1>13. IsFiniteSet(Used) /\ Cardinality(Used) = Cardinality(All) - 1
  BY <1>11, <1>12, FS_RemoveElement DEF Used
<1>14. Cardinality(SwpFrame) <= Cardinality(Used)
  BY <1>6, <1>13, FS_Injection
<1>15. Cardinality(Pid) \in Nat /\ Cardinality(Pid) * NPage \in Nat
  BY <1>7, <1>10, FS_CardinalityType
<1> QED BY <1>7, <1>9, <1>11, <1>13, <1>14, <1>15 DEF EnoughSwap

\* Only the CPU that has an instruction under way holds frames.
LEMMA FrameMove ==
  ASSUME Sequential, LockInv, NEW c \in Cpu, OpTypes(c), op[c] # NoOp,
         NoRepeat(freeRam'),
         \A f \in RamFrame, p \in Pid, g \in Page : pgd'[p][g] = InRam(f) =>
           /\ ~ OnList(freeRam', f)
           /\ op'[c] # NoOp => ~ OnList(op'[c].frm, f)
           /\ \A q \in Pid, h \in Page : pgd'[q][h] = InRam(f) => p = q /\ g = h,
         \A f \in RamFrame :
           op'[c] # NoOp /\ OnList(op'[c].frm, f) => ~ OnList(freeRam', f),
         \A f \in RamFrame : \/ OnList(freeRam', f)
                             \/ \E p \in Pid, g \in Page : pgd'[p][g] = InRam(f)
                             \/ op'[c] # NoOp /\ OnList(op'[c].frm, f),
         op'[c] # NoOp =>
           /\ NoRepeat(op'[c].frm) /\ (op'[c].frm # <<>> => op'[c].pc = "frames")
           /\ op'[c].peek # <<>> => op'[c].peek = freeRam' /\ Faulting(c)'
  PROVE  FrameInv'
<1>1. \A d \in Cpu \ {c} : op'[d] = NoOp
  BY Solo DEF OpTypes
<1>2. \A f \in RamFrame, d \in Cpu : Held(d, f)' <=> d = c /\ op'[c] # NoOp /\ OnList(op'[c].frm, f)
  BY <1>1 DEF Held, OnList
<1>3. FrameOnce'
  <2>1. NoRepeat(freeRam)'
    BY DEF NoRepeat
  <2>2. \A f : OnList(freeRam, f)' <=> OnList(freeRam', f)
    BY DEF OnList
  <2>3. \A f \in RamFrame, p \in Pid, g \in Page : (pgd[p][g] = InRam(f))' <=> pgd'[p][g] = InRam(f)
    BY DEF InRam
  <2> QED BY <1>2, <2>1, <2>2, <2>3 DEF FrameOnce
<1>4. FrameSomewhere'
  <2> SUFFICES ASSUME NEW f \in RamFrame
               PROVE  \/ OnList(freeRam', f)
                      \/ \E p \in Pid, g \in Page : pgd'[p][g] = InRam(f)
                      \/ \E d \in Cpu : Held(d, f)'
    BY DEF FrameSomewhere, OnList
  <2> QED BY <1>2
<1>5. WorkFrames'
  <2> SUFFICES ASSUME NEW d \in Cpu, op'[d] # NoOp
               PROVE  /\ NoRepeat(op'[d].frm)
                      /\ op'[d].frm # <<>> => op'[d].pc = "frames"
                      /\ op'[d].peek # <<>> => op'[d].peek = freeRam' /\ Faulting(d)'
    BY DEF WorkFrames, NoRepeat
  <2>1. d = c
    BY <1>1
  <2> QED BY <2>1
<1> QED BY <1>3, <1>4, <1>5 DEF FrameInv

\* Where the frames are before the step.
LEMMA FrameFacts ==
  ASSUME Sequential, LockInv, FrameInv, NEW c \in Cpu, op[c] # NoOp
  PROVE  /\ NoRepeat(freeRam) /\ NoRepeat(op[c].frm)
         /\ op[c].frm # <<>> => op[c].pc = "frames"
         /\ op[c].peek # <<>> => op[c].peek = freeRam /\ Faulting(c)
         /\ \A f \in RamFrame, p \in Pid, g \in Page : pgd[p][g] = InRam(f) =>
              /\ ~ OnList(freeRam, f) /\ ~ OnList(op[c].frm, f)
              /\ \A q \in Pid, h \in Page : pgd[q][h] = InRam(f) => p = q /\ g = h
         /\ \A f \in RamFrame : OnList(op[c].frm, f) => ~ OnList(freeRam, f)
         /\ \A f \in RamFrame : \/ OnList(freeRam, f)
                                \/ \E p \in Pid, g \in Page : pgd[p][g] = InRam(f)
                                \/ OnList(op[c].frm, f)
<1>1. \A d \in Cpu \ {c} : op[d] = NoOp
  BY Solo
<1>2. \A f \in RamFrame, d \in Cpu : Held(d, f) <=> d = c /\ OnList(op[c].frm, f)
  BY <1>1 DEF Held
<1> QED BY <1>2 DEF FrameInv, FrameOnce, FrameSomewhere, WorkFrames

\* The steps that move no frame.
LEMMA FrameStays ==
  ASSUME Sequential, LockInv, FrameInv, NEW c \in Cpu, OpTypes(c), op[c] # NoOp,
         op[c].pc # "frames", freeRam' = freeRam, pgd' = pgd,
         \/ op'[c] = NoOp
         \/ /\ op'[c].frm = op[c].frm
            /\ op'[c].peek # <<>> => op'[c].peek = freeRam' /\ Faulting(c)'
  PROVE  FrameInv'
<1>1. op[c].frm = <<>>
  BY FrameFacts
<1>2. op'[c] # NoOp => op'[c].frm = <<>>
  BY <1>1
<1>3. NoRepeat(<<>>) /\ \A f : ~ OnList(<<>>, f)
  BY DEF NoRepeat, OnList
<1>4. NoRepeat(freeRam')
  BY FrameFacts
<1>5. \A f \in RamFrame, p \in Pid, g \in Page : pgd'[p][g] = InRam(f) =>
        /\ ~ OnList(freeRam', f)
        /\ op'[c] # NoOp => ~ OnList(op'[c].frm, f)
        /\ \A q \in Pid, h \in Page : pgd'[q][h] = InRam(f) => p = q /\ g = h
  BY <1>2, <1>3, FrameFacts
<1>6. \A f \in RamFrame : \/ OnList(freeRam', f)
                          \/ \E p \in Pid, g \in Page : pgd'[p][g] = InRam(f)
  BY <1>1, <1>3, FrameFacts
<1> QED BY <1>2, <1>3, <1>4, <1>5, <1>6, FrameMove

\* A frame of the free list goes to alloc_pages_range.
LEMMA FrameTaken ==
  ASSUME IInv, Sequential, LockInv, FrameInv, NEW c \in Cpu, OpTypes(c), TakeFrame(c)
  PROVE  FrameInv'
<1>1. op[c].pc = "frames" /\ op[c] # NoOp /\ freeRam # <<>> /\ pgd' = pgd
  BY UnderWay DEF TakeFrame, Pc
<1>2. freeRam \in Seq(RamFrame) /\ op[c].frm \in Seq(RamFrame)
  BY <1>1, Current DEF IInv, Types
<1>3. PICK x \in RamFrame : x = Head(freeRam)
  BY <1>1, <1>2, OnTail
<1>4. /\ \A f : OnList(freeRam, f) <=> (f = x \/ OnList(freeRam', f))
      /\ NoRepeat(freeRam') /\ ~ OnList(freeRam', x)
  <2>1. freeRam' = Tail(freeRam) /\ NoRepeat(freeRam)
    BY <1>1, FrameFacts DEF TakeFrame
  <2> QED BY <1>1, <1>2, <1>3, <2>1, OnTail
<1>5. SameWork(c) /\ op'[c].frm = <<x>> \o op[c].frm /\ op'[c].peek = op[c].peek
  BY <1>1, <1>3, TakeFrameOp DEF TakeFrame
<1>6. op'[c] # NoOp /\ op'[c].pc = "frames" /\ op'[c].peek = <<>>
  <2>1. op[c].peek = <<>>
    BY <1>1, FrameFacts DEF Faulting, AtPage
  <2> QED BY <1>1, <1>5, <2>1 DEF SameWork, NoOp
<1>7. /\ \A f : OnList(op'[c].frm, f) <=> (f = x \/ OnList(op[c].frm, f))
      /\ NoRepeat(op'[c].frm)
  <2>1. ~ OnList(op[c].frm, x) /\ NoRepeat(op[c].frm)
    BY <1>1, <1>4, FrameFacts
  <2> QED BY <1>2, <1>5, <2>1, OnPut
<1>8. \A f \in RamFrame, p \in Pid, g \in Page : pgd'[p][g] = InRam(f) =>
        /\ ~ OnList(freeRam', f) /\ ~ OnList(op'[c].frm, f)
        /\ \A q \in Pid, h \in Page : pgd'[q][h] = InRam(f) => p = q /\ g = h
  BY <1>1, <1>4, <1>7, FrameFacts
<1>9. \A f \in RamFrame : OnList(op'[c].frm, f) => ~ OnList(freeRam', f)
  BY <1>1, <1>4, <1>7, FrameFacts
<1>10. \A f \in RamFrame : \/ OnList(freeRam', f)
                           \/ \E p \in Pid, g \in Page : pgd'[p][g] = InRam(f)
                           \/ OnList(op'[c].frm, f)
  BY <1>1, <1>4, <1>7, FrameFacts
<1> QED BY <1>1, <1>4, <1>6, <1>7, <1>8, <1>9, <1>10, FrameMove

\* The frame of the victim goes to alloc_pages_range.
LEMMA FrameSwappedOut ==
  ASSUME IInv, Sequential, LockInv, FrameInv, NEW c \in Cpu, OpTypes(c), SwapOut(c)
  PROVE  FrameInv'
<1>1. op[c].pc = "frames" /\ op[c] # NoOp /\ freeRam = <<>> /\ freeRam' = <<>>
  BY UnderWay DEF SwapOut, Pc
<1>2. PICK p \in Pid : p = op[c].pid
  BY <1>1, Current DEF IInv
<1>3. fifo[p] # <<>> /\ freeSwp # <<>>
  BY <1>2 DEF SwapOut
<1>4. PICK v \in Page, x \in RamFrame : v = Victim(p) /\ x = pgd[p][v].n /\ pgd[p][v] = InRam(x)
  BY <1>3, VictimPage
<1>5. PICK o \in SwpFrame : o = Head(freeSwp)
  BY <1>3, OnTail DEF IInv, Types
<1>6. /\ pgd'[p][v] = InSwp(o)
      /\ \A q \in Pid, h \in Page : (q = p /\ h = v) \/ pgd'[q][h] = pgd[q][h]
  <2>1. PICK y \in Pte : y = InSwp(o)
    BY DEF Pte
  <2>2. pgd' = [pgd EXCEPT ![p][v] = y]
    BY <1>2, <1>4, <1>5, <2>1 DEF SwapOut
  <2>3. /\ pgd'[p][v] = y
        /\ \A q \in Pid, h \in Page : (q = p /\ h = v) \/ pgd'[q][h] = pgd[q][h]
    BY <2>2 DEF IInv, Types
  <2> QED BY <2>1, <2>3
<1>7. op' = [op EXCEPT ![c].frm = <<x>> \o @]
  BY <1>2, <1>4 DEF SwapOut
<1>8. SameWork(c) /\ op'[c].frm = <<x>> \o op[c].frm /\ op'[c].peek = op[c].peek
  BY <1>1, <1>7, TakeFrameOp
<1>9. op'[c] # NoOp /\ op'[c].pc = "frames" /\ op'[c].peek = <<>>
  <2>1. op[c].peek = <<>>
    BY <1>1, FrameFacts DEF Faulting, AtPage
  <2> QED BY <1>1, <1>8, <2>1 DEF SameWork, NoOp
<1>10. pgd[p][v] = InRam(x)
  BY <1>4
<1>11. /\ \A f : OnList(op'[c].frm, f) <=> (f = x \/ OnList(op[c].frm, f))
       /\ NoRepeat(op'[c].frm)
  <2>1. ~ OnList(op[c].frm, x) /\ NoRepeat(op[c].frm)
    BY <1>1, <1>10, FrameFacts
  <2>2. op[c].frm \in Seq(RamFrame)
    BY <1>1, Current DEF IInv
  <2> QED BY <1>8, <2>1, <2>2, OnPut
<1>12. NoRepeat(freeRam') /\ \A f : ~ OnList(freeRam', f)
  BY <1>1 DEF NoRepeat, OnList
<1>13. /\ \A a, b : InSwp(a) # InRam(b)
       /\ \A a, b : InRam(a) = InRam(b) => a = b
  BY DEF InSwp, InRam
<1>14. \A f \in RamFrame, q \in Pid, h \in Page :
         pgd'[q][h] = InRam(f) <=> (pgd[q][h] = InRam(f) /\ f # x)
  <2> TAKE f \in RamFrame, q \in Pid, h \in Page
  <2>1. pgd[q][h] = InRam(x) => q = p /\ h = v
    BY <1>1, <1>10, FrameFacts
  <2> QED BY <1>10, <1>6, <1>13, <2>1
<1>15. \A f \in RamFrame, q \in Pid, h \in Page : pgd'[q][h] = InRam(f) =>
         /\ ~ OnList(freeRam', f) /\ ~ OnList(op'[c].frm, f)
         /\ \A q2 \in Pid, h2 \in Page : pgd'[q2][h2] = InRam(f) => q = q2 /\ h = h2
  BY <1>1, <1>11, <1>12, <1>14, FrameFacts
<1>16. \A f \in RamFrame : \/ OnList(freeRam', f)
                           \/ \E q \in Pid, h \in Page : pgd'[q][h] = InRam(f)
                           \/ OnList(op'[c].frm, f)
  <2> TAKE f \in RamFrame
  <2>1. ~ OnList(freeRam, f)
    BY <1>1, OnEmpty
  <2> QED BY <1>1, <1>11, <1>14, <2>1, FrameFacts
<1> QED BY <1>1, <1>9, <1>11, <1>12, <1>15, <1>16, FrameMove

\* alloc_pages_range fails and gives back what it has collected.
LEMMA FrameReturned ==
  ASSUME IInv, Sequential, LockInv, FrameInv, NEW c \in Cpu, OpTypes(c), NoVictim(c)
  PROVE  FrameInv'
<1>1. op[c].pc = "frames" /\ op[c] # NoOp /\ freeRam = <<>> /\ pgd' = pgd
  BY UnderWay DEF NoVictim, Pc
<1>2. op'[c] = NoOp
  BY EndStep DEF NoVictim, AllocFails
<1>3. op[c].frm \in Seq(RamFrame) /\ freeRam' = Reverse(op[c].frm) \o <<>>
  BY <1>1, Current DEF IInv, NoVictim, ReturnFrames
<1>4. /\ \A f : OnList(freeRam', f) <=> OnList(op[c].frm, f)
      /\ NoRepeat(freeRam')
  BY <1>1, <1>3, OnReturn, FrameFacts
<1>5. \A f \in RamFrame, p \in Pid, g \in Page : pgd'[p][g] = InRam(f) =>
        /\ ~ OnList(freeRam', f)
        /\ \A q \in Pid, h \in Page : pgd'[q][h] = InRam(f) => p = q /\ g = h
  BY <1>1, <1>4, FrameFacts
<1>6. \A f \in RamFrame : \/ OnList(freeRam', f)
                          \/ \E p \in Pid, g \in Page : pgd'[p][g] = InRam(f)
  <2> TAKE f \in RamFrame
  <2>1. ~ OnList(freeRam, f)
    BY <1>1, OnEmpty
  <2> QED BY <1>1, <1>4, <2>1, FrameFacts
<1> QED BY <1>1, <1>2, <1>4, <1>5, <1>6, FrameMove

\* The frames collected become the pages of the region.
LEMMA FrameMapped ==
  ASSUME IInv, Sequential, LockInv, FrameInv, NEW c \in Cpu, OpTypes(c), MapPages(c)
  PROVE  FrameInv'
<1>1. op[c].pc = "frames" /\ op[c] # NoOp /\ freeRam' = freeRam
  BY UnderWay DEF MapPages, memvars, Pc
<1>2. PICK p \in Pid, first \in Nat, n \in Nat, b \in Seq(RamFrame) :
        p = op[c].pid /\ first = op[c].start /\ n = op[c].n /\ b = op[c].frm
  BY <1>1, Current DEF IInv
<1>3. /\ Len(b) = n
      /\ \A g \in first .. first + n - 1 :
           /\ g \in Page /\ pgd[p][g] = Absent
           /\ g - first + 1 \in 1 .. n /\ b[g - first + 1] \in RamFrame
           /\ pgd'[p][g] = InRam(b[g - first + 1])
      /\ \A g \in Page : g \notin first .. first + n - 1 => pgd'[p][g] = pgd[p][g]
      /\ \A q \in Pid \ {p} : pgd'[q] = pgd[q]
  <2>1. p = op[c].pid
    BY <1>2
  <2>2. /\ Len(op[c].frm) = op[c].n
        /\ \A g \in op[c].start .. op[c].start + op[c].n - 1 :
              /\ g \in Page /\ pgd[p][g] = Absent
              /\ g - op[c].start + 1 \in 1 .. op[c].n
              /\ op[c].frm[g - op[c].start + 1] \in RamFrame
              /\ pgd'[p][g] = InRam(op[c].frm[g - op[c].start + 1])
        /\ \A g \in Page : g \notin op[c].start .. op[c].start + op[c].n - 1 =>
              pgd'[p][g] = pgd[p][g]
        /\ \A q \in Pid \ {p} : pgd'[q] = pgd[q]
    BY <2>1, MapEffect
  <2>3. first = op[c].start /\ n = op[c].n /\ b = op[c].frm
    BY <1>2
  <2> QED BY <2>2, <2>3
<1>4. op'[c].frm = <<>> /\ op'[c].peek = <<>>
  <2>1. op[c].peek = <<>>
    BY <1>1, FrameFacts DEF Faulting, AtPage
  <2> QED BY <1>1, <2>1, MappedOp DEF MapPages
<1>5. /\ \A f : ~ OnList(<<>>, f)
      /\ NoRepeat(<<>>)
  BY DEF OnList, NoRepeat
<1>6. /\ \A x, y : InRam(x) = InRam(y) => x = y
      /\ \A x : InRam(x) # Absent
  BY DEF InRam, Absent
<1>7. /\ NoRepeat(freeRam') /\ NoRepeat(b)
      /\ \A f \in RamFrame, q \in Pid, h \in Page : pgd[q][h] = InRam(f) =>
           /\ ~ OnList(freeRam', f) /\ ~ OnList(b, f)
           /\ \A q2 \in Pid, h2 \in Page : pgd[q2][h2] = InRam(f) => q = q2 /\ h = h2
      /\ \A f \in RamFrame : OnList(b, f) => ~ OnList(freeRam', f)
      /\ \A f \in RamFrame : \/ OnList(freeRam', f)
                             \/ \E q \in Pid, h \in Page : pgd[q][h] = InRam(f)
                             \/ OnList(b, f)
  <2>1. b = op[c].frm
    BY <1>2
  <2> QED BY <1>1, <2>1, FrameFacts
\* A new page has a frame of the list, the others what they had.
<1> DEFINE New(q, h) == q = p /\ h \in first .. first + n - 1
<1>8. ASSUME NEW f \in RamFrame, NEW q \in Pid, NEW h \in Page
      PROVE  pgd'[q][h] = InRam(f) <=>
               IF New(q, h) THEN f = b[h - first + 1] ELSE pgd[q][h] = InRam(f)
  BY <1>3, <1>6
<1>9. ASSUME NEW q \in Pid, NEW h \in Page, New(q, h)
      PROVE  OnList(b, b[h - first + 1])
  BY <1>3, <1>9 DEF OnList
<1>10. ASSUME NEW f \in RamFrame, OnList(b, f)
       PROVE  \E h \in Page : New(p, h) /\ f = b[h - first + 1]
  <2>1. PICK k \in 1 .. n : b[k] = f
    BY <1>3, <1>10 DEF OnList
  <2> DEFINE h == first + k - 1
  <2>2. h \in first .. first + n - 1 /\ h - first + 1 = k
    OBVIOUS
  <2> HIDE DEF h
  <2>3. h \in Page
    BY <1>3, <2>2
  <2> QED BY <2>1, <2>2, <2>3
<1>11. ASSUME NEW q \in Pid, NEW h \in Page, NEW q2 \in Pid, NEW h2 \in Page,
              New(q, h), New(q2, h2), b[h - first + 1] = b[h2 - first + 1]
       PROVE  q = q2 /\ h = h2
  <2>1. h - first + 1 \in 1 .. Len(b) /\ h2 - first + 1 \in 1 .. Len(b)
    BY <1>3, <1>11
  <2>2. h - first + 1 = h2 - first + 1
    BY <1>7, <1>11, <2>1 DEF NoRepeat
  <2> QED BY <1>11, <2>2
<1> HIDE DEF New
<1>12. ASSUME NEW f \in RamFrame, NEW q \in Pid, NEW h \in Page, pgd'[q][h] = InRam(f)
       PROVE  /\ ~ OnList(freeRam', f)
              /\ \A q2 \in Pid, h2 \in Page : pgd'[q2][h2] = InRam(f) => q = q2 /\ h = h2
  <2>1. CASE New(q, h)
    <3>1. f = b[h - first + 1] /\ OnList(b, f)
      BY <1>8, <1>9, <1>12, <2>1
    <3>2. ~ OnList(freeRam', f) /\ \A q2 \in Pid, h2 \in Page : pgd[q2][h2] # InRam(f)
      BY <1>7, <3>1
    <3> QED BY <1>8, <1>11, <2>1, <3>1, <3>2
  <2>2. CASE ~ New(q, h)
    <3>1. pgd[q][h] = InRam(f)
      BY <1>8, <1>12, <2>2
    <3>2. ~ OnList(freeRam', f) /\ ~ OnList(b, f)
      BY <1>7, <3>1
    <3> QED BY <1>7, <1>8, <1>9, <3>1, <3>2
  <2> QED BY <2>1, <2>2
<1>13. ASSUME NEW f \in RamFrame
       PROVE  \/ OnList(freeRam', f)
              \/ \E q \in Pid, h \in Page : pgd'[q][h] = InRam(f)
  <2>1. CASE OnList(b, f)
    BY <1>8, <1>10, <2>1
  <2>2. ASSUME NEW q \in Pid, NEW h \in Page, pgd[q][h] = InRam(f)
        PROVE  pgd'[q][h] = InRam(f)
    <3>1. ~ New(q, h)
      BY <1>3, <1>6, <2>2 DEF New
    <3> QED BY <1>8, <2>2, <3>1
  <2> QED BY <1>7, <2>1, <2>2
<1> QED BY <1>1, <1>4, <1>5, <1>7, <1>12, <1>13, FrameMove

\* The first free frame holds the page that comes back from the swap.
LEMMA FrameSwappedIn ==
  ASSUME IInv, Sequential, LockInv, FrameInv, NEW c \in Cpu, OpTypes(c), SwapIn(c)
  PROVE  FrameInv'
<1>1. op[c] # NoOp /\ op[c].pc # "frames"
  BY AtPageUnderWay DEF SwapIn, Faulting, AtPage
<1>2. PICK p \in Pid, g \in Page : p = op[c].pid /\ g = Page0(c)
  BY <1>1, Current DEF IInv
<1>3. freeRam # <<>> /\ op[c].peek = freeRam /\ op[c].frm = <<>>
  BY <1>1, FrameFacts DEF SwapIn
<1>4. freeRam \in Seq(RamFrame)
  BY DEF IInv, Types
<1>5. PICK x \in RamFrame : x = Head(freeRam)
  BY <1>3, <1>4, OnTail
<1>6. /\ freeRam' = Tail(freeRam) /\ pgd' = [pgd EXCEPT ![p][g] = InRam(x)]
      /\ pgd[p][g].st = "swap"
  BY <1>2, <1>3, <1>5 DEF SwapIn, Faulting
<1>7. /\ pgd'[p][g] = InRam(x)
      /\ \A q \in Pid, h \in Page : (q = p /\ h = g) \/ pgd'[q][h] = pgd[q][h]
  <2>1. PICK y \in Pte : y = InRam(x)
    BY DEF Pte
  <2>2. pgd' = [pgd EXCEPT ![p][g] = y]
    BY <1>6, <2>1
  <2>3. /\ pgd'[p][g] = y
        /\ \A q \in Pid, h \in Page : (q = p /\ h = g) \/ pgd'[q][h] = pgd[q][h]
    BY <2>2 DEF IInv, Types
  <2> QED BY <2>1, <2>3
<1>8. op'[c].frm = <<>> /\ op'[c].peek = <<>>
  BY <1>3, SwapInWork
<1>9. /\ \A f : OnList(freeRam, f) <=> (f = x \/ OnList(freeRam', f))
      /\ NoRepeat(freeRam') /\ ~ OnList(freeRam', x)
  <2>1. NoRepeat(freeRam)
    BY <1>1, FrameFacts
  <2> QED BY <1>3, <1>4, <1>5, <1>6, <2>1, OnTail
<1>10. NoRepeat(<<>>) /\ \A f : ~ OnList(<<>>, f)
  BY DEF OnList, NoRepeat
<1>11. \A a, b : InRam(a) = InRam(b) => a = b
  BY DEF InRam
<1>12. \A f \in RamFrame : pgd[p][g] # InRam(f)
  BY <1>6 DEF InRam
<1>13. \A f \in RamFrame, q \in Pid, h \in Page :
         pgd'[q][h] = InRam(f) <=> (pgd[q][h] = InRam(f) \/ (q = p /\ h = g /\ f = x))
  BY <1>7, <1>11, <1>12
<1>14. /\ \A q \in Pid, h \in Page : pgd[q][h] # InRam(x)
       /\ \A f \in RamFrame, q \in Pid, h \in Page : pgd[q][h] = InRam(f) =>
            /\ ~ OnList(freeRam', f)
            /\ \A q2 \in Pid, h2 \in Page : pgd[q2][h2] = InRam(f) => q = q2 /\ h = h2
  BY <1>1, <1>9, FrameFacts
<1>15. ASSUME NEW f \in RamFrame, NEW q \in Pid, NEW h \in Page, pgd'[q][h] = InRam(f)
       PROVE  /\ ~ OnList(freeRam', f)
              /\ \A q2 \in Pid, h2 \in Page : pgd'[q2][h2] = InRam(f) => q = q2 /\ h = h2
  BY <1>9, <1>13, <1>14, <1>15
<1>16. \A f \in RamFrame : \/ OnList(freeRam', f)
                           \/ \E q \in Pid, h \in Page : pgd'[q][h] = InRam(f)
  <2> TAKE f \in RamFrame
  <2>1. OnList(freeRam, f) \/ \E q \in Pid, h \in Page : pgd[q][h] = InRam(f)
    BY <1>1, <1>3, <1>10, FrameFacts
  <2> QED BY <1>9, <1>13, <2>1
<1> QED BY <1>1, <1>8, <1>9, <1>10, <1>15, <1>16, FrameMove

\* The frame of a page that is freed goes to the free list.
LEMMA FrameFreed ==
  ASSUME IInv, Sequential, LockInv, FrameInv, NEW c \in Cpu, OpTypes(c), FreePage(c)
  PROVE  FrameInv'
<1>1. op[c].pc = "free" /\ op[c] # NoOp
  BY UnderWay DEF FreePage, Pc
<1>2. PICK p \in Pid, g \in Page : p = op[c].pid /\ g = Page0(c)
  BY <1>1, Current DEF IInv
<1>3. pgd[p][g].st = "ram"
  BY <1>2 DEF FreePage
<1>4. PICK x \in RamFrame : x = pgd[p][g].n /\ pgd[p][g] = InRam(x)
  BY <1>3, PteFacts DEF IInv
<1>5. pgd[p][g] = InRam(x)
  BY <1>4
<1>6. freeRam' = <<x>> \o freeRam /\ pgd' = [pgd EXCEPT ![p][g] = Absent]
  BY <1>2, <1>4 DEF FreePage, PutFrame
<1>7. op[c].frm = <<>> /\ op[c].peek = <<>>
  <2>1. ~ Faulting(c)
    BY <1>2, <1>3 DEF Faulting
  <2> QED BY <1>1, <2>1, FrameFacts
<1>8. op'[c] # NoOp => op'[c].frm = <<>> /\ op'[c].peek = <<>>
  <2>1. CASE IsLast(c)
    BY <2>1, EndStep DEF FreePage
  <2>2. CASE ~ IsLast(c)
    BY <1>1, <1>7, <2>2, NextPageOp DEF FreePage
  <2> QED BY <2>1, <2>2
<1>9. /\ pgd'[p][g] = Absent
      /\ \A q \in Pid, h \in Page : (q = p /\ h = g) \/ pgd'[q][h] = pgd[q][h]
  BY <1>6 DEF IInv, Types
<1>10. /\ \A f : OnList(freeRam', f) <=> (f = x \/ OnList(freeRam, f))
       /\ NoRepeat(freeRam')
  <2>1. NoRepeat(freeRam) /\ ~ OnList(freeRam, x)
    BY <1>1, <1>5, FrameFacts
  <2>2. freeRam \in Seq(RamFrame)
    BY DEF IInv, Types
  <2> QED BY <1>6, <2>1, <2>2, OnPut
<1>11. NoRepeat(<<>>) /\ \A f : ~ OnList(<<>>, f)
  BY DEF OnList, NoRepeat
<1>12. /\ \A a, b : InRam(a) = InRam(b) => a = b
       /\ \A a : InRam(a) # Absent
  BY DEF InRam, Absent
<1>13. \A f \in RamFrame, q \in Pid, h \in Page :
         pgd'[q][h] = InRam(f) <=> (pgd[q][h] = InRam(f) /\ f # x)
  <2> TAKE f \in RamFrame, q \in Pid, h \in Page
  <2>1. pgd[q][h] = InRam(x) => q = p /\ h = g
    BY <1>1, <1>5, FrameFacts
  <2> QED BY <1>5, <1>9, <1>12, <2>1
<1>14. \A f \in RamFrame, q \in Pid, h \in Page : pgd'[q][h] = InRam(f) =>
         /\ ~ OnList(freeRam', f)
         /\ \A q2 \in Pid, h2 \in Page : pgd'[q2][h2] = InRam(f) => q = q2 /\ h = h2
  BY <1>1, <1>10, <1>13, FrameFacts
<1>15. \A f \in RamFrame : \/ OnList(freeRam', f)
                           \/ \E q \in Pid, h \in Page : pgd'[q][h] = InRam(f)
  <2> TAKE f \in RamFrame
  <2>1. OnList(freeRam, f) \/ \E q \in Pid, h \in Page : pgd[q][h] = InRam(f)
    BY <1>1, <1>7, <1>11, FrameFacts
  <2> QED BY <1>10, <1>13, <2>1
<1> QED BY <1>1, <1>8, <1>10, <1>11, <1>14, <1>15, FrameMove

LEMMA FrameStart ==
  ASSUME IInv, FrameInv, NEW c \in Cpu, OpTypes(c), Start(c)
  PROVE  FrameInv'
<1>1. /\ pgd' = pgd /\ freeRam' = freeRam /\ op[c] = NoOp
      /\ op'[c] = NoOp \/ (op'[c].frm = <<>> /\ op'[c].peek = <<>>)
      /\ \A d \in Cpu \ {c} : op'[d] = op[d]
  BY StartFrames DEF OpTypes, EmptyHands
<1>2. NoRepeat(<<>>) /\ \A f : ~ OnList(<<>>, f)
  BY DEF OnList, NoRepeat
<1>3. \A f \in RamFrame, d \in Cpu : Held(d, f)' <=> Held(d, f)
  <2> TAKE f \in RamFrame, d \in Cpu
  <2>1. Held(d, f)' <=> op'[d] # NoOp /\ OnList(op'[d].frm, f)
    BY DEF Held, OnList
  <2> QED BY <1>1, <1>2, <2>1 DEF Held
<1>4. FrameOnce'
  BY <1>1, <1>3 DEF FrameInv, FrameOnce, OnList, NoRepeat, InRam
<1>5. FrameSomewhere'
  BY <1>1, <1>3 DEF FrameInv, FrameSomewhere, OnList, InRam
<1>6. WorkFrames'
  <2> SUFFICES ASSUME NEW d \in Cpu, op'[d] # NoOp
               PROVE  /\ NoRepeat(op'[d].frm)
                      /\ op'[d].frm # <<>> => op'[d].pc = "frames"
                      /\ op'[d].peek # <<>> => op'[d].peek = freeRam' /\ Faulting(d)'
    BY DEF WorkFrames, NoRepeat
  <2>1. CASE d = c
    BY <1>1, <1>2, <2>1
  <2>2. CASE d # c
    <3>1. op'[d] = op[d]
      BY <1>1, <2>2
    <3>2. Faulting(d) => Faulting(d)'
      BY <1>1, <3>1 DEF Faulting, AtPage, Page0
    <3> QED BY <1>1, <3>1, <3>2 DEF FrameInv, WorkFrames
  <2> QED BY <2>1, <2>2
<1> QED BY <1>4, <1>5, <1>6 DEF FrameInv

LEMMA FrameNext ==
  Sequential /\ EnoughSwap /\ IInv /\ LockInv /\ SwapInv /\ FrameInv /\ [Next]_vars
    => FrameInv'
<1>1. ASSUME Sequential, EnoughSwap, IInv, LockInv, SwapInv, FrameInv, Next PROVE FrameInv'
  <2> USE <1>1
  <2>1. PICK c \in Cpu : Start(c) \/ Step(c)
    BY DEF Next
  <2>2. OpTypes(c)
    BY <2>1, RegionsNext
  <2>3. CASE Start(c)
    BY <2>2, <2>3, FrameStart
  <2>4. ~ NoSwap(c)
    <3> SUFFICES ASSUME NoSwap(c) PROVE FALSE
      OBVIOUS
    <3>1. op[c] # NoOp
      BY UnderWay DEF NoSwap, Pc
    <3>2. /\ op[c].pid \in Pid /\ fifo[op[c].pid] # <<>> /\ freeSwp = <<>>
          /\ op[c].pc = "frames"
      BY <3>1, Current DEF IInv, NoSwap
    <3> QED BY <3>2, SwapLeft
  <2>5. CASE CachePage(c)
    <3>1. op[c].pc = "cache" /\ op[c] # NoOp /\ pgd' = pgd /\ freeRam' = freeRam
      BY <2>5, UnderWay DEF CachePage, Pc, memvars
    <3>2. op[c].peek = <<>>
      <4>1. ~ Faulting(c)
        BY <2>5 DEF CachePage, Faulting
      <4> QED BY <3>1, <4>1, FrameFacts
    <3>3. op'[c] = NoOp \/ (op'[c].frm = op[c].frm /\ op'[c].peek = <<>>)
      <4>1. CASE IsLast(c)
        BY <2>5, <4>1, EndStep DEF CachePage
      <4>2. CASE ~ IsLast(c)
        BY <2>5, <3>1, <3>2, <4>2, NextPageOp DEF CachePage
      <4> QED BY <4>1, <4>2
    <3> QED BY <2>2, <3>1, <3>3, FrameStays
  <2>6. CASE FaultPeek(c)
    <3>1. op[c] # NoOp /\ op[c].pc # "frames" /\ pgd' = pgd /\ freeRam' = freeRam
      BY <2>6, AtPageUnderWay DEF FaultPeek, Faulting, AtPage, memvars
    <3>2. SameWork(c) /\ op'[c].frm = op[c].frm /\ op'[c].peek = freeRam
      BY <2>6, <3>1, PeekOp DEF FaultPeek, IInv, Types
    <3>3. Faulting(c)'
      BY <2>6, <3>1, <3>2 DEF FaultPeek, Faulting, AtPage, Page0, SameWork
    <3> QED BY <2>2, <3>1, <3>2, <3>3, FrameStays
  <2>7. CASE FaultFails(c) \/ PageAbsent(c)
    <3>1. op[c] # NoOp /\ op[c].pc # "frames" /\ pgd' = pgd /\ freeRam' = freeRam
      BY <2>7, AtPageUnderWay DEF FaultFails, PageAbsent, Faulting, AtPage, memvars
    <3>2. op'[c] = NoOp
      BY <2>7, EndStep DEF FaultFails, PageAbsent
    <3> QED BY <2>2, <3>1, <3>2, FrameStays
  <2>8. CASE WritePage(c) \/ ReadPage(c)
    <3>1. op[c] # NoOp /\ op[c].pc # "frames" /\ pgd' = pgd /\ freeRam' = freeRam
      BY <2>8, UnderWay DEF WritePage, ReadPage, memvars, Pc
    <3>2. op'[c] = NoOp
      BY <2>8, EndStep DEF WritePage, ReadPage
    <3> QED BY <2>2, <3>1, <3>2, FrameStays
  <2>9. CASE SwapPeek(c) \/ SwapBack(c)
    <3>1. /\ op[c] # NoOp /\ op[c].pc # "frames" /\ op'[c].frm = op[c].frm
          /\ op'[c].peek = op[c].peek /\ pgd' = pgd /\ freeRam' = freeRam
          /\ op[c].back \in SwpFrame
      BY <2>9, SwapPeekWork, SwapBackWork
    <3>2. op[c].peek = <<>>
      <4>1. ~ Faulting(c)
        BY <3>1, NoFrameOut DEF Faulting, AtPage
      <4> QED BY <3>1, <4>1, FrameFacts
    <3> QED BY <2>2, <3>1, <3>2, FrameStays
  <2> QED BY <2>1, <2>2, <2>3, <2>4, <2>5, <2>6, <2>7, <2>8, <2>9, FrameTaken, FrameSwappedOut,
             FrameReturned, FrameMapped, FrameSwappedIn, FrameFreed DEF Step
<1>2. ASSUME FrameInv, UNCHANGED vars PROVE FrameInv'
  <2>1. op' = op /\ pgd' = pgd /\ freeRam' = freeRam
    BY <1>2 DEF vars, memvars
  <2> QED BY <1>2, <2>1 DEF FrameInv, FrameOnce, FrameSomewhere, WorkFrames, Held, OnList,
                            NoRepeat, Faulting, AtPage, Page0, InRam
<1> QED BY <1>1, <1>2

LEMMA FrameInit == Init => FrameInv
<1> SUFFICES ASSUME Init PROVE FrameInv
  OBVIOUS
<1>1. /\ op = [c \in Cpu |-> NoOp] /\ pgd = [p \in Pid |-> [g \in Page |-> Absent]]
      /\ freeRam = [k \in 1 .. NRam |-> k - 1] /\ NRam \in Nat \ {0}
  BY Sizes DEF Init, Formatted
<1>2. Len(freeRam) = NRam
  BY <1>1
<1>3. \A k \in 1 .. NRam : freeRam[k] = k - 1
  BY <1>1
<1>4. NoRepeat(freeRam)
  BY <1>1, <1>2, <1>3 DEF NoRepeat
<1>5. \A f \in RamFrame : OnList(freeRam, f)
  <2> TAKE f \in RamFrame
  <2>1. f + 1 \in 1 .. NRam /\ (f + 1) - 1 = f
    BY <1>1 DEF RamFrame
  <2> QED BY <1>2, <1>3, <2>1 DEF OnList
<1>6. \A f \in RamFrame, p \in Pid, g \in Page : pgd[p][g] # InRam(f)
  BY <1>1 DEF Absent, InRam
<1>7. \A c \in Cpu : op[c] = NoOp
  BY <1>1
<1> QED BY <1>4, <1>5, <1>6, <1>7 DEF FrameInv, FrameOnce, FrameSomewhere, WorkFrames, Held

LEMMA FrameInvariance == Sequential /\ EnoughSwap => (Spec => []FrameInv)
<1> SUFFICES ASSUME Sequential, EnoughSwap PROVE Spec => []FrameInv
  OBVIOUS
<1>1. IInv /\ (LockInv /\ SwapInv) /\ FrameInv /\ [Next]_vars => FrameInv'
  BY FrameNext
<1>2. Spec => [](LockInv /\ SwapInv)
  BY LockInvariance, SwapInvariance, PTL
<1> QED BY Invariance, FrameInit, <1>1, <1>2, PTL DEF Spec

\* A frame of the RAM is never lost and never used twice: it is on the free
\* list, or holds one page of one process, or is in the hands of one
\* alloc_pages_range, if no READ, which takes no lock, runs beside another
\* instruction, and if alloc_pages_range never misses a swap frame, when it
\* puts an uninitialised number on the free list instead.
THEOREM FramesAccounted ==
  Sequential /\ EnoughSwap => (Spec => []FramesConserved)
<1> SUFFICES ASSUME Sequential, EnoughSwap PROVE Spec => []FramesConserved
  OBVIOUS
<1>1. ASSUME IInv, LockInv, FrameInv PROVE FramesConserved
  <2> USE <1>1
  <2> SUFFICES ASSUME NEW f \in RamFrame PROVE RamUses(f) = 1
    BY DEF FramesConserved
  <2> DEFINE A == {i \in DOMAIN freeRam : freeRam[i] = f}
             B == {k \in Pid \X Page : pgd[k[1]][k[2]] = InRam(f)}
             H == {c \in Cpu : op[c] # NoOp /\ f \in ToSet(op[c].frm)}
  <2>1. RamUses(f) = Cardinality(A) + Cardinality(B) + Cardinality(H)
    BY DEF RamUses
  <2>2. DOMAIN freeRam = 1 .. Len(freeRam) /\ NoRepeat(freeRam)
    BY DEF IInv, Types, FrameInv, FrameOnce
  <2>3. H = {c \in Cpu : Held(c, f)}
    <3>1. \A c \in Cpu : op[c] # NoOp => DOMAIN op[c].frm = 1 .. Len(op[c].frm)
      BY Current DEF IInv
    <3> QED BY <3>1 DEF Held, OnList, ToSet
  <2> HIDE DEF H
  <2>4. CASE OnList(freeRam, f)
    <3>1. PICK k \in 1 .. Len(freeRam) : freeRam[k] = f
      BY <2>4 DEF OnList
    <3>2. A = {k}
      BY <2>2, <3>1 DEF NoRepeat
    <3>3. B = {} /\ H = {}
      BY <2>3, <2>4 DEF FrameInv, FrameOnce
    <3> HIDE DEF A, B
    <3>4. Cardinality(A) = 1 /\ Cardinality(B) = 0 /\ Cardinality(H) = 0
      BY <3>2, <3>3, FS_Singleton, FS_EmptySet, Zenon
    <3> QED BY <2>1, <3>4
  <2>5. ASSUME NEW p \in Pid, NEW g \in Page, pgd[p][g] = InRam(f)
        PROVE  RamUses(f) = 1
    <3>1. /\ ~ OnList(freeRam, f) /\ \A c \in Cpu : ~ Held(c, f)
          /\ \A q \in Pid, h \in Page : pgd[q][h] = InRam(f) => p = q /\ g = h
      BY <2>5 DEF FrameInv, FrameOnce
    <3>2. A = {} /\ H = {}
      BY <2>2, <2>3, <3>1 DEF OnList
    <3>3. \A k \in Pid \X Page : pgd[k[1]][k[2]] = InRam(f) => k = <<p, g>>
      <4> TAKE k \in Pid \X Page
      <4> HAVE pgd[k[1]][k[2]] = InRam(f)
      <4>1. k[1] = p /\ k[2] = g
        BY <3>1
      <4> QED BY <4>1
    <3>4. B = {<<p, g>>}
      BY <2>5, <3>3
    <3> HIDE DEF A, B
    <3>5. Cardinality(A) = 0 /\ Cardinality(B) = 1 /\ Cardinality(H) = 0
      BY <3>2, <3>4, FS_Singleton, FS_EmptySet, Zenon
    <3> QED BY <2>1, <3>5
  <2>6. ASSUME NEW c \in Cpu, Held(c, f) PROVE RamUses(f) = 1
    <3>1. ~ OnList(freeRam, f) /\ \A p \in Pid, g \in Page : pgd[p][g] # InRam(f)
      BY <2>6 DEF FrameInv, FrameOnce
    <3>2. A = {} /\ B = {}
      BY <2>2, <3>1 DEF OnList
    <3>3. \A d \in Cpu : Held(d, f) => d = c
      BY <2>6, Solo DEF Held
    <3>4. H = {c}
      BY <2>3, <2>6, <3>3
    <3> HIDE DEF A, B
    <3>5. Cardinality(A) = 0 /\ Cardinality(B) = 0 /\ Cardinality(H) = 1
      BY <3>2, <3>4, FS_Singleton, FS_EmptySet, Zenon
    <3> QED BY <2>1, <3>5
  <2> QED BY <2>4, <2>5, <2>6 DEF FrameInv, FrameSomewhere
<1>2. Spec => [](LockInv /\ FrameInv)
  BY LockInvariance, FrameInvariance, PTL
<1> QED BY Invariance, <1>1, <1>2, PTL

-----------------------------------------------------------------------------
(* The data of the pages.                                                  *)

\* DataIntegrity, page by page.
DataInv ==
  \A p \in Pid, g \in Page : <<p, g>> \in written =>
    /\ pgd[p][g] # Absent
    /\ \A f \in RamFrame : pgd[p][g] = InRam(f) => ram[f] = <<p, g>>
    /\ \A o \in SwpFrame : pgd[p][g] = InSwp(o) => swp[o] = <<p, g>>

LEMMA PteKinds ==
  /\ \A x, y : InRam(x) = InRam(y) => x = y
  /\ \A x, y : InSwp(x) = InSwp(y) => x = y
  /\ \A x, y : InRam(x) # InSwp(y)
  /\ \A x : InRam(x) # Absent /\ InSwp(x) # Absent
BY DEF InRam, InSwp, Absent

\* The victim is copied to the swap device, to a frame no page has.
LEMMA DataSwappedOut ==
  ASSUME IInv, SwapInv, DataInv, NEW c \in Cpu, SwapOut(c)
  PROVE  DataInv'
<1>1. op[c].pc = "frames" /\ op[c] # NoOp
  BY UnderWay DEF SwapOut, Pc
<1>2. PICK p \in Pid : p = op[c].pid
  BY <1>1, Current DEF IInv
<1>3. fifo[p] # <<>> /\ freeSwp # <<>>
  BY <1>2 DEF SwapOut
<1>4. PICK v \in Page, x \in RamFrame : v = Victim(p) /\ x = pgd[p][v].n /\ pgd[p][v] = InRam(x)
  BY <1>3, VictimPage
<1>5. PICK o \in SwpFrame : o = Head(freeSwp)
  BY <1>3, OnTail DEF IInv, Types
<1>6. /\ pgd' = [pgd EXCEPT ![p][v] = InSwp(o)] /\ swp' = [swp EXCEPT ![o] = ram[x]]
      /\ ram' = ram /\ written' = written
  BY <1>2, <1>4, <1>5 DEF SwapOut, CopyOut
<1>7. pgd[p][v] = InRam(x)
  BY <1>4
<1>8. /\ pgd'[p][v] = InSwp(o)
      /\ \A q \in Pid, h \in Page : (q = p /\ h = v) \/ pgd'[q][h] = pgd[q][h]
  <2>1. PICK y \in Pte : y = InSwp(o)
    BY DEF Pte
  <2>2. pgd' = [pgd EXCEPT ![p][v] = y]
    BY <1>6, <2>1
  <2>3. /\ pgd'[p][v] = y
        /\ \A q \in Pid, h \in Page : (q = p /\ h = v) \/ pgd'[q][h] = pgd[q][h]
    BY <2>2 DEF IInv, Types
  <2> QED BY <2>1, <2>3
<1>9. swp'[o] = ram[x] /\ \A o2 \in SwpFrame : o2 = o \/ swp'[o2] = swp[o2]
  BY <1>6 DEF IInv, Types
<1>10. \A q \in Pid, h \in Page : pgd[q][h] # InSwp(o)
  <2>1. OnList(freeSwp, o)
    BY <1>3, <1>5, OnTail DEF IInv, Types
  <2> QED BY <2>1 DEF SwapInv, SwapOnce
<1>11. ASSUME NEW q \in Pid, NEW h \in Page, <<q, h>> \in written'
       PROVE  /\ pgd'[q][h] # Absent
              /\ \A f \in RamFrame : pgd'[q][h] = InRam(f) => ram'[f] = <<q, h>>
              /\ \A o2 \in SwpFrame : pgd'[q][h] = InSwp(o2) => swp'[o2] = <<q, h>>
  <2>1. /\ pgd[q][h] # Absent
        /\ \A f \in RamFrame : pgd[q][h] = InRam(f) => ram[f] = <<q, h>>
        /\ \A o2 \in SwpFrame : pgd[q][h] = InSwp(o2) => swp[o2] = <<q, h>>
    BY <1>6, <1>11 DEF DataInv
  <2>2. CASE q = p /\ h = v
    <3>1. ram[x] = <<q, h>>
      BY <1>7, <2>1, <2>2
    <3>2. pgd'[q][h] = InSwp(o) /\ swp'[o] = <<q, h>>
      BY <1>8, <1>9, <2>2, <3>1
    <3> QED BY <3>2, PteKinds
  <2>3. CASE ~ (q = p /\ h = v)
    <3>1. pgd'[q][h] = pgd[q][h]
      BY <1>8, <2>3
    <3>2. \A o2 \in SwpFrame : pgd[q][h] = InSwp(o2) => swp'[o2] = swp[o2]
      BY <1>9, <1>10
    <3> QED BY <1>6, <2>1, <3>1, <3>2
  <2> QED BY <2>2, <2>3
<1> QED BY <1>11 DEF DataInv, InRam, InSwp, Absent

\* A page comes back from the swap, into a frame no page has.
LEMMA DataSwappedIn ==
  ASSUME IInv, Sequential, LockInv, FrameInv, DataInv, NEW c \in Cpu, SwapIn(c)
  PROVE  DataInv'
<1>1. op[c] # NoOp
  BY AtPageUnderWay DEF SwapIn, Faulting
<1>2. PICK p \in Pid, g \in Page : p = op[c].pid /\ g = Page0(c)
  BY <1>1, Current DEF IInv
<1>3. freeRam # <<>> /\ op[c].peek = freeRam /\ freeRam \in Seq(RamFrame)
  BY <1>1, FrameFacts DEF SwapIn, IInv, Types
<1>4. PICK x \in RamFrame : x = Head(freeRam)
  BY <1>3, OnTail
<1>5. pgd[p][g].st = "swap"
  BY <1>2 DEF SwapIn, Faulting
<1>6. PICK o \in SwpFrame : o = pgd[p][g].n /\ pgd[p][g] = InSwp(o)
  BY <1>5, PteFacts DEF IInv
<1>7. /\ pgd' = [pgd EXCEPT ![p][g] = InRam(x)] /\ ram' = [ram EXCEPT ![x] = swp[o]]
      /\ swp' = swp /\ written' = written
  BY <1>2, <1>3, <1>4, <1>6 DEF SwapIn
<1>8. /\ pgd'[p][g] = InRam(x)
      /\ \A q \in Pid, h \in Page : (q = p /\ h = g) \/ pgd'[q][h] = pgd[q][h]
  <2>1. PICK y \in Pte : y = InRam(x)
    BY DEF Pte
  <2>2. pgd' = [pgd EXCEPT ![p][g] = y]
    BY <1>7, <2>1
  <2>3. /\ pgd'[p][g] = y
        /\ \A q \in Pid, h \in Page : (q = p /\ h = g) \/ pgd'[q][h] = pgd[q][h]
    BY <2>2 DEF IInv, Types
  <2> QED BY <2>1, <2>3
<1>9. ram'[x] = swp[o] /\ \A f \in RamFrame : f = x \/ ram'[f] = ram[f]
  BY <1>7 DEF IInv, Types
<1>10. \A q \in Pid, h \in Page : pgd[q][h] # InRam(x)
  <2>1. OnList(freeRam, x)
    BY <1>3, <1>4, OnTail
  <2> QED BY <1>1, <2>1, FrameFacts
<1>11. pgd[p][g] = InSwp(o)
  BY <1>6
<1>12. ASSUME NEW q \in Pid, NEW h \in Page, <<q, h>> \in written'
       PROVE  /\ pgd'[q][h] # Absent
              /\ \A f \in RamFrame : pgd'[q][h] = InRam(f) => ram'[f] = <<q, h>>
              /\ \A o2 \in SwpFrame : pgd'[q][h] = InSwp(o2) => swp'[o2] = <<q, h>>
  <2>1. /\ pgd[q][h] # Absent
        /\ \A f \in RamFrame : pgd[q][h] = InRam(f) => ram[f] = <<q, h>>
        /\ \A o2 \in SwpFrame : pgd[q][h] = InSwp(o2) => swp[o2] = <<q, h>>
    BY <1>7, <1>12 DEF DataInv
  <2>2. CASE q = p /\ h = g
    <3>1. swp[o] = <<q, h>>
      BY <1>11, <2>1, <2>2
    <3>2. pgd'[q][h] = InRam(x) /\ ram'[x] = <<q, h>>
      BY <1>8, <1>9, <2>2, <3>1
    <3> QED BY <3>2, PteKinds
  <2>3. CASE ~ (q = p /\ h = g)
    <3>1. pgd'[q][h] = pgd[q][h]
      BY <1>8, <2>3
    <3>2. \A f \in RamFrame : pgd[q][h] = InRam(f) => ram'[f] = ram[f]
      BY <1>9, <1>10
    <3> QED BY <1>7, <2>1, <3>1, <3>2
  <2> QED BY <2>2, <2>3
<1> QED BY <1>12 DEF DataInv, InRam, InSwp, Absent

\* Pages that are mapped anew or freed are no longer counted as written, and
\* the others stay where they are.
LEMMA DataUntouched ==
  ASSUME DataInv, ram' = ram, swp' = swp, written' \subseteq written,
         \A q \in Pid, h \in Page : <<q, h>> \in written' => pgd'[q][h] = pgd[q][h]
  PROVE  DataInv'
<1>1. ASSUME NEW q \in Pid, NEW h \in Page, <<q, h>> \in written'
      PROVE  /\ pgd'[q][h] # Absent
             /\ \A f \in RamFrame : pgd'[q][h] = InRam(f) => ram'[f] = <<q, h>>
             /\ \A o \in SwpFrame : pgd'[q][h] = InSwp(o) => swp'[o] = <<q, h>>
  BY <1>1 DEF DataInv
<1> QED BY <1>1 DEF DataInv, InRam, InSwp, Absent

LEMMA DataMapped ==
  ASSUME IInv, DataInv, NEW c \in Cpu, MapPages(c)
  PROVE  DataInv'
<1>1. op[c] # NoOp /\ ram' = ram /\ swp' = swp
  BY UnderWay DEF MapPages, memvars, Pc
<1>2. PICK p \in Pid : p = op[c].pid
  BY <1>1, Current DEF IInv
<1> DEFINE new == op[c].start .. op[c].start + op[c].n - 1
<1>3. /\ \A g \in Page : g \notin new => pgd'[p][g] = pgd[p][g]
      /\ \A q \in Pid \ {p} : pgd'[q] = pgd[q]
  BY <1>2, MapEffect
<1>4. written' = written \ ({p} \X new)
  BY <1>2 DEF MapPages
<1> HIDE DEF new
<1>5. \A q \in Pid, h \in Page : <<q, h>> \in written' => pgd'[q][h] = pgd[q][h]
  BY <1>3, <1>4
<1>6. written' \subseteq written
  BY <1>4
<1> QED BY <1>1, <1>5, <1>6, DataUntouched

LEMMA DataFreed ==
  ASSUME IInv, DataInv, NEW c \in Cpu, FreePage(c)
  PROVE  DataInv'
<1>1. op[c] # NoOp /\ ram' = ram /\ swp' = swp
  BY UnderWay DEF FreePage, Pc
<1>2. PICK p \in Pid, g \in Page : p = op[c].pid /\ g = Page0(c)
  BY <1>1, Current DEF IInv
<1>3. pgd' = [pgd EXCEPT ![p][g] = Absent] /\ written' = written \ {<<p, g>>}
  BY <1>2 DEF FreePage
<1>4. \A q \in Pid, h \in Page : (q = p /\ h = g) \/ pgd'[q][h] = pgd[q][h]
  BY <1>3 DEF IInv, Types
<1>5. \A q \in Pid, h \in Page : <<q, h>> \in written' => pgd'[q][h] = pgd[q][h]
  BY <1>3, <1>4
<1>6. written' \subseteq written
  BY <1>3
<1> QED BY <1>1, <1>5, <1>6, DataUntouched

\* A byte is written to the frame of the page, which no other page has.
LEMMA DataWritten ==
  ASSUME IInv, FrameInv, DataInv, NEW p \in Pid, NEW g \in Page, NEW x \in RamFrame,
         pgd[p][g] = InRam(x), WriteByte(p, g, x), pgd' = pgd, swp' = swp
  PROVE  DataInv'
<1>1. ram'[x] = <<p, g>> /\ \A f \in RamFrame : f = x \/ ram'[f] = ram[f]
  BY DEF WriteByte, IInv, Types
<1>2. written' = written \cup {<<p, g>>}
  BY DEF WriteByte
<1>3. \A q \in Pid, h \in Page : pgd[q][h] = InRam(x) => q = p /\ h = g
  BY DEF FrameInv, FrameOnce
<1>4. ASSUME NEW q \in Pid, NEW h \in Page, <<q, h>> \in written'
      PROVE  /\ pgd'[q][h] # Absent
             /\ \A f \in RamFrame : pgd'[q][h] = InRam(f) => ram'[f] = <<q, h>>
             /\ \A o \in SwpFrame : pgd'[q][h] = InSwp(o) => swp'[o] = <<q, h>>
  <2>1. CASE q = p /\ h = g
    BY <1>1, <2>1, PteKinds
  <2>2. CASE ~ (q = p /\ h = g)
    <3>1. <<q, h>> \in written
      BY <1>2, <1>4, <2>2
    <3>2. /\ pgd[q][h] # Absent
          /\ \A f \in RamFrame : pgd[q][h] = InRam(f) => ram[f] = <<q, h>>
          /\ \A o \in SwpFrame : pgd[q][h] = InSwp(o) => swp[o] = <<q, h>>
      BY <3>1 DEF DataInv
    <3>3. \A f \in RamFrame : pgd[q][h] = InRam(f) => ram'[f] = ram[f]
      BY <1>1, <1>3, <2>2
    <3> QED BY <3>2, <3>3
  <2> QED BY <2>1, <2>2
<1> QED BY <1>4 DEF DataInv, InRam, InSwp, Absent

\* A step that writes no frame and no page table.
DataSame == pgd' = pgd /\ ram' = ram /\ swp' = swp /\ written' = written

LEMMA DataStart ==
  ASSUME IInv, FrameInv, DataInv, NEW c \in Cpu, Start(c)
  PROVE  DataInv'
<1>1. ASSUME NEW p \in Pid, BadRegion(c, p) \/ AllocZero(c, p) PROVE DataSame
  BY <1>1 DEF BadRegion, AllocZero, memvars, DataSame
<1>2. ASSUME NEW p \in Pid, NEW rg \in Rg, Free(c, p, rg) PROVE DataSame
  BY <1>2 DEF Free, memvars, DataSame
<1>3. ASSUME NEW p \in Pid, NEW rg \in Rg, NEW sz \in 1 .. MaxSize, Alloc(c, p, rg, sz)
      PROVE  DataSame
  BY <1>3 DEF Alloc, memvars, DataSame
<1>4. ASSUME NEW p \in Pid, NEW rg \in Rg, NEW off \in 0 .. MaxSize,
             \/ WriteMiss(c, p, rg, off) \/ ReadMiss(c, p, rg, off)
             \/ ReadOutOfRange(c, p, rg, off)
      PROVE  DataSame
  BY <1>4 DEF WriteMiss, ReadMiss, ReadOutOfRange, memvars, DataSame
<1>5. ASSUME NEW p \in Pid, NEW rg \in Rg, NEW off \in 0 .. MaxSize, WriteHit(c, p, rg, off)
      PROVE  DataInv'
  <2>1. PICK g : g = PageAt(p, rg, off)
    OBVIOUS
  <2>2. g \in Page
    BY <1>5, <2>1, AddressPage DEF WriteHit, IInv
  <2>3. tlb[<<p, g>>] # Miss /\ WriteByte(p, g, tlb[<<p, g>>]) /\ pgd' = pgd /\ swp' = swp
    BY <1>5, <2>1 DEF WriteHit
  <2>4. PICK x \in RamFrame : x = tlb[<<p, g>>]
    BY <2>2, <2>3 DEF IInv, Types
  <2>5. pgd[p][g] = InRam(x)
    BY <2>2, <2>3, <2>4 DEF IInv, TlbInv, TlbCoherent
  <2> QED BY <2>2, <2>3, <2>4, <2>5, DataWritten
<1>6. DataSame => DataInv'
  BY DataUntouched DEF DataSame
<1> QED BY <1>1, <1>2, <1>3, <1>4, <1>5, <1>6 DEF Start

LEMMA DataNext ==
  Sequential /\ IInv /\ LockInv /\ SwapInv /\ FrameInv /\ DataInv /\ [Next]_vars
    => DataInv'
<1>1. ASSUME Sequential, IInv, LockInv, SwapInv, FrameInv, DataInv, Next PROVE DataInv'
  <2> USE <1>1
  <2>1. PICK c \in Cpu : Start(c) \/ Step(c)
    BY DEF Next
  <2>2. CASE WritePage(c)
    <3>1. op[c] # NoOp
      BY <2>2, UnderWay DEF WritePage, Pc
    <3>2. PICK p \in Pid, g \in Page : p = op[c].pid /\ g = Page0(c)
      BY <3>1, Current DEF IInv
    <3>3. pgd[p][g].st = "ram" /\ WriteByte(p, g, pgd[p][g].n) /\ pgd' = pgd /\ swp' = swp
      BY <2>2, <3>2 DEF WritePage
    <3>4. PICK x \in RamFrame : x = pgd[p][g].n /\ pgd[p][g] = InRam(x)
      BY <3>3, PteFacts DEF IInv
    <3> QED BY <3>3, <3>4, DataWritten
  <2>3. CASE \/ TakeFrame(c) \/ NoVictim(c) \/ NoSwap(c) \/ CachePage(c)
             \/ FaultPeek(c) \/ SwapPeek(c) \/ SwapBack(c)
             \/ FaultFails(c) \/ PageAbsent(c) \/ ReadPage(c)
    <3>1. DataSame
      BY <2>3 DEF TakeFrame, NoVictim, NoSwap, CachePage, FaultPeek, SwapPeek, SwapBack,
                  FaultFails, PageAbsent, ReadPage, memvars, DataSame
    <3> QED BY <3>1, DataUntouched DEF DataSame
  <2> QED BY <2>1, <2>2, <2>3, DataStart, DataSwappedOut, DataSwappedIn, DataMapped, DataFreed
          DEF Step
<1>2. DataInv /\ UNCHANGED vars => DataInv'
  BY DataUntouched DEF vars, memvars
<1> QED BY <1>1, <1>2

\* What was written to a page is in the frame, of the RAM or of the swap
\* device, that the page table names, through any number of evictions and
\* page faults, under the hypotheses of FramesAccounted.
THEOREM DataKept == Sequential /\ EnoughSwap => (Spec => []DataIntegrity)
<1> SUFFICES ASSUME Sequential, EnoughSwap PROVE Spec => []DataIntegrity
  OBVIOUS
<1>1. Init => DataInv
  BY DEF Init, DataInv
<1>2. IInv /\ (LockInv /\ SwapInv /\ FrameInv) /\ DataInv /\ [Next]_vars => DataInv'
  BY DataNext
<1>3. Spec => [](LockInv /\ SwapInv /\ FrameInv)
  BY LockInvariance, SwapInvariance, FrameInvariance, PTL
<1>4. Spec => []DataInv
  BY Invariance, <1>1, <1>2, <1>3, PTL DEF Spec
<1>5. ASSUME IInv, DataInv PROVE DataIntegrity
  <2> SUFFICES ASSUME NEW k \in written
               PROVE  LET pte == pgd[k[1]][k[2]]
                      IN  /\ pte.st # "absent"
                          /\ (IF pte.st = "ram" THEN ram[pte.n] ELSE swp[pte.n]) = k
    BY DEF DataIntegrity
  <2>1. PICK p \in Pid, g \in Page : k = <<p, g>>
    BY <1>5 DEF IInv, Types
  <2>2. /\ pgd[p][g] # Absent
        /\ \A f \in RamFrame : pgd[p][g] = InRam(f) => ram[f] = k
        /\ \A o \in SwpFrame : pgd[p][g] = InSwp(o) => swp[o] = k
    BY <1>5, <2>1 DEF DataInv
  <2>3. pgd[p][g].st = "ram" \/ pgd[p][g].st = "swap"
    BY <1>5, <2>2, PteFacts DEF IInv
  <2>4. /\ pgd[p][g].st = "ram" => ram[pgd[p][g].n] = k
        /\ pgd[p][g].st = "swap" => swp[pgd[p][g].n] = k
    BY <1>5, <2>2, PteFacts DEF IInv
  <2> QED BY <2>1, <2>3, <2>4
<1> QED BY Invariance, <1>4, <1>5, PTL

-----------------------------------------------------------------------------
(* The system with the slot barrier.                                       *)

\* A CPU in an instruction has been called and has not arrived at the barrier.
SlotInv ==
  /\ Clock!TypeOK /\ called \subseteq Cpu
  /\ \A c \in called : phase[c] = "running"
  /\ \A c \in Cpu : op[c] # NoOp => c \in called

LEMMA SysStep == [SysNext]_sysvars => [Next]_vars
<1>1. ASSUME EndSlot PROVE UNCHANGED vars
  BY <1>1 DEF EndSlot
<1>2. ASSUME NEW c \in Cpu, CpuRoutine(c) PROVE [Next]_vars
  <2>1. CASE Calc(c) \/ Call(c) \/ Reject(c)
    BY <2>1 DEF Calc, Call, Reject
  <2>2. CASE Execute(c) \/ Proceed(c)
    BY <2>2 DEF Execute, Proceed, Next
  <2> QED BY <1>2, <2>1, <2>2 DEF CpuRoutine
<1>3. UNCHANGED sysvars => UNCHANGED vars
  BY DEF sysvars
<1> QED BY <1>1, <1>2, <1>3 DEF SysNext

\* Whatever the barrier lets the CPUs do, memory sees a behaviour of module
\* Paging, so that everything proved of Paging holds for the system.
THEOREM SystemIsPaging == SysSpec => Spec
<1>1. SysInit => Init
  BY DEF SysInit
<1> QED BY <1>1, SysStep, PTL DEF SysSpec, Spec

LEMMA Arrives ==
  ASSUME SlotInv, NEW c \in Cpu, Clock!Arrive(c)
  PROVE  /\ Clock!TypeOK' /\ phase'[c] = "waiting"
         /\ \A d \in Cpu \ {c} : phase'[d] = phase[d]
BY DEF SlotInv, Clock!Arrive, Clock!TypeOK, Clock!Phase

LEMMA SlotNext == IInv /\ SlotInv /\ [SysNext]_sysvars => SlotInv'
<1>1. ASSUME IInv, SlotInv, EndSlot PROVE SlotInv'
  <2>1. /\ called' = called /\ op' = op
        /\ \A c \in Cpu : phase[c] # "running"
        /\ Clock!TypeOK'
    BY <1>1 DEF EndSlot, Clock!EndSlot, Clock!Tick, Clock!Advance, SlotInv, Clock!TypeOK,
                Clock!Phase, vars
  <2>2. called = {}
    BY <1>1, <2>1 DEF SlotInv
  <2> QED BY <1>1, <2>1, <2>2 DEF SlotInv
<1>2. ASSUME IInv, SlotInv, NEW c \in Cpu, CpuRoutine(c) PROVE SlotInv'
  <2> USE <1>2
  <2>1. ASSUME c \in called, Return(c), \A d \in Cpu \ {c} : op'[d] = op[d] PROVE SlotInv'
    <3>1. CASE op'[c] = NoOp
      <4>1. called' = called \ {c} /\ Clock!Arrive(c)
        BY <2>1, <3>1 DEF Return
      <4> QED BY <2>1, <3>1, <4>1, Arrives DEF SlotInv
    <3>2. CASE op'[c] # NoOp
      <4>1. called' = called /\ time' = time /\ phase' = phase
        BY <2>1, <3>2 DEF Return, slotvars
      <4> QED BY <2>1, <4>1 DEF SlotInv, Clock!TypeOK
    <3> QED BY <3>1, <3>2
  <2>2. CASE Calc(c)
    <3>1. c \notin called /\ Clock!Arrive(c) /\ called' = called /\ op' = op
      BY <2>2 DEF Calc, vars
    <3> QED BY <3>1, Arrives DEF SlotInv
  <2>3. CASE Call(c)
    <3>1. /\ phase[c] = "running" /\ called' = called \cup {c} /\ op' = op
          /\ time' = time /\ phase' = phase
      BY <2>3 DEF Call, vars
    <3> QED BY <3>1 DEF SlotInv, Clock!TypeOK
  <2>4. CASE Reject(c)
    BY <2>1, <2>4 DEF Reject, vars
  <2>5. CASE Execute(c) \/ Proceed(c)
    <3>1. c \in called /\ (Start(c) \/ Step(c)) /\ Return(c)
      BY <2>5 DEF Execute, Proceed
    <3>2. OpTypes(c)
      BY <3>1, RegionsNext
    <3> QED BY <2>1, <3>1, <3>2 DEF OpTypes
  <2> QED BY <2>2, <2>3, <2>4, <2>5 DEF CpuRoutine
<1>3. ASSUME SlotInv, UNCHANGED sysvars PROVE SlotInv'
  BY <1>3 DEF SlotInv, sysvars, slotvars, vars, Clock!TypeOK
<1> QED BY <1>1, <1>2, <1>3 DEF SysNext

LEMMA SlotInvariance == SysSpec => [](IInv /\ SlotInv)
<1>1. SysInit => SlotInv
  BY DEF SysInit, Init, SlotInv, Clock!Init, Clock!TypeOK, Clock!Phase
<1>2. SysSpec => []IInv
  BY SystemIsPaging, Invariance, PTL
<1> QED BY <1>1, <1>2, SlotNext, PTL DEF SysSpec

\* Types of the whole system: the memory's, the barrier's, and the CPUs that
\* are in an instruction.
THEOREM SysTypeCorrect == SysSpec => []SysTypeOK
<1>1. IInv /\ SlotInv => SysTypeOK
  BY InvTypeOK DEF SysTypeOK, SlotInv
<1> QED BY <1>1, SlotInvariance, PTL

\* No memory instruction goes on beyond its slot: the timer begins a new slot
\* only when every CPU is between instructions, and it is the CPU's return from
\* run() that makes it so.
NoneAcrossSlots == [][EndSlot => \A c \in Cpu : op[c] = NoOp]_sysvars

\* NoneAcrossSlots holds for any number of CPUs, READ and every failure
\* included: a CPU in an instruction has not arrived at the barrier.
THEOREM SlotsHoldInstructions == SysSpec => NoneAcrossSlots
<1> DEFINE Whole == EndSlot => \A c \in Cpu : op[c] = NoOp
<1>1. IInv /\ SlotInv /\ [SysNext]_sysvars => [Whole]_sysvars
  BY DEF EndSlot, Clock!EndSlot, Clock!Tick, SlotInv
<1> HIDE DEF Whole
<1>2. SysSpec => [][Whole]_sysvars
  BY <1>1, SlotInvariance, PTL DEF SysSpec
<1> QED BY <1>2 DEF Whole, NoneAcrossSlots

\* Under the barrier no frame is lost or shared, on the hypotheses of
\* FramesAccounted.
THEOREM SystemFrames == Sequential /\ EnoughSwap => (SysSpec => []FramesConserved)
BY SystemIsPaging, FramesAccounted, PTL

\* Under the barrier no written data is lost, on the same hypotheses.
THEOREM SystemData == Sequential /\ EnoughSwap => (SysSpec => []DataIntegrity)
BY SystemIsPaging, DataKept, PTL
=============================================================================
