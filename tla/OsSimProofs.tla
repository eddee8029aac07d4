---------------------------- MODULE OsSimProofs ----------------------------
(***************************************************************************)
(* Proofs about the dispatcher for every number of CPUs, processes and     *)
(* priorities and every configuration: no process is lost, duplicated or   *)
(* used after it is freed, and none runs twice in a slot.                  *)
(***************************************************************************)
EXTENDS OsSim, TLAPS

-----------------------------------------------------------------------------
(* The inductive invariant adds to OnePlace what the control state says    *)
(* about the current process: during get_proc there is none, so that the   *)
(* dequeue overwrites nothing.                                             *)

ScanInv == \A c \in CPU :
  /\ cpc[c] \in {"check", "checkslot", "slot", "deq", "lock", "refill"} =>
       proc[c] = NULL
  /\ cpc[c] = "run" => proc[c] # NULL

\* The scan stays inside the array of queues.
IndexInv == \A c \in CPU :
  /\ cpc[c] \in {"check", "checkslot", "slot", "deq"} => gi[c] < MAX_PRIO
  /\ cpc[c] = "check" => gj[c] <= gi[c]
  /\ cpc[c] = "checkslot" => gj[c] < gi[c]

\* A process that has run in this slot is still on the CPU that ran it, and
\* that CPU waits for the next slot.
RanInv == \A p \in ran : \E c \in CPU : proc[c] = p /\ phase[c] = "waiting"

\* Only loaded processes are ever freed.
FreedInv == freed \subseteq Loaded

IInv == TypeOK /\ ScanInv /\ IndexInv /\ OnePlace /\ RanInv /\ FreedInv

USE BoundAssumption
    DEF Proc, NULL, Level, Device, SlotsOf

-----------------------------------------------------------------------------
LEMMA InitIInv == Init => IInv
<1> SUFFICES ASSUME Init PROVE IInv
  OBVIOUS
<1> USE DEF Init
<1>1. TypeOK
  <2>1. ClockType /\ ReadyType
    BY DEF ClockType, ReadyType, Clock!Init, Free
  <2>2. ProcType /\ HistoryType
    BY DEF ProcType, HistoryType
  <2>3. /\ first \in [CPU -> BOOLEAN]
        /\ flag \in [CPU -> BOOLEAN]
        /\ done \in BOOLEAN
        /\ exited \in BOOLEAN
    BY Zenon
  <2>4. CpuType
    BY <2>3 DEF CpuType, CpuPc
  <2>5. ScanType /\ LdType
    BY <2>3 DEF ScanType, LdType
  <2> QED BY <2>1, <2>2, <2>4, <2>5 DEF TypeOK
<1>2. ScanInv /\ IndexInv /\ RanInv
  BY DEF ScanInv, IndexInv, RanInv
<1>3. OnePlace /\ FreedInv
  BY DEF OnePlace, QueuedOnce, Entry, HeldOnce, Loaded, Held, Queued, FreedInv
<1> QED BY <1>1, <1>2, <1>3 DEF IInv

\* Steps that leave the queues and the current processes alone.
LEMMA FrameOnePlace ==
  ASSUME OnePlace, UNCHANGED <<queue, proc, freed, i, exited>>
  PROVE  OnePlace'
<1>1. /\ queue' = queue /\ proc' = proc /\ freed' = freed
      /\ Loaded' = Loaded /\ (exited' <=> exited)
  BY DEF Loaded
<1>2. \A p : (Held(p)' <=> Held(p)) /\ (Queued(p)' <=> Queued(p))
  BY <1>1 DEF Held, Queued
<1>3. (QueuedOnce' <=> QueuedOnce) /\ (HeldOnce' <=> HeldOnce)
  BY <1>1, <1>2 DEF QueuedOnce, Entry, HeldOnce
<1> QED BY <1>1, <1>2, <1>3 DEF OnePlace

\* The scan of get_mlq_proc stays inside the array of queues.
LEMMA ScanIndex ==
  ASSUME NEW c \in CPU,
         gi \in [CPU -> 0..MAX_PRIO], gj \in [CPU -> 0..MAX_PRIO],
         cpc \in [CPU -> CpuPc], IndexInv,
         \/ CheckEmpty(c) \/ CheckSlot(c) \/ TestEmpty(c) \/ TestSlot(c)
         \/ LockSlots(c) \/ RefillSlot(c)
  PROVE  /\ gi' \in [CPU -> 0..MAX_PRIO] /\ gj' \in [CPU -> 0..MAX_PRIO]
         /\ IndexInv'
<1>1. CASE CheckEmpty(c)
  <2>1. gi' \in [CPU -> 0..MAX_PRIO] /\ gj' \in [CPU -> 0..MAX_PRIO]
    BY <1>1 DEF CheckEmpty
  <2>2. IndexInv'
    BY <1>1 DEF CheckEmpty, IndexInv
  <2> QED BY <2>1, <2>2
<1>2. CASE CheckSlot(c)
  BY <1>2 DEF CheckSlot, ScanFrom, IndexInv
<1>3. CASE TestEmpty(c)
  <2>1. gi' \in [CPU -> 0..MAX_PRIO] /\ gj' \in [CPU -> 0..MAX_PRIO]
    BY <1>3 DEF TestEmpty, ScanFrom, IndexInv
  <2>2. IndexInv'
    BY <1>3 DEF TestEmpty, ScanFrom, IndexInv
  <2> QED BY <2>1, <2>2
<1>4. CASE TestSlot(c)
  BY <1>4 DEF TestSlot, ScanFrom, IndexInv, scanv
<1>5. CASE LockSlots(c)
  BY <1>5 DEF LockSlots, IndexInv
<1>6. CASE RefillSlot(c)
  BY <1>6 DEF RefillSlot, ScanFrom, IndexInv
<1> QED BY <1>1, <1>2, <1>3, <1>4, <1>5, <1>6

LEMMA ScanIInv ==
  ASSUME IInv, NEW c \in CPU,
         \/ CheckEmpty(c) \/ CheckSlot(c) \/ TestEmpty(c) \/ TestSlot(c)
         \/ LockSlots(c) \/ RefillSlot(c)
  PROVE  IInv'
<1> USE DEF IInv
<1>1. UNCHANGED <<time, phase, queue, pc, freed, first, proc, time_left, i,
                  done, exited, since, ran>>
  BY DEF CheckEmpty, CheckSlot, TestEmpty, TestSlot, LockSlots, RefillSlot,
         clockv, readyv, procv, ldv
<1>2. OnePlace'
  BY <1>1, FrameOnePlace
<1>3. RanInv' /\ FreedInv'
  BY <1>1 DEF RanInv, FreedInv, Loaded
<1>4. ScanInv'
  <2>1. proc[c] = NULL
    BY DEF ScanInv, CheckEmpty, CheckSlot, TestEmpty, TestSlot, LockSlots,
           RefillSlot
  <2>2. \A d \in CPU \ {c} : cpc'[d] = cpc[d]
    BY DEF TypeOK, CpuType, CheckEmpty, CheckSlot, TestEmpty, TestSlot, LockSlots,
           RefillSlot, ScanFrom
  <2>3. cpc'[c] # "run"
    BY DEF TypeOK, CpuType, CheckEmpty, CheckSlot, TestEmpty, TestSlot, LockSlots,
           RefillSlot, ScanFrom
  <2> QED BY <1>1, <2>1, <2>2, <2>3 DEF ScanInv
<1>5. ClockType' /\ ProcType' /\ LdType' /\ HistoryType'
  BY <1>1 DEF TypeOK, ClockType, ProcType, LdType, HistoryType
<1>6. /\ gi \in [CPU -> 0..MAX_PRIO] /\ gj \in [CPU -> 0..MAX_PRIO]
      /\ cpc \in [CPU -> CpuPc] /\ slot \in [Level -> Int]
      /\ queue_lock \in Device
  BY DEF TypeOK, ReadyType, CpuType, ScanType
<1>7. flag' \in [CPU -> BOOLEAN]
  BY DEF TypeOK, ScanType, CheckEmpty, CheckSlot, TestEmpty, TestSlot,
         LockSlots, RefillSlot, scanv
<1>8. slot' \in [Level -> Int] /\ queue_lock' \in Device
  BY <1>6 DEF CheckEmpty, CheckSlot, TestEmpty, TestSlot, LockSlots, RefillSlot,
              readyv, Free
<1>9. cpc' \in [CPU -> CpuPc]
  BY <1>6 DEF CheckEmpty, CheckSlot, TestEmpty, TestSlot, LockSlots, RefillSlot,
              ScanFrom, CpuPc
<1>10. /\ gi' \in [CPU -> 0..MAX_PRIO] /\ gj' \in [CPU -> 0..MAX_PRIO]
       /\ IndexInv'
  BY <1>6, ScanIndex
<1>11. ReadyType' /\ CpuType' /\ ScanType'
  BY <1>1, <1>7, <1>8, <1>9, <1>10 DEF TypeOK, ReadyType, CpuType, ScanType
<1> QED BY <1>2, <1>3, <1>4, <1>5, <1>10, <1>11 DEF TypeOK

-----------------------------------------------------------------------------
(* What the dequeue and the enqueue do to a queue.                         *)

LEMMA TailFacts ==
  ASSUME NEW S, NEW s \in Seq(S), s # <<>>
  PROVE  /\ Head(s) = s[1] /\ Head(s) \in S
         /\ Tail(s) \in Seq(S) /\ Len(s) \in Nat \ {0}
         /\ Len(Tail(s)) = Len(s) - 1
         /\ \A k \in 1..Len(Tail(s)) : k + 1 \in 1..Len(s) /\ Tail(s)[k] = s[k + 1]
OBVIOUS

LEMMA AppendFacts ==
  ASSUME NEW S, NEW s \in Seq(S), NEW e \in S
  PROVE  /\ Append(s, e) \in Seq(S) /\ Len(s) \in Nat
         /\ Len(Append(s, e)) = Len(s) + 1
         /\ Append(s, e)[Len(s) + 1] = e
         /\ \A k \in 1..Len(s) : Append(s, e)[k] = s[k]
OBVIOUS

\* A CPU that holds nothing takes the first process of a queue.
LEMMA TakeOnePlace ==
  ASSUME queue \in [Level -> Seq(Proc)], proc \in [CPU -> Proc \cup {NULL}],
         OnePlace, ~exited,
         NEW c \in CPU, proc[c] = NULL,
         NEW l \in Level, queue[l] # <<>>,
         proc' = [proc EXCEPT ![c] = Head(queue[l])],
         queue' = [queue EXCEPT ![l] = Tail(@)],
         UNCHANGED <<freed, i>>
  PROVE  OnePlace'
<1> DEFINE p == Head(queue[l])
<1>1. /\ p = queue[l][1] /\ p \in Proc /\ Len(queue[l]) \in Nat \ {0}
      /\ Len(queue'[l]) = Len(queue[l]) - 1
      /\ \A k \in 1..Len(queue'[l]) :
           k + 1 \in 1..Len(queue[l]) /\ queue'[l][k] = queue[l][k + 1]
  BY TailFacts
<1>2. \A m \in Level : Len(queue[m]) \in Nat
  OBVIOUS
<1>3. \A m \in Level \ {l} : queue'[m] = queue[m]
  OBVIOUS
<1>4. Loaded' = Loaded /\ freed' = freed
  BY DEF Loaded
<1>5. QueuedOnce /\ HeldOnce /\ \A q \in Loaded \ freed : Held(q) \/ Queued(q)
  BY DEF OnePlace
<1>6. /\ p \in Loaded \ freed /\ prio[p] = l /\ ~Held(p)
      /\ \A k \in 1..Len(queue[l]) : queue[l][k] = p => k = 1
  BY <1>1, <1>5 DEF QueuedOnce, Entry, Held
<1>7. \A q \in Proc : Held(q)' <=> Held(q) \/ q = p
  BY DEF Held
<1>8. \A m \in Level : \A k \in 1..Len(queue'[m]) :
        \E n \in 1..Len(queue[m]) :
          /\ queue'[m][k] = queue[m][n]
          /\ n = IF m = l THEN k + 1 ELSE k
  BY <1>1, <1>2, <1>3
<1>9. \A m \in Level : \A k \in 1..Len(queue'[m]) : queue'[m][k] # p
  <2> SUFFICES ASSUME NEW m \in Level, NEW k \in 1..Len(queue'[m])
               PROVE  queue'[m][k] # p
    OBVIOUS
  <2>1. CASE m = l
    BY <2>1, <1>1, <1>6
  <2>2. CASE m # l
    BY <2>2, <1>2, <1>3, <1>5, <1>6, SMTT(30) DEF QueuedOnce, Entry
  <2> QED BY <2>1, <2>2
<1>10. QueuedOnce'
  <2> SUFFICES ASSUME NEW m \in Level, NEW k \in 1..Len(queue'[m])
               PROVE  Entry(m, k)'
    BY DEF QueuedOnce
  <2>1. PICK n \in 1..Len(queue[m]) :
          /\ queue'[m][k] = queue[m][n]
          /\ n = IF m = l THEN k + 1 ELSE k
    BY <1>8
  <2>2. Entry(m, n)
    BY <1>5 DEF QueuedOnce
  <2>3. \A d \in CPU : proc'[d] # queue'[m][k]
    BY <1>9, <2>1, <2>2 DEF Entry
  <2>4. ASSUME NEW j \in 1..Len(queue'[m]), queue'[m][j] = queue'[m][k]
        PROVE  j = k
    <3>1. PICK o \in 1..Len(queue[m]) :
            /\ queue'[m][j] = queue[m][o]
            /\ o = IF m = l THEN j + 1 ELSE j
      BY <1>8, SMTT(30)
    <3>2. o = n
      BY <2>1, <2>2, <2>4, <3>1 DEF Entry
    <3> QED BY <2>1, <3>1, <3>2
  <2> QED BY <1>4, <2>1, <2>2, <2>3, <2>4 DEF Entry
<1>11. HeldOnce'
  BY <1>4, <1>5, <1>6 DEF HeldOnce, Held
<1>12. ASSUME NEW q \in Loaded \ freed PROVE Held(q)' \/ Queued(q)'
  <2>1. CASE Held(q) \/ q = p
    BY <1>7, <2>1 DEF Loaded
  <2>2. CASE Queued(q) /\ q # p
    <3>1. PICK m \in Level : \E k \in 1..Len(queue[m]) : queue[m][k] = q
      BY <2>2 DEF Queued
    <3>2. PICK k \in 1..Len(queue[m]) : queue[m][k] = q
      BY <3>1
    <3>3. CASE m = l
      <4>1. k # 1 /\ k - 1 \in 1..Len(queue'[l]) /\ queue'[l][k - 1] = q
        BY <1>1, <2>2, <3>2, <3>3
      <4> QED BY <4>1 DEF Queued
    <3>4. CASE m # l
      BY <1>3, <3>2, <3>4 DEF Queued
    <3> QED BY <3>3, <3>4
  <2> QED BY <1>5, <2>1, <2>2
<1> QED BY <1>4, <1>10, <1>11, <1>12 DEF OnePlace

\* A process that is nowhere, or is given up by the CPU that holds it, is
\* appended to its queue.
LEMMA AddOnePlace ==
  ASSUME queue \in [Level -> Seq(Proc)], proc \in [CPU -> Proc \cup {NULL}],
         OnePlace, ~exited,
         NEW p \in Proc, p \notin freed,
         \A l \in Level : \A k \in 1..Len(queue[l]) : queue[l][k] # p,
         \A d \in CPU : /\ proc'[d] # p
                        /\ proc'[d] = IF proc[d] = p THEN NULL ELSE proc[d],
         queue' = [queue EXCEPT ![prio[p]] = Append(@, p)],
         Loaded' = Loaded \cup {p}, freed' = freed
  PROVE  OnePlace'
<1> DEFINE l == prio[p]
<1>1. l \in Level
  BY ConfigAssumption
<1> HIDE DEF l
<1>2. /\ Len(queue[l]) \in Nat
      /\ Len(queue'[l]) = Len(queue[l]) + 1
      /\ queue'[l][Len(queue[l]) + 1] = p
      /\ \A k \in 1..Len(queue[l]) : queue'[l][k] = queue[l][k]
  <2>1. queue[l] \in Seq(Proc) /\ queue'[l] = Append(queue[l], p)
    BY <1>1 DEF l
  <2> QED BY <2>1, AppendFacts
<1>3. \A m \in Level \ {l} : queue'[m] = queue[m]
  BY DEF l
<1>4. \A m \in Level : Len(queue[m]) \in Nat
  OBVIOUS
<1>5. QueuedOnce /\ HeldOnce /\ \A q \in Loaded \ freed : Held(q) \/ Queued(q)
  BY DEF OnePlace
<1>6. \A m \in Level : \A k \in 1..Len(queue'[m]) :
        \/ m = l /\ k = Len(queue[l]) + 1 /\ queue'[m][k] = p
        \/ k \in 1..Len(queue[m]) /\ queue'[m][k] = queue[m][k]
  <2> TAKE m \in Level
  <2> TAKE k \in 1..Len(queue'[m])
  <2>1. CASE m = l
    BY <1>2, <2>1
  <2>2. CASE m # l
    BY <1>3, <2>2
  <2> QED BY <2>1, <2>2
<1>7. QueuedOnce'
  <2> SUFFICES ASSUME NEW m \in Level, NEW k \in 1..Len(queue'[m])
               PROVE  Entry(m, k)'
    BY DEF QueuedOnce
  <2>1. CASE m = l /\ k = Len(queue[l]) + 1 /\ queue'[m][k] = p
    <3>1. \A j \in 1..Len(queue'[m]) : queue'[m][j] = p => j = k
      BY <1>6, <2>1
    <3> QED BY <2>1, <3>1 DEF Entry, l
  <2>2. CASE k \in 1..Len(queue[m]) /\ queue'[m][k] = queue[m][k]
    <3>1. Entry(m, k) /\ queue[m][k] # p
      BY <1>5, <2>2 DEF QueuedOnce
    <3>2. ASSUME NEW j \in 1..Len(queue'[m]), queue'[m][j] = queue'[m][k]
          PROVE  j = k
      <4>1. j \in 1..Len(queue[m]) /\ queue[m][j] = queue[m][k]
        BY <1>6, <2>2, <3>1, <3>2
      <4> QED BY <3>1, <4>1 DEF Entry
    <3>3. /\ queue[m][k] \in Loaded \ freed
          /\ prio[queue[m][k]] = m
          /\ \A d \in CPU : proc[d] # queue[m][k]
      BY <3>1 DEF Entry
    <3>4. \A d \in CPU : proc'[d] # queue[m][k]
      BY <3>3 DEF Loaded
    <3> QED BY <2>2, <3>2, <3>3, <3>4 DEF Entry
  <2> QED BY <1>6, <2>1, <2>2
<1>8. HeldOnce'
  BY <1>5 DEF HeldOnce
<1>9. ASSUME NEW q \in Loaded' \ freed' PROVE Held(q)' \/ Queued(q)'
  <2>1. CASE q = p
    <3>1. Len(queue[l]) + 1 \in 1..Len(queue'[l])
      BY <1>2
    <3> QED BY <1>1, <1>2, <2>1, <3>1 DEF Queued
  <2>2. CASE Held(q) /\ q # p
    BY <2>2 DEF Held
  <2>3. CASE Queued(q)
    <3>1. PICK m \in Level : \E k \in 1..Len(queue[m]) : queue[m][k] = q
      BY <2>3 DEF Queued
    <3>2. PICK k \in 1..Len(queue[m]) : queue[m][k] = q
      BY <3>1
    <3>3. k \in 1..Len(queue'[m]) /\ queue'[m][k] = q
      BY <1>2, <1>3, <3>2, SMTT(30)
    <3> QED BY <3>3 DEF Queued
  <2> QED BY <1>5, <2>1, <2>2, <2>3
<1> QED BY <1>7, <1>8, <1>9 DEF OnePlace

\* A CPU frees the process it holds.
LEMMA FreeOnePlace ==
  ASSUME proc \in [CPU -> Proc \cup {NULL}], OnePlace, ~exited,
         NEW c \in CPU, proc[c] # NULL,
         proc' = [proc EXCEPT ![c] = NULL],
         freed' = freed \cup {proc[c]},
         UNCHANGED <<queue, i>>
  PROVE  OnePlace'
<1>1. QueuedOnce /\ HeldOnce /\ \A q \in Loaded \ freed : Held(q) \/ Queued(q)
  BY DEF OnePlace
<1>2. Loaded' = Loaded /\ queue' = queue
  BY DEF Loaded
<1>3. QueuedOnce'
  <2> SUFFICES ASSUME NEW m \in Level, NEW k \in 1..Len(queue[m])
               PROVE  Entry(m, k)'
    BY <1>2 DEF QueuedOnce
  <2>1. Entry(m, k)
    BY <1>1 DEF QueuedOnce
  <2> QED BY <1>2, <2>1 DEF Entry, Loaded
<1>4. HeldOnce'
  BY <1>1, <1>2 DEF HeldOnce
<1>5. ASSUME NEW q \in Loaded' \ freed' PROVE Held(q)' \/ Queued(q)'
  BY <1>1, <1>2 DEF Held, Queued
<1> QED BY <1>3, <1>4, <1>5 DEF OnePlace

-----------------------------------------------------------------------------
(* One lemma per action.                                                   *)

LEMMA DequeueIInv ==
  ASSUME IInv, ~exited, NEW c \in CPU, Dequeue(c)
  PROVE  IInv'
<1>1. /\ queue \in [Level -> Seq(Proc)] /\ slot \in [Level -> Int]
      /\ proc \in [CPU -> Proc \cup {NULL}] /\ cpc \in [CPU -> CpuPc]
      /\ gi \in [CPU -> 0..MAX_PRIO] /\ since \in [CPU -> SUBSET Proc]
  BY DEF IInv, TypeOK, ReadyType, CpuType, ScanType, HistoryType
<1>2. /\ proc[c] = NULL /\ gi[c] \in Level
      /\ OnePlace /\ RanInv /\ FreedInv /\ ScanInv /\ IndexInv
  <2>1. OnePlace /\ RanInv /\ FreedInv /\ ScanInv /\ IndexInv /\ cpc[c] = "deq"
    BY DEF IInv, Dequeue
  <2>2. proc[c] = NULL /\ gi[c] < MAX_PRIO
    BY <2>1 DEF ScanInv, IndexInv
  <2>3. gi[c] \in Level
    BY <1>1, <2>2
  <2> QED BY <2>1, <2>2, <2>3
<1>3. /\ cpc' = [cpc EXCEPT ![c] = "got"]
      /\ slot' = [slot EXCEPT ![gi[c]] = @ - 1]
      /\ UNCHANGED <<time, phase, queue_lock, pc, freed, first, time_left, gi, gj,
                     flag, i, done, exited, ran>>
  BY DEF Dequeue, clockv, procv, scanv, ldv
<1>4. OnePlace' /\ queue' \in [Level -> Seq(Proc)]
      /\ proc' \in [CPU -> Proc \cup {NULL}] /\ since' \in [CPU -> SUBSET Proc]
      /\ \A d \in CPU \ {c} : proc'[d] = proc[d]
  <2>1. CASE queue[gi[c]] = <<>>
    BY <1>1, <1>2, <1>3, <2>1, FrameOnePlace DEF Dequeue
  <2>2. CASE queue[gi[c]] # <<>>
    <3>1. /\ proc' = [proc EXCEPT ![c] = Head(queue[gi[c]])]
          /\ queue' = [queue EXCEPT ![gi[c]] = Tail(@)]
          /\ since' = [d \in CPU |-> since[d] \ {Head(queue[gi[c]])}]
      BY <2>2 DEF Dequeue
    <3>2. OnePlace'
      BY <1>1, <1>2, <1>3, <2>2, <3>1, TakeOnePlace
    <3>3. Head(queue[gi[c]]) \in Proc /\ Tail(queue[gi[c]]) \in Seq(Proc)
      BY <1>1, <1>2, <2>2, TailFacts
    <3> QED BY <1>1, <1>2, <3>1, <3>2, <3>3
  <2> QED BY <2>1, <2>2
<1>5. ScanInv' /\ IndexInv'
  BY <1>1, <1>2, <1>3, <1>4 DEF ScanInv, IndexInv
<1>6. RanInv'
  <2> SUFFICES ASSUME NEW p \in ran
               PROVE  \E d \in CPU : proc'[d] = p /\ phase'[d] = "waiting"
    BY <1>3 DEF RanInv
  <2>1. p # NULL
    BY DEF IInv, TypeOK, HistoryType
  <2> QED BY <1>2, <1>3, <1>4, <2>1 DEF RanInv
<1>7. FreedInv'
  BY <1>2, <1>3 DEF FreedInv, Loaded
<1>8. slot' \in [Level -> Int] /\ cpc' \in [CPU -> CpuPc]
  BY <1>1, <1>2, <1>3 DEF CpuPc
<1>9. TypeOK'
  BY <1>3, <1>4, <1>8 DEF IInv, TypeOK, ClockType, ReadyType, ProcType, CpuType,
                          ScanType, LdType, HistoryType
<1> QED BY <1>4, <1>5, <1>6, <1>7, <1>9 DEF IInv

\* get_proc begins: what Idle, Finish and PutProc have in common.  The CPU's
\* process is gone, and nothing else about the CPUs has changed.
LEMMA CallGetProcIInv ==
  ASSUME TypeOK, ScanInv, IndexInv, RanInv,
         NEW c \in CPU, NEW idle \in BOOLEAN, NEW ready \in SUBSET Proc,
         phase[c] = "running", UNCHANGED <<phase, ran>>,
         time_left' \in [CPU -> Int],
         CallGetProc(c, idle, ready)
  PROVE  CpuType' /\ ScanType' /\ HistoryType' /\ ScanInv' /\ IndexInv' /\ RanInv'
<1>1. /\ cpc' = [cpc EXCEPT ![c] = "check"]
      /\ first' = [first EXCEPT ![c] = idle]
      /\ proc' = [proc EXCEPT ![c] = NULL]
      /\ gi' = [gi EXCEPT ![c] = 0]
      /\ gj' = [gj EXCEPT ![c] = 0]
      /\ flag' = [flag EXCEPT ![c] = FALSE]
      /\ since' = [since EXCEPT ![c] = ready]
  BY DEF CallGetProc
<1>2. CpuType'
  BY <1>1 DEF TypeOK, CpuType, CpuPc
<1>3. ScanType' /\ HistoryType'
  BY <1>1 DEF TypeOK, ScanType, HistoryType
<1>4. ScanInv' /\ IndexInv'
  BY <1>1 DEF TypeOK, CpuType, ScanType, ScanInv, IndexInv
<1>5. RanInv'
  BY <1>1 DEF TypeOK, CpuType, RanInv
<1> QED BY <1>2, <1>3, <1>4, <1>5

LEMMA IdleIInv ==
  ASSUME IInv, NEW c \in CPU, Idle(c)
  PROVE  IInv'
<1>1. /\ phase[c] = "running" /\ proc[c] = NULL
      /\ CallGetProc(c, TRUE, Ready)
      /\ UNCHANGED <<time, phase, queue, slot, queue_lock, pc, freed, time_left, i,
                     done, exited, ran>>
  BY DEF Idle, AtTop, clockv, readyv, procv, ldv
<1>2. proc' = proc
  BY <1>1 DEF CallGetProc, IInv, TypeOK, CpuType
<1>3. Ready \in SUBSET Proc /\ time_left' \in [CPU -> Int]
  BY <1>1 DEF IInv, TypeOK, CpuType, Ready
<1>4. CpuType' /\ ScanType' /\ HistoryType' /\ ScanInv' /\ IndexInv' /\ RanInv'
  BY <1>1, <1>3, CallGetProcIInv DEF IInv
<1>5. OnePlace'
  BY <1>1, <1>2, FrameOnePlace DEF IInv
<1>6. ClockType' /\ ReadyType' /\ ProcType' /\ LdType' /\ FreedInv'
  BY <1>1 DEF IInv, TypeOK, ClockType, ReadyType, ProcType, LdType, FreedInv,
              Loaded
<1> QED BY <1>4, <1>5, <1>6 DEF IInv, TypeOK

LEMMA FinishIInv ==
  ASSUME IInv, ~exited, NEW c \in CPU, Finish(c)
  PROVE  IInv'
<1>1. /\ phase[c] = "running" /\ proc[c] # NULL
      /\ freed' = freed \cup {proc[c]}
      /\ time_left' = [time_left EXCEPT ![c] = 0]
      /\ CallGetProc(c, FALSE, Ready)
      /\ UNCHANGED <<time, phase, queue, slot, queue_lock, pc, i, done, exited, ran>>
  BY DEF Finish, AtTop, clockv, readyv, ldv
<1>2. Ready \in SUBSET Proc /\ time_left' \in [CPU -> Int]
  BY <1>1 DEF IInv, TypeOK, CpuType, Ready
<1>3. CpuType' /\ ScanType' /\ HistoryType' /\ ScanInv' /\ IndexInv' /\ RanInv'
  BY <1>1, <1>2, CallGetProcIInv DEF IInv
<1>4. OnePlace'
  <2>1. proc' = [proc EXCEPT ![c] = NULL] /\ proc \in [CPU -> Proc \cup {NULL}]
    BY <1>1 DEF CallGetProc, IInv, TypeOK, CpuType
  <2> QED BY <1>1, <2>1, FreeOnePlace DEF IInv
<1>5. proc[c] \in Loaded
  BY <1>1 DEF IInv, OnePlace, HeldOnce
<1>6. ClockType' /\ ReadyType' /\ ProcType' /\ LdType' /\ FreedInv'
  BY <1>1, <1>5 DEF IInv, TypeOK, ClockType, ReadyType, ProcType, LdType, FreedInv,
                    Loaded
<1> QED BY <1>3, <1>4, <1>6 DEF IInv, TypeOK

LEMMA PutProcIInv ==
  ASSUME IInv, ~exited, NEW c \in CPU, PutProc(c)
  PROVE  IInv'
<1> DEFINE p == proc[c]
<1>1. /\ phase[c] = "running" /\ p # NULL
      /\ Enqueue(p)
      /\ CallGetProc(c, FALSE, Ready \cup {p})
      /\ UNCHANGED <<time, phase, slot, queue_lock, pc, freed, time_left, i, done, ran>>
  BY DEF PutProc, AtTop, clockv, procv
<1>2. /\ queue \in [Level -> Seq(Proc)] /\ proc \in [CPU -> Proc \cup {NULL}]
      /\ p \in Proc /\ OnePlace /\ exited \in BOOLEAN
  BY <1>1 DEF IInv, TypeOK, CpuType, ReadyType, LdType
<1>3. Ready \cup {p} \in SUBSET Proc /\ time_left' \in [CPU -> Int]
  BY <1>1, <1>2 DEF IInv, TypeOK, CpuType, Ready
<1>4. CpuType' /\ ScanType' /\ HistoryType' /\ ScanInv' /\ IndexInv' /\ RanInv'
  BY <1>1, <1>3, CallGetProcIInv DEF IInv
<1>5. CASE exited'
  <2>1. queue' = queue
    BY <1>1, <1>5 DEF Enqueue
  <2> QED BY <1>1, <1>4, <1>5, <2>1
      DEF IInv, TypeOK, ClockType, ReadyType, ProcType, LdType, FreedInv, Loaded,
          OnePlace
<1>6. CASE ~exited'
  <2>1. queue' = [queue EXCEPT ![prio[p]] = Append(@, p)] /\ exited' = exited
    BY <1>1, <1>6 DEF Enqueue
  <2>2. QueuedOnce /\ HeldOnce
    BY <1>2 DEF OnePlace
  <2>3. p \in Loaded \ freed /\ \A d \in CPU : proc[d] = p => d = c
    BY <1>1, <2>2 DEF HeldOnce
  <2>4. proc' = [proc EXCEPT ![c] = NULL]
    BY <1>1 DEF CallGetProc
  <2>5. \A d \in CPU : /\ proc'[d] # p
                       /\ proc'[d] = IF proc[d] = p THEN NULL ELSE proc[d]
    BY <1>1, <1>2, <2>3, <2>4
  <2>6. \A l \in Level : \A k \in 1..Len(queue[l]) : queue[l][k] # p
    BY <2>2 DEF QueuedOnce, Entry
  <2>7. Loaded' = Loaded \cup {p} /\ freed' = freed
    BY <1>1, <2>3 DEF Loaded
  <2>8. OnePlace'
    BY <1>2, <2>1, <2>3, <2>5, <2>6, <2>7, AddOnePlace
  <2>9. queue' \in [Level -> Seq(Proc)]
    <3>1. prio[p] \in Level
      BY <1>2, ConfigAssumption
    <3> QED BY <1>2, <2>1, <3>1, AppendFacts
  <2> QED BY <1>1, <1>4, <2>1, <2>8, <2>9
      DEF IInv, TypeOK, ClockType, ReadyType, ProcType, LdType, FreedInv, Loaded
<1> QED BY <1>5, <1>6

\* The steps between get_proc and the end of the slot leave the processes where
\* they are.
LEMMA CpuIInv ==
  ASSUME IInv, NEW c \in CPU,
         Continue(c) \/ GotNothing(c) \/ Stop(c) \/ Dispatch(c)
  PROVE  IInv'
<1>1. UNCHANGED <<time, queue, slot, queue_lock, pc, freed, first, proc, gi, gj, flag,
                  i, done, exited, ran>>
  BY DEF Continue, GotNothing, Stop, Dispatch, clockv, readyv, procv, scanv, ldv,
         Clock!Arrive, Clock!Leave
<1>2. \E x \in {"top", "run", "stopped"} :
        cpc' = [cpc EXCEPT ![c] = x] /\ (x = "run" => proc[c] # NULL)
  BY DEF Continue, GotNothing, Stop, Dispatch
<1>3. OnePlace'
  BY <1>1, FrameOnePlace DEF IInv
<1>4. ScanInv' /\ IndexInv'
  BY <1>1, <1>2 DEF IInv, TypeOK, CpuType, ScanInv, IndexInv
<1>5. /\ phase' \in [Device -> {"running", "waiting", "gone"}]
      /\ \A d \in Device : phase[d] = "waiting" => phase'[d] = "waiting"
  BY DEF IInv, TypeOK, ClockType, Continue, GotNothing, Stop, Dispatch,
         Clock!Arrive, Clock!Leave, clockv
<1>6. RanInv' /\ FreedInv'
  BY <1>1, <1>5 DEF IInv, RanInv, FreedInv, Loaded
<1>7. time_left' \in [CPU -> Int]
  BY DEF IInv, TypeOK, CpuType, Continue, GotNothing, Stop, Dispatch
<1>8. since' \in [CPU -> SUBSET Proc]
  BY DEF IInv, TypeOK, HistoryType, Continue, GotNothing, Stop, Dispatch
<1>9. cpc' \in [CPU -> CpuPc]
  BY <1>2 DEF IInv, TypeOK, CpuType, CpuPc
<1>10. TypeOK'
  BY <1>1, <1>5, <1>7, <1>8, <1>9
     DEF IInv, TypeOK, ClockType, ReadyType, ProcType, CpuType, ScanType, LdType,
         HistoryType
<1> QED BY <1>3, <1>4, <1>6, <1>10 DEF IInv

LEMMA RunIInv ==
  ASSUME IInv, NEW c \in CPU, Run(c)
  PROVE  IInv'
<1>1. /\ UNCHANGED <<time, queue, slot, queue_lock, freed, first, proc, gi, gj, flag,
                     i, done, exited, since>>
      /\ cpc' = [cpc EXCEPT ![c] = "top"]
      /\ phase' = [phase EXCEPT ![c] = "waiting"]
      /\ ran' = ran \cup {proc[c]}
      /\ time_left' = [time_left EXCEPT ![c] = @ - 1]
  BY DEF Run, readyv, scanv, ldv, Clock!Arrive
<1>2. proc[c] \in Proc
  BY DEF IInv, TypeOK, CpuType, ScanInv, Run
<1>3. OnePlace'
  BY <1>1, FrameOnePlace DEF IInv
<1>4. ScanInv' /\ IndexInv' /\ FreedInv'
  BY <1>1 DEF IInv, TypeOK, CpuType, ScanInv, IndexInv, FreedInv, Loaded
<1>5. RanInv'
  BY <1>1 DEF IInv, TypeOK, ClockType, RanInv
<1>6. pc' \in [Proc -> Nat]
  BY <1>2 DEF IInv, TypeOK, ProcType, Run
<1>7. cpc' \in [CPU -> CpuPc] /\ time_left' \in [CPU -> Int]
  BY <1>1 DEF IInv, TypeOK, CpuType, CpuPc
<1>8. TypeOK'
  BY <1>1, <1>2, <1>6, <1>7
     DEF IInv, TypeOK, ClockType, ReadyType, ProcType, CpuType, ScanType, LdType,
         HistoryType
<1> QED BY <1>3, <1>4, <1>5, <1>8 DEF IInv

LEMMA LdAddIInv ==
  ASSUME IInv, ~exited, LdAdd
  PROVE  IInv'
<1>1. /\ i \in Proc /\ Enqueue(i) /\ i' = i + 1
      /\ phase' = [phase EXCEPT ![Ld] = "waiting"]
      /\ UNCHANGED <<time, slot, queue_lock, pc, freed, cpc, first, proc, time_left,
                     gi, gj, flag, done, since, ran>>
  BY DEF LdAdd, IInv, TypeOK, LdType, procv, cpuv, scanv, Clock!Arrive
<1>2. /\ queue \in [Level -> Seq(Proc)] /\ proc \in [CPU -> Proc \cup {NULL}]
      /\ OnePlace /\ FreedInv
  BY DEF IInv, TypeOK, CpuType, ReadyType
<1>3. Loaded' = Loaded \cup {i} /\ i \notin Loaded
  BY <1>1 DEF Loaded
<1>4. RanInv' /\ ScanInv' /\ IndexInv' /\ FreedInv'
  BY <1>1, <1>3 DEF IInv, TypeOK, ClockType, RanInv, ScanInv, IndexInv, FreedInv
<1>5. /\ ClockType' /\ ProcType' /\ CpuType' /\ ScanType' /\ HistoryType'
      /\ i' \in 1..(NProc + 1) /\ done' \in BOOLEAN
      /\ slot' \in [Level -> Int] /\ queue_lock' \in Device
  <2>1. ClockType'
    BY <1>1 DEF IInv, TypeOK, ClockType
  <2>2. i' \in 1..(NProc + 1)
    BY <1>1
  <2> QED BY <1>1, <2>1, <2>2 DEF IInv, TypeOK, ReadyType, ProcType, CpuType,
                                  ScanType, LdType, HistoryType
<1>6. CASE exited'
  <2>1. queue' = queue /\ exited' = TRUE
    BY <1>1, <1>6 DEF Enqueue
  <2> QED BY <1>2, <1>4, <1>5, <1>6, <2>1 DEF IInv, TypeOK, ReadyType, LdType, OnePlace
<1>7. CASE ~exited'
  <2>1. queue' = [queue EXCEPT ![prio[i]] = Append(@, i)] /\ exited' = exited
    BY <1>1, <1>7 DEF Enqueue
  <2>2. QueuedOnce /\ HeldOnce
    BY <1>2 DEF OnePlace
  <2>3. \A d \in CPU : proc[d] # i
    BY <1>1, <1>3, <2>2 DEF HeldOnce
  <2>4. \A l \in Level : \A k \in 1..Len(queue[l]) : queue[l][k] # i
    BY <1>3, <2>2 DEF QueuedOnce, Entry
  <2>5. i \notin freed
    BY <1>2, <1>3 DEF FreedInv
  <2>6. OnePlace'
    BY <1>1, <1>2, <1>3, <2>1, <2>3, <2>4, <2>5, AddOnePlace
  <2>7. queue' \in [Level -> Seq(Proc)]
    <3>1. prio[i] \in Level
      BY <1>1, ConfigAssumption
    <3> QED BY <1>1, <1>2, <2>1, <3>1, AppendFacts
  <2> QED BY <1>4, <1>5, <2>1, <2>6, <2>7 DEF IInv, TypeOK, ReadyType, LdType
<1> QED BY <1>6, <1>7

\* The loader's other steps and the timer's, which change the barrier only.
LEMMA BarrierIInv ==
  ASSUME IInv, LdWait \/ LdDone \/ TimerTick \/ UNCHANGED vars
  PROVE  IInv'
<1>1. UNCHANGED <<queue, slot, queue_lock, pc, freed, cpc, first, proc, time_left,
                  gi, gj, flag, i, exited, since>>
  BY DEF LdWait, LdDone, TimerTick, vars, readyv, procv, cpuv, scanv, ldv
<1>2. /\ done' \in BOOLEAN /\ ran' \in SUBSET Proc
      /\ time' \in 0..Horizon
      /\ phase' \in [Device -> {"running", "waiting", "gone"}]
  <2>1. CASE LdWait
    BY <2>1 DEF IInv, TypeOK, ClockType, LdType, HistoryType, LdWait, ldv, Clock!Arrive
  <2>2. CASE LdDone
    BY <2>2 DEF IInv, TypeOK, ClockType, LdType, HistoryType, LdDone, Clock!Leave
  <2>3. CASE TimerTick
    <3>1. done' = done /\ ran' = {}
      BY <2>3 DEF TimerTick, ldv
    <3>2. /\ time' = Clock!Advance(time)
          /\ phase' = [d \in Device |-> IF phase[d] = "waiting" THEN "running"
                                        ELSE phase[d]]
      BY <2>3 DEF TimerTick, Clock!EndSlot, Clock!Tick
    <3>3. time' \in 0..Horizon
      BY <3>2 DEF IInv, TypeOK, ClockType, Clock!Advance
    <3>4. phase' \in [Device -> {"running", "waiting", "gone"}]
      BY <3>2 DEF IInv, TypeOK, ClockType
    <3> QED BY <3>1, <3>3, <3>4 DEF IInv, TypeOK, LdType
  <2>4. CASE UNCHANGED vars
    BY <2>4 DEF IInv, TypeOK, ClockType, LdType, HistoryType, vars
  <2> QED BY <2>1, <2>2, <2>3, <2>4
<1>3. RanInv'
  <2>1. CASE TimerTick
    BY <2>1 DEF TimerTick, RanInv
  <2>2. CASE LdWait \/ LdDone \/ UNCHANGED vars
    BY <1>1, <2>2, CpuAssumption
       DEF IInv, TypeOK, ClockType, LdWait, LdDone, vars, RanInv, Clock!Arrive,
           Clock!Leave
  <2> QED BY <2>1, <2>2
<1>4. OnePlace'
  BY <1>1, FrameOnePlace DEF IInv
<1>5. ScanInv' /\ IndexInv' /\ FreedInv'
  BY <1>1 DEF IInv, ScanInv, IndexInv, FreedInv, Loaded
<1>6. TypeOK'
  BY <1>1, <1>2 DEF IInv, TypeOK, ClockType, ReadyType, ProcType, CpuType, ScanType,
                    LdType, HistoryType
<1> QED BY <1>3, <1>4, <1>5, <1>6 DEF IInv

LEMMA NextIInv == IInv /\ [Next]_vars => IInv'
BY ScanIInv, DequeueIInv, IdleIInv, FinishIInv, PutProcIInv, CpuIInv, RunIInv,
   LdAddIInv, BarrierIInv
   DEF Next, CpuRoutine, GetProc, LdRoutine, Ended, TimerTick

\* The inductive invariant.
THEOREM Invariance == Spec => []IInv
BY InitIInv, NextIInv, PTL DEF Spec

-----------------------------------------------------------------------------
\* Every variable keeps its type; in particular the unlocked scan of sched.c
\* never indexes mlq_ready_queue or slot out of range.
THEOREM TypeCorrect == Spec => []TypeOK
<1>1. IInv => TypeOK
  BY DEF IInv
<1> QED BY <1>1, Invariance, PTL

\* A process is never lost, duplicated, or used after free(), for any number of
\* CPUs that race for the ready queues.
THEOREM ProcessesConserved == Spec => []OnePlace
<1>1. IInv => OnePlace
  BY DEF IInv
<1> QED BY <1>1, Invariance, PTL

\* No process executes two instructions in one slot.
THEOREM OnePerSlot == Spec => OneInstructionPerSlot
<1>1. IInv /\ [Next]_vars => [\A p \in Proc : pc'[p] # pc[p] => p \notin ran]_vars
  <2> SUFFICES ASSUME IInv, Next, NEW p \in Proc, pc'[p] # pc[p], p \in ran
               PROVE  FALSE
    OBVIOUS
  <2>1. PICK c \in CPU : CpuRoutine(c) /\ Run(c)
    BY DEF Next, CpuRoutine, GetProc, CheckEmpty, CheckSlot, TestEmpty, TestSlot,
           LockSlots, RefillSlot, Dequeue, Idle, Finish, PutProc, Continue,
           GotNothing, Stop, Dispatch, LdRoutine, LdWait, LdAdd, LdDone, TimerTick,
           Ended, procv, vars
  <2>2. ~exited /\ proc[c] = p /\ phase[c] = "running"
    BY <2>1 DEF CpuRoutine, Run, Clock!Arrive, IInv, TypeOK, ProcType
  <2>3. PICK d \in CPU : proc[d] = p /\ phase[d] = "waiting"
    BY DEF IInv, RanInv
  <2>4. d = c
    BY <2>2, <2>3 DEF IInv, OnePlace, HeldOnce
  <2> QED BY <2>2, <2>3, <2>4
<1> QED BY <1>1, Invariance, PTL DEF Spec, OneInstructionPerSlot
=============================================================================
