-------------------------- MODULE OsSimSchedProofs --------------------------
(***************************************************************************)
(* Proofs about the scheduling policy and about how the CPUs stop, for     *)
(* every number of processes and priorities and every configuration.       *)
(* Where the code is right on one CPU only the theorem says so.            *)
(***************************************************************************)
EXTENDS OsSimProofs, FiniteSetTheorems

\* A CPU inside get_proc.
Scanning(c) == cpc[c] \in {"check", "checkslot", "slot", "deq", "lock", "refill"}

-----------------------------------------------------------------------------
(* Where the threads are, in terms of the barrier.                         *)

BarrierInv ==
  /\ \A c \in CPU :
       /\ phase[c] = "waiting" => cpc[c] = "top"
       /\ phase[c] = "gone" <=> cpc[c] = "stopped"
       /\ cpc[c] = "stopped" => done /\ proc[c] = NULL
  /\ done => phase[Ld] = "gone" /\ i = NProc + 1

(* What a CPU in get_proc has seen.  A process that has been ready all the *)
(* time is in front of the scan, or the scan will come back for it after a *)
(* refill; a queue that was not empty when it was tested and is now has    *)
(* been emptied by another CPU, which then runs in this slot.              *)

SinceInv == ~exited => \A c \in CPU : \A p \in since[c] : Queued(p)

SeenInv ==
  ~exited => \A c \in CPU :
    Scanning(c) => \A p \in since[c] :
                     gi[c] <= prio[p] \/ flag[c] \/ cpc[c] \in {"lock", "refill"}

EmptiedInv ==
  \A c \in CPU : cpc[c] \in {"slot", "deq"} /\ queue[gi[c]] = <<>> =>
    \E d \in CPU : Committed(d)

\* Somebody takes care of every process in a ready queue: a CPU that has not
\* called get_proc yet in this slot or has got a process, one whose get_proc
\* began when the process was there, or, for a process that has just been
\* loaded, every CPU in the next slot.
Caretaker(c, p) ==
  \/ cpc[c] \in {"top", "run"}
  \/ cpc[c] = "got" /\ proc[c] # NULL
  \/ Scanning(c) /\ p \in since[c]

WatchedInv ==
  ~exited => \A p \in Ready : \/ phase[Ld] = "waiting"
                              \/ \E c \in CPU : Caretaker(c, p)

\* exit(1) comes from a thread that is not done.
ExitInv == exited => \E c \in CPU : cpc[c] # "stopped"

ScheduleInv == BarrierInv /\ SinceInv /\ SeenInv /\ EmptiedInv /\ NullMeansTaken
StopInv == WatchedInv /\ ExitInv

(* The time slice of a process.                                            *)

SliceInv ==
  \A c \in CPU :
    /\ cpc[c] \notin {"top", "run"} => time_left[c] = 0
    /\ cpc[c] = "run" => time_left[c] \in 1 .. time_slot
    /\ cpc[c] = "top" => IF proc[c] = NULL THEN time_left[c] = 0
                         ELSE time_left[c] \in 0 .. time_slot - 1

(* The slots of a level: each CPU between its test of slot[i] and its      *)
(* dequeue will spend one that it saw.                                     *)

Spending(l) == {c \in CPU : cpc[c] = "deq" /\ gi[c] = l}

SlotInv ==
  \A l \in Level : /\ slot[l] <= MAX_PRIO - l
                   /\ 1 - Cardinality(CPU) <= slot[l] - Cardinality(Spending(l))

(* The order of the queues, for the first CPU of a slot.                   *)

PassedInv ==
  \A c \in CPU :
    cpc[c] \in {"check", "checkslot", "slot", "deq"} /\ FirstInSlot(c) =>
      \A p \in since[c] : prio[p] < gi[c] => slot[prio[p]] <= 0

USE BoundAssumption
    DEF Proc, NULL, Level, Device, SlotsOf

-----------------------------------------------------------------------------
(* What each thread leaves alone.                                          *)

\* A step of one CPU thread changes nothing of another: only the ready queues,
\* the slots and the processes are shared.
LEMMA OthersKeep ==
  ASSUME IInv, NEW c \in CPU, CpuRoutine(c), NEW d \in CPU \ {c}
  PROVE  /\ cpc'[d] = cpc[d] /\ proc'[d] = proc[d] /\ phase'[d] = phase[d]
         /\ gi'[d] = gi[d] /\ flag'[d] = flag[d] /\ time_left'[d] = time_left[d]
         /\ \A p \in since'[d] : p \in since[d]
<1> USE DEF IInv, TypeOK, ClockType, CpuType, ScanType, HistoryType
<1>1. CASE GetProc(c) /\ ~ Dequeue(c)
  BY <1>1 DEF GetProc, CheckEmpty, CheckSlot, TestEmpty, TestSlot, LockSlots,
              RefillSlot, ScanFrom, clockv, scanv
<1>2. CASE Dequeue(c)
  BY <1>2 DEF Dequeue, clockv, scanv
<1>3. CASE Idle(c) \/ Finish(c) \/ PutProc(c)
  BY <1>3 DEF Idle, Finish, PutProc, CallGetProc, clockv
<1>4. CASE Continue(c) \/ GotNothing(c) \/ Stop(c) \/ Dispatch(c) \/ Run(c)
  BY <1>4 DEF Continue, GotNothing, Stop, Dispatch, Run, Clock!Arrive, Clock!Leave,
              clockv, scanv
<1> QED BY <1>1, <1>2, <1>3, <1>4 DEF CpuRoutine

\* A CPU thread does not touch what belongs to the loader.
LEMMA LoaderKept ==
  ASSUME IInv, NEW c \in CPU, CpuRoutine(c)
  PROVE  done' = done /\ i' = i /\ phase'[Ld] = phase[Ld] /\ ~exited
<1> USE CpuAssumption DEF IInv, TypeOK, ClockType
<1>1. CASE GetProc(c)
  BY <1>1 DEF CpuRoutine, GetProc, CheckEmpty, CheckSlot, TestEmpty, TestSlot,
              LockSlots, RefillSlot, Dequeue, clockv, ldv
<1>2. CASE Idle(c) \/ Finish(c) \/ PutProc(c)
  BY <1>2 DEF CpuRoutine, Idle, Finish, PutProc, clockv, ldv
<1>3. CASE Continue(c) \/ GotNothing(c) \/ Stop(c) \/ Dispatch(c) \/ Run(c)
  BY <1>3 DEF CpuRoutine, Continue, GotNothing, Stop, Dispatch, Run, Clock!Arrive,
              Clock!Leave, clockv, ldv
<1> QED BY <1>1, <1>2, <1>3 DEF CpuRoutine

\* The loader leaves the CPU threads alone.
LEMMA CpusKept ==
  ASSUME IInv, LdRoutine
  PROVE  /\ UNCHANGED <<cpc, proc, time_left, gi, gj, flag, slot, since>>
         /\ \A c \in CPU : phase'[c] = phase[c]
         /\ ~exited
BY CpuAssumption DEF IInv, TypeOK, ClockType, LdRoutine, LdWait, LdAdd, LdDone,
                     Clock!Arrive, Clock!Leave, cpuv, scanv, readyv

\* The timer changes the barrier and nothing else, when nobody is running.
LEMMA TickKeeps ==
  ASSUME IInv, TimerTick
  PROVE  /\ UNCHANGED <<cpc, proc, time_left, gi, gj, flag, slot, since, queue, exited,
                        done, i>>
         /\ \A d \in Device : phase[d] # "running"
         /\ \A d \in Device : phase'[d] = IF phase[d] = "waiting" THEN "running"
                                                                  ELSE phase[d]
BY DEF TimerTick, Clock!EndSlot, Clock!Tick, cpuv, scanv, readyv, ldv

\* What a scanning step may do to its own CPU.
LEMMA ScanSteps ==
  ASSUME IInv, NEW c \in CPU, GetProc(c), ~ Dequeue(c)
  PROVE  /\ UNCHANGED <<phase, queue, proc, since, time_left, exited>>
         /\ Scanning(c) /\ cpc'[c] \in {"check", "checkslot", "slot", "deq", "lock",
                                        "refill", "got"}
<1>1. UNCHANGED <<phase, queue, proc, since, time_left, exited>>
  BY DEF GetProc, CheckEmpty, CheckSlot, TestEmpty, TestSlot, LockSlots, RefillSlot,
         clockv, readyv, ldv
<1>2. Scanning(c)
  BY DEF GetProc, CheckEmpty, CheckSlot, TestEmpty, TestSlot, LockSlots, RefillSlot,
         Scanning
<1>3. cpc'[c] \in {"check", "checkslot", "slot", "deq", "lock", "refill", "got"}
  BY DEF IInv, TypeOK, CpuType, GetProc, CheckEmpty, CheckSlot, TestEmpty, TestSlot,
         LockSlots, RefillSlot, ScanFrom
<1> QED BY <1>1, <1>2, <1>3

\* get_proc is called: the CPU holds nothing and starts at the first queue.
LEMMA CallSteps ==
  ASSUME IInv, NEW c \in CPU, Idle(c) \/ Finish(c) \/ PutProc(c)
  PROVE  /\ cpc[c] = "top" /\ cpc'[c] = "check"
         /\ phase[c] = "running" /\ phase' = phase
         /\ proc'[c] = NULL /\ gi'[c] = 0 /\ slot' = slot
         /\ \/ /\ queue' = queue /\ exited' = exited
               /\ since'[c] = Ready
            \/ /\ proc[c] \in Proc /\ Enqueue(proc[c])
               /\ since'[c] = Ready \cup {proc[c]}
<1>1. /\ cpc[c] = "top" /\ phase[c] = "running" /\ phase' = phase /\ slot' = slot
      /\ \/ queue' = queue /\ exited' = exited /\ CallGetProc(c, TRUE, Ready)
         \/ queue' = queue /\ exited' = exited /\ CallGetProc(c, FALSE, Ready)
         \/ /\ proc[c] # NULL /\ Enqueue(proc[c])
            /\ CallGetProc(c, FALSE, Ready \cup {proc[c]})
  BY DEF Idle, Finish, PutProc, AtTop, clockv, readyv, ldv
<1>2. /\ cpc \in [CPU -> CpuPc] /\ proc \in [CPU -> Proc \cup {NULL}]
      /\ gi \in [CPU -> 0..MAX_PRIO] /\ since \in [CPU -> SUBSET Proc]
  BY DEF IInv, TypeOK, CpuType, ScanType, HistoryType
<1> QED BY <1>1, <1>2 DEF CallGetProc

-----------------------------------------------------------------------------
(* The queues.                                                             *)

LEMMA AppendNonempty ==
  ASSUME NEW S, NEW s \in Seq(S), NEW e \in S
  PROVE  Append(s, e) # <<>>
<1>1. Len(Append(s, e)) = Len(s) + 1 /\ Len(s) \in Nat
  BY AppendFacts
<1>2. Len(<<>>) = 0
  OBVIOUS
<1> QED BY <1>1, <1>2

LEMMA QueuedTake ==
  ASSUME queue \in [Level -> Seq(Proc)], NEW l \in Level, queue[l] # <<>>,
         queue' = [queue EXCEPT ![l] = Tail(@)]
  PROVE  \A q : /\ Queued(q)' => Queued(q)
                /\ Queued(q) /\ q # Head(queue[l]) => Queued(q)'
<1> TAKE q
<1>1. /\ Head(queue[l]) = queue[l][1] /\ Len(queue[l]) \in Nat \ {0}
      /\ Len(queue'[l]) = Len(queue[l]) - 1
      /\ \A k \in 1..Len(queue'[l]) :
           k + 1 \in 1..Len(queue[l]) /\ queue'[l][k] = queue[l][k + 1]
  BY TailFacts
<1>2. \A m \in Level \ {l} : queue'[m] = queue[m]
  OBVIOUS
<1>3. ASSUME Queued(q)' PROVE Queued(q)
  <2>1. PICK m \in Level : \E k \in 1..Len(queue'[m]) : queue'[m][k] = q
    BY <1>3 DEF Queued
  <2>2. PICK k \in 1..Len(queue'[m]) : queue'[m][k] = q
    BY <2>1
  <2>3. CASE m = l
    BY <1>1, <2>2, <2>3 DEF Queued
  <2>4. CASE m # l
    BY <1>2, <2>2, <2>4 DEF Queued
  <2> QED BY <2>3, <2>4
<1>4. ASSUME Queued(q), q # Head(queue[l]) PROVE Queued(q)'
  <2>1. PICK m \in Level : \E k \in 1..Len(queue[m]) : queue[m][k] = q
    BY <1>4 DEF Queued
  <2>2. PICK k \in 1..Len(queue[m]) : queue[m][k] = q
    BY <2>1
  <2>3. CASE m = l
    <3>1. k - 1 \in 1..Len(queue'[l]) /\ queue'[l][k - 1] = q
      BY <1>1, <1>4, <2>2, <2>3
    <3> QED BY <3>1 DEF Queued
  <2>4. CASE m # l
    BY <1>2, <2>2, <2>4 DEF Queued
  <2> QED BY <2>3, <2>4
<1> QED BY <1>3, <1>4

LEMMA QueuedAdd ==
  ASSUME queue \in [Level -> Seq(Proc)], NEW p \in Proc,
         queue' = [queue EXCEPT ![prio[p]] = Append(@, p)]
  PROVE  \A q : Queued(q)' <=> Queued(q) \/ q = p
<1> TAKE q
<1> DEFINE l == prio[p]
<1>1. l \in Level
  BY ConfigAssumption
<1> HIDE DEF l
<1>2. /\ Len(queue[l]) \in Nat
      /\ Len(queue'[l]) = Len(queue[l]) + 1
      /\ queue'[l][Len(queue[l]) + 1] = p
      /\ \A k \in 1..Len(queue[l]) : queue'[l][k] = queue[l][k]
  <2>1. queue[l] \in Seq(Proc) /\ queue'[l] = Append(queue[l], p)
    BY <1>1 DEF l
  <2> QED BY <2>1, AppendFacts
<1>3. \A m \in Level \ {l} : queue'[m] = queue[m]
  BY DEF l
<1>4. ASSUME Queued(q)' PROVE Queued(q) \/ q = p
  <2>1. PICK m \in Level : \E k \in 1..Len(queue'[m]) : queue'[m][k] = q
    BY <1>4 DEF Queued
  <2>2. PICK k \in 1..Len(queue'[m]) : queue'[m][k] = q
    BY <2>1
  <2>3. CASE m = l
    <3>1. k = Len(queue[l]) + 1 \/ k \in 1..Len(queue[l])
      BY <1>2, <2>2, <2>3
    <3> QED BY <1>1, <1>2, <2>2, <2>3, <3>1 DEF Queued
  <2>4. CASE m # l
    BY <1>3, <2>2, <2>4 DEF Queued
  <2> QED BY <2>3, <2>4
<1>5. ASSUME Queued(q) PROVE Queued(q)'
  <2>1. PICK m \in Level : \E k \in 1..Len(queue[m]) : queue[m][k] = q
    BY <1>5 DEF Queued
  <2>2. PICK k \in 1..Len(queue[m]) : queue[m][k] = q
    BY <2>1
  <2>3. k \in 1..Len(queue'[m]) /\ queue'[m][k] = q
    <3>1. CASE m = l
      <4>1. k \in 1..Len(queue[l]) /\ queue[l][k] = q
        BY <2>2, <3>1
      <4>2. k \in 1..Len(queue'[l])
        <5> DEFINE a == Len(queue[l])
                   b == Len(queue'[l])
        <5>1. a \in Nat /\ b = a + 1 /\ k \in 1..a
          BY <1>2, <4>1
        <5> HIDE DEF a, b
        <5>2. k \in 1..b
          BY ONLY <5>1
        <5> QED BY <5>2 DEF b
      <4>3. queue'[l][k] = q
        BY <1>2, <4>1
      <4> QED BY <3>1, <4>2, <4>3
    <3>2. CASE m # l
      BY <1>3, <2>2, <3>2
    <3> QED BY <3>1, <3>2
  <2> QED BY <2>3 DEF Queued
<1>6. Queued(p)'
  <2>1. Len(queue[l]) + 1 \in 1..Len(queue'[l])
    BY <1>2
  <2> QED BY <1>1, <1>2, <2>1 DEF Queued
<1> QED BY <1>4, <1>5, <1>6

\* A process that is queued makes the queue of its priority non-empty.
LEMMA QueuedThere ==
  ASSUME IInv, ~exited, NEW p, Queued(p)
  PROVE  p \in Proc /\ prio[p] \in Level /\ queue[prio[p]] # <<>>
<1>1. PICK l \in Level : \E k \in 1..Len(queue[l]) : queue[l][k] = p
  BY DEF Queued
<1>2. PICK k \in 1..Len(queue[l]) : queue[l][k] = p
  BY <1>1
<1>3. Entry(l, k)
  BY DEF IInv, OnePlace, QueuedOnce
<1>4. p \in Proc /\ prio[p] = l
  BY <1>2, <1>3 DEF Entry, Loaded
<1>5. queue[l] # <<>>
  BY <1>2 DEF IInv, TypeOK, ReadyType
<1> QED BY <1>4, <1>5

\* A dequeue, in the two ways it can turn out.
LEMMA DequeueSteps ==
  ASSUME IInv, NEW c \in CPU, Dequeue(c)
  PROVE  /\ cpc[c] = "deq" /\ cpc'[c] = "got" /\ proc[c] = NULL
         /\ gi[c] \in Level /\ UNCHANGED <<phase, time_left, exited>>
         /\ \/ /\ queue[gi[c]] = <<>> /\ UNCHANGED <<queue, proc, since>>
            \/ /\ queue[gi[c]] # <<>>
               /\ queue' = [queue EXCEPT ![gi[c]] = Tail(@)]
               /\ proc'[c] = Head(queue[gi[c]]) /\ proc'[c] # NULL
               /\ \A d \in CPU : since'[d] = since[d] \ {Head(queue[gi[c]])}
<1>1. /\ queue \in [Level -> Seq(Proc)] /\ proc \in [CPU -> Proc \cup {NULL}]
      /\ gi \in [CPU -> 0..MAX_PRIO] /\ cpc \in [CPU -> CpuPc]
  BY DEF IInv, TypeOK, ReadyType, CpuType, ScanType
<1>2. cpc[c] = "deq" /\ cpc'[c] = "got" /\ UNCHANGED <<phase, time_left, exited>>
  BY <1>1 DEF Dequeue, clockv, ldv
<1>3. proc[c] = NULL /\ gi[c] \in Level
  BY <1>1, <1>2 DEF IInv, ScanInv, IndexInv
<1>4. CASE queue[gi[c]] = <<>>
  BY <1>2, <1>3, <1>4 DEF Dequeue
<1>5. CASE queue[gi[c]] # <<>>
  <2>1. Head(queue[gi[c]]) \in Proc
    BY <1>1, <1>3, <1>5, TailFacts
  <2> QED BY <1>1, <1>2, <1>3, <1>5, <2>1 DEF Dequeue
<1> QED BY <1>4, <1>5

-----------------------------------------------------------------------------
(* The scan of get_mlq_proc and the barrier.                               *)

LEMMA InitSchedule == Init => ScheduleInv /\ StopInv
<1> SUFFICES ASSUME Init PROVE ScheduleInv /\ StopInv
  OBVIOUS
<1>1. BarrierInv /\ ExitInv
  BY DEF Init, Clock!Init, BarrierInv, ExitInv
<1>2. SinceInv /\ SeenInv /\ EmptiedInv /\ NullMeansTaken
  BY DEF Init, SinceInv, SeenInv, EmptiedInv, NullMeansTaken, Scanning
<1>3. Ready = {}
  BY DEF Init, Ready, Queued
<1> QED BY <1>1, <1>2, <1>3 DEF ScheduleInv, StopInv, WatchedInv

\* A CPU that has a process to run keeps it until the slot ends.
LEMMA CommittedStays ==
  ASSUME IInv, NEW d \in CPU, Committed(d),
         (\E c \in CPU : CpuRoutine(c)) \/ LdRoutine \/ UNCHANGED vars
  PROVE  Committed(d)'
<1>1. CASE CpuRoutine(d)
  <2>1. Dispatch(d) \/ Run(d)
    BY <1>1 DEF Committed, CpuRoutine, GetProc, CheckEmpty, CheckSlot, TestEmpty,
                TestSlot, LockSlots, RefillSlot, Dequeue, Idle, Finish, PutProc,
                Continue, AtTop, GotNothing, Stop
  <2>2. proc' = proc
    BY <2>1 DEF Dispatch, Run
  <2>3. CASE Dispatch(d)
    BY <2>2, <2>3 DEF Committed, Dispatch, IInv, TypeOK, CpuType
  <2>4. CASE Run(d)
    BY <2>2, <2>4 DEF Committed, Run, Clock!Arrive, IInv, TypeOK, CpuType, ClockType
  <2> QED BY <2>1, <2>3, <2>4
<1>2. ASSUME NEW c \in CPU, c # d, CpuRoutine(c) PROVE Committed(d)'
  BY <1>2, OthersKeep DEF Committed
<1>3. CASE LdRoutine
  BY <1>3, CpusKept DEF Committed
<1>4. CASE UNCHANGED vars
  BY <1>4 DEF vars, Committed
<1> QED BY <1>1, <1>2, <1>3, <1>4

LEMMA BarrierNext ==
  ASSUME IInv, BarrierInv, [Next]_vars
  PROVE  BarrierInv'
<1>0. /\ cpc \in [CPU -> CpuPc] /\ proc \in [CPU -> Proc \cup {NULL}]
      /\ phase \in [Device -> {"running", "waiting", "gone"}]
      /\ i \in 1..(NProc + 1) /\ Ld \notin CPU
  BY CpuAssumption DEF IInv, TypeOK, CpuType, ClockType, LdType
<1>1. ASSUME NEW c \in CPU, CpuRoutine(c) PROVE BarrierInv'
  <2>1. done' = done /\ i' = i /\ phase'[Ld] = phase[Ld]
    BY <1>1, LoaderKept
  <2>2. \A d \in CPU \ {c} : cpc'[d] = cpc[d] /\ proc'[d] = proc[d] /\ phase'[d] = phase[d]
    BY <1>1, OthersKeep
  <2>3. /\ phase'[c] = "waiting" => cpc'[c] = "top"
        /\ phase'[c] = "gone" <=> cpc'[c] = "stopped"
        /\ cpc'[c] = "stopped" => done /\ proc'[c] = NULL
    <3>1. CASE GetProc(c) /\ ~ Dequeue(c)
      BY <1>0, <3>1, ScanSteps DEF Scanning, BarrierInv
    <3>2. CASE Dequeue(c)
      BY <1>0, <3>2, DequeueSteps DEF BarrierInv
    <3>3. CASE Idle(c) \/ Finish(c) \/ PutProc(c)
      BY <3>3, CallSteps
    <3>4. CASE Continue(c) \/ Dispatch(c)
      BY <1>0, <3>4 DEF Continue, Dispatch, AtTop, clockv, BarrierInv
    <3>5. CASE GotNothing(c) \/ Run(c) \/ Stop(c)
      BY <1>0, <3>5 DEF GotNothing, Run, Stop, Clock!Arrive, Clock!Leave
    <3> QED BY <1>1, <3>1, <3>2, <3>3, <3>4, <3>5 DEF CpuRoutine
  <2> QED BY <2>1, <2>2, <2>3 DEF BarrierInv
<1>2. CASE LdRoutine
  <2>1. cpc' = cpc /\ proc' = proc /\ \A c \in CPU : phase'[c] = phase[c]
    BY <1>2, CpusKept
  <2>2. /\ done => done'
        /\ done' => phase'[Ld] = "gone" /\ i' = NProc + 1
    BY <1>0, <1>2 DEF LdRoutine, LdWait, LdAdd, LdDone, Clock!Arrive, Clock!Leave, ldv,
                      BarrierInv
  <2> QED BY <2>1, <2>2 DEF BarrierInv
<1>3. CASE TimerTick
  BY <1>0, <1>3, TickKeeps DEF BarrierInv
<1>4. CASE UNCHANGED vars
  BY <1>4 DEF vars, BarrierInv
<1> QED BY <1>1, <1>2, <1>3, <1>4 DEF Next, Ended

LEMMA SinceNext ==
  ASSUME IInv, SinceInv, [Next]_vars
  PROVE  SinceInv'
<1> SUFFICES ASSUME ~exited', NEW c \in CPU, NEW p \in since'[c]
             PROVE  Queued(p)'
  BY DEF SinceInv
<1>0. /\ queue \in [Level -> Seq(Proc)] /\ since \in [CPU -> SUBSET Proc]
      /\ exited \in BOOLEAN
  BY DEF IInv, TypeOK, ReadyType, HistoryType, LdType
<1>1. ASSUME NEW d \in CPU, CpuRoutine(d) PROVE Queued(p)'
  <2>1. ~exited
    BY <1>1 DEF CpuRoutine
  <2>2. \A e \in CPU : \A q \in since[e] : Queued(q)
    BY <2>1 DEF SinceInv
  <2>3. c # d => p \in since[c]
    BY <1>1, OthersKeep
  <2>4. CASE GetProc(d) /\ ~ Dequeue(d)
    BY <2>2, <2>4, ScanSteps DEF Queued
  <2>5. CASE Dequeue(d)
    <3>1. CASE queue[gi[d]] = <<>>
      BY <2>2, <2>5, <3>1, DequeueSteps DEF Queued
    <3>2. CASE queue[gi[d]] # <<>>
      <4>1. p \in since[c] /\ p # Head(queue[gi[d]])
        BY <2>5, <3>2, DequeueSteps
      <4> QED BY <1>0, <2>2, <2>5, <3>2, <4>1, DequeueSteps, QueuedTake
    <3> QED BY <3>1, <3>2
  <2>6. CASE Idle(d) \/ Finish(d) \/ PutProc(d)
    <3>1. CASE queue' = queue /\ since'[d] = Ready
      BY <2>2, <2>3, <3>1 DEF Ready, Queued
    <3>2. CASE proc[d] \in Proc /\ Enqueue(proc[d]) /\ since'[d] = Ready \cup {proc[d]}
      <4>1. queue' = [queue EXCEPT ![prio[proc[d]]] = Append(@, proc[d])]
        BY <3>2 DEF Enqueue
      <4>2. \A q : Queued(q)' <=> Queued(q) \/ q = proc[d]
        BY <1>0, <3>2, <4>1, QueuedAdd
      <4> QED BY <2>2, <2>3, <3>2, <4>2 DEF Ready
    <3> QED BY <2>6, <3>1, <3>2, CallSteps
  <2>7. CASE Continue(d) \/ GotNothing(d) \/ Stop(d) \/ Dispatch(d) \/ Run(d)
    <3>1. queue' = queue /\ p \in since[c]
      BY <1>0, <2>7 DEF Continue, GotNothing, Stop, Dispatch, Run, readyv
    <3> QED BY <2>2, <3>1 DEF Queued
  <2> QED BY <1>1, <2>4, <2>5, <2>6, <2>7 DEF CpuRoutine
<1>2. CASE LdRoutine
  <2>1. ~exited /\ since' = since
    BY <1>2, CpusKept
  <2>2. Queued(p)
    BY <2>1 DEF SinceInv
  <2>3. CASE queue' = queue
    BY <2>2, <2>3 DEF Queued
  <2>4. CASE i \in Proc /\ Enqueue(i)
    <3>1. queue' = [queue EXCEPT ![prio[i]] = Append(@, i)]
      BY <2>4 DEF Enqueue
    <3> QED BY <1>0, <2>2, <2>4, <3>1, QueuedAdd
  <2>5. queue' = queue \/ (i \in Proc /\ Enqueue(i))
    BY <1>2 DEF LdRoutine, LdWait, LdAdd, LdDone, readyv, IInv, TypeOK, LdType
  <2> QED BY <2>3, <2>4, <2>5
<1>3. CASE TimerTick \/ UNCHANGED vars
  <2>1. UNCHANGED <<queue, since, exited>>
    BY <1>3, TickKeeps DEF vars
  <2> QED BY <2>1 DEF SinceInv, Queued
<1> QED BY <1>1, <1>2, <1>3 DEF Next, Ended

LEMMA SeenNext ==
  ASSUME IInv, SinceInv, SeenInv, [Next]_vars
  PROVE  SeenInv'
<1> SUFFICES ASSUME ~exited', NEW c \in CPU, Scanning(c)', NEW p \in since'[c]
             PROVE  gi'[c] <= prio[p] \/ flag'[c] \/ cpc'[c] \in {"lock", "refill"}
  BY DEF SeenInv
<1>0. /\ cpc \in [CPU -> CpuPc] /\ gi \in [CPU -> 0..MAX_PRIO]
      /\ gj \in [CPU -> 0..MAX_PRIO] /\ flag \in [CPU -> BOOLEAN]
      /\ since' \in [CPU -> SUBSET Proc]
  <2>1. IInv'
    BY NextIInv
  <2> QED BY <2>1 DEF IInv, TypeOK, CpuType, ScanType, HistoryType
<1>1. p \in Proc /\ prio[p] \in Level
  BY <1>0, ConfigAssumption
<1>2. CASE CpuRoutine(c)
  <2>1. ~exited
    BY <1>2 DEF CpuRoutine
  <2>2. CASE GetProc(c) /\ ~ Dequeue(c)
    <3>1. p \in since[c] /\ Scanning(c)
      BY <2>2, ScanSteps
    <3>2. gi[c] <= prio[p] \/ flag[c] \/ cpc[c] \in {"lock", "refill"}
      BY <2>1, <3>1 DEF SeenInv
    <3>3. queue[prio[p]] # <<>>
      BY <2>1, <3>1, QueuedThere DEF SinceInv
    <3>4. CASE CheckEmpty(c)
      BY <1>0, <3>2, <3>4 DEF CheckEmpty
    <3>5. CASE CheckSlot(c)
      <4>1. gj[c] < gi[c] /\ cpc[c] = "checkslot"
        BY <3>5 DEF CheckSlot, IInv, IndexInv
      <4> QED BY <1>0, <1>1, <3>2, <3>5, <4>1 DEF CheckSlot, ScanFrom
    <3>6. CASE TestEmpty(c)
      <4>1. cpc[c] = "check" /\ flag' = flag
        BY <3>6 DEF TestEmpty
      <4>2. CASE queue[gi[c]] # <<>>
        BY <1>0, <3>2, <3>6, <4>1, <4>2 DEF TestEmpty
      <4>3. CASE queue[gi[c]] = <<>>
        <5>1. gi[c] # prio[p]
          BY <3>3, <4>3
        <5> QED BY <1>0, <1>1, <3>2, <3>6, <4>1, <4>3, <5>1 DEF TestEmpty, ScanFrom
      <4> QED BY <4>2, <4>3
    <3>7. CASE TestSlot(c)
      BY <1>0, <3>2, <3>7 DEF TestSlot, scanv
    <3>8. CASE LockSlots(c)
      BY <1>0, <3>8 DEF LockSlots
    <3>9. CASE RefillSlot(c)
      BY <1>0, <1>1, <3>9 DEF RefillSlot, ScanFrom
    <3> QED BY <2>2, <3>4, <3>5, <3>6, <3>7, <3>8, <3>9 DEF GetProc
  <2>3. CASE Dequeue(c)
    BY <2>3, DequeueSteps DEF Scanning
  <2>4. CASE Idle(c) \/ Finish(c) \/ PutProc(c)
    BY <1>1, <2>4, CallSteps
  <2>5. CASE Continue(c) \/ GotNothing(c) \/ Stop(c) \/ Dispatch(c) \/ Run(c)
    BY <1>0, <2>5 DEF Continue, GotNothing, Stop, Dispatch, Run, Scanning
  <2> QED BY <1>2, <2>2, <2>3, <2>4, <2>5 DEF CpuRoutine
<1>3. ASSUME NEW d \in CPU, d # c, CpuRoutine(d)
      PROVE  gi'[c] <= prio[p] \/ flag'[c] \/ cpc'[c] \in {"lock", "refill"}
  <2>1. ~exited
    BY <1>3 DEF CpuRoutine
  <2>2. cpc'[c] = cpc[c] /\ gi'[c] = gi[c] /\ flag'[c] = flag[c] /\ p \in since[c]
    BY <1>3, OthersKeep
  <2> QED BY <2>1, <2>2 DEF SeenInv, Scanning
<1>4. CASE LdRoutine
  BY <1>4, CpusKept DEF SeenInv, Scanning
<1>5. CASE TimerTick \/ UNCHANGED vars
  <2>1. UNCHANGED <<cpc, gi, flag, since, exited>>
    BY <1>5, TickKeeps DEF vars
  <2> QED BY <2>1 DEF SeenInv, Scanning
<1> QED BY <1>2, <1>3, <1>4, <1>5 DEF Next, Ended

LEMMA EmptiedNext ==
  ASSUME IInv, BarrierInv, EmptiedInv, [Next]_vars
  PROVE  EmptiedInv'
<1> SUFFICES ASSUME NEW c \in CPU, cpc'[c] \in {"slot", "deq"}, queue'[gi'[c]] = <<>>
             PROVE  \E d \in CPU : Committed(d)'
  BY DEF EmptiedInv
<1>0. /\ cpc \in [CPU -> CpuPc] /\ gi \in [CPU -> 0..MAX_PRIO]
      /\ gj \in [CPU -> 0..MAX_PRIO] /\ queue \in [Level -> Seq(Proc)]
      /\ phase \in [Device -> {"running", "waiting", "gone"}]
  BY DEF IInv, TypeOK, CpuType, ScanType, ReadyType, ClockType
<1>1. CASE cpc[c] \in {"slot", "deq"} /\ queue[gi[c]] = <<>> /\ ~ TimerTick
  BY <1>1, CommittedStays DEF EmptiedInv, Next, Ended
<1>2. CASE CpuRoutine(c)
  <2>1. CASE GetProc(c) /\ ~ Dequeue(c)
    <3>1. queue' = queue
      BY <2>1, ScanSteps
    <3>2. TestEmpty(c) \/ TestSlot(c)
      BY <1>0, <2>1 DEF GetProc, CheckEmpty, CheckSlot, LockSlots, RefillSlot, ScanFrom
    <3>3. CASE TestEmpty(c)
      BY <1>0, <3>1, <3>3 DEF TestEmpty, ScanFrom
    <3>4. CASE TestSlot(c)
      <4>1. cpc[c] = "slot" /\ gi' = gi
        BY <1>0, <3>4 DEF TestSlot, ScanFrom, scanv
      <4>2. ~ TimerTick
        BY <1>0, <4>1, TickKeeps DEF BarrierInv
      <4> QED BY <1>1, <3>1, <4>1, <4>2
    <3> QED BY <3>2, <3>3, <3>4
  <2>2. CASE ~ (GetProc(c) /\ ~ Dequeue(c))
    <3>1. cpc'[c] \notin {"slot", "deq"}
      BY <1>0, <1>2, <2>2, DequeueSteps, CallSteps
         DEF CpuRoutine, Continue, GotNothing, Stop, Dispatch, Run
    <3> QED BY <3>1
  <2> QED BY <2>1, <2>2
<1>3. ASSUME NEW d \in CPU, d # c, CpuRoutine(d)
      PROVE  \E e \in CPU : Committed(e)'
  <2>1. cpc'[c] = cpc[c] /\ gi'[c] = gi[c]
    BY <1>3, OthersKeep
  <2>2. ~ TimerTick
    BY <1>0, <2>1, TickKeeps DEF BarrierInv
  <2>3. CASE queue[gi[c]] = <<>>
    BY <1>1, <2>1, <2>2, <2>3
  <2>4. CASE queue[gi[c]] # <<>>
    <3>1. gi[c] \in Level
      BY <1>0, <2>1 DEF IInv, IndexInv
    <3>2. CASE Dequeue(d)
      BY <2>1, <2>4, <3>2, DequeueSteps DEF Committed
    <3>3. CASE GetProc(d) /\ ~ Dequeue(d)
      BY <2>1, <2>4, <3>3, ScanSteps
    <3>4. CASE Idle(d) \/ Finish(d) \/ PutProc(d)
      <4>1. queue' # queue => proc[d] \in Proc /\ Enqueue(proc[d])
        BY <3>4, CallSteps
      <4>2. CASE proc[d] \in Proc /\ Enqueue(proc[d]) /\ queue' # queue
        <5>1. queue' = [queue EXCEPT ![prio[proc[d]]] = Append(@, proc[d])]
          BY <4>2 DEF Enqueue
        <5>2. prio[proc[d]] \in Level /\ queue[prio[proc[d]]] \in Seq(Proc)
          BY <1>0, <4>2, ConfigAssumption
        <5>3. Append(queue[prio[proc[d]]], proc[d]) # <<>>
          BY <4>2, <5>2, AppendNonempty
        <5> QED BY <1>0, <2>1, <2>4, <3>1, <5>1, <5>2, <5>3
      <4> QED BY <2>1, <2>4, <4>1, <4>2
    <3>5. CASE Continue(d) \/ GotNothing(d) \/ Stop(d) \/ Dispatch(d) \/ Run(d)
      BY <2>1, <2>4, <3>5 DEF Continue, GotNothing, Stop, Dispatch, Run, readyv
    <3> QED BY <1>3, <3>2, <3>3, <3>4, <3>5 DEF CpuRoutine
  <2> QED BY <2>3, <2>4
<1>4. CASE LdRoutine
  <2>1. cpc' = cpc /\ gi' = gi
    BY <1>4, CpusKept
  <2>2. ~ TimerTick
    BY <1>0, <2>1, TickKeeps DEF BarrierInv
  <2>3. CASE queue[gi[c]] # <<>>
    <3>1. gi[c] \in Level
      BY <1>0, <2>1 DEF IInv, IndexInv
    <3>2. CASE queue' = queue
      BY <2>1, <2>3, <3>2
    <3>3. CASE i \in Proc /\ Enqueue(i) /\ queue' # queue
      <4>1. queue' = [queue EXCEPT ![prio[i]] = Append(@, i)]
        BY <3>3 DEF Enqueue
      <4>2. prio[i] \in Level /\ queue[prio[i]] \in Seq(Proc)
        BY <1>0, <3>3, ConfigAssumption
      <4>3. Append(queue[prio[i]], i) # <<>>
        BY <3>3, <4>2, AppendNonempty
      <4> QED BY <1>0, <2>1, <2>3, <3>1, <4>1, <4>2, <4>3
    <3> QED BY <1>4, <3>2, <3>3
        DEF LdRoutine, LdWait, LdAdd, LdDone, readyv, IInv, TypeOK, LdType
  <2> QED BY <1>1, <2>1, <2>2, <2>3
<1>5. CASE TimerTick
  BY <1>0, <1>5, TickKeeps DEF BarrierInv
<1>6. CASE UNCHANGED vars
  BY <1>6 DEF vars, EmptiedInv, Committed
<1> QED BY <1>2, <1>3, <1>4, <1>5, <1>6 DEF Next, Ended

LEMMA NullNext ==
  ASSUME IInv, ScheduleInv, [Next]_vars
  PROVE  NullMeansTaken'
<1> SUFFICES ASSUME NEW c \in CPU, cpc'[c] = "got", proc'[c] = NULL, since'[c] # {}
             PROVE  \E d \in CPU : Committed(d)'
  BY DEF NullMeansTaken
<1> USE DEF ScheduleInv
<1>0. /\ cpc \in [CPU -> CpuPc] /\ gi \in [CPU -> 0..MAX_PRIO]
      /\ gj \in [CPU -> 0..MAX_PRIO] /\ since \in [CPU -> SUBSET Proc]
      /\ phase \in [Device -> {"running", "waiting", "gone"}]
  BY DEF IInv, TypeOK, CpuType, ScanType, HistoryType, ClockType
<1>1. CASE CpuRoutine(c)
  <2>1. ~exited
    BY <1>1 DEF CpuRoutine
  <2>2. CASE GetProc(c) /\ ~ Dequeue(c)
    <3>1. since' = since /\ Scanning(c)
      BY <2>2, ScanSteps
    <3>2. PICK p : p \in since[c]
      BY <3>1
    <3>3. p \in Proc /\ prio[p] \in Level /\ queue[prio[p]] # <<>>
      BY <2>1, <3>2, QueuedThere DEF SinceInv
    <3>4. gi[c] <= prio[p] \/ flag[c] \/ cpc[c] \in {"lock", "refill"}
      BY <2>1, <3>1, <3>2 DEF SeenInv
    <3>5. TestEmpty(c) /\ queue[gi[c]] = <<>>
      BY <1>0, <2>2 DEF GetProc, CheckEmpty, CheckSlot, TestEmpty, TestSlot, LockSlots,
                        RefillSlot, ScanFrom, IInv, IndexInv
    <3>6. /\ cpc[c] = "check" /\ gi[c] + 1 >= MAX_PRIO /\ gi[c] < MAX_PRIO
          /\ ~ (flag[c] /\ gi[c] = MAX_PRIO - 1)
      BY <1>0, <3>5 DEF TestEmpty, ScanFrom, IInv, IndexInv
    <3>7. gi[c] = prio[p]
      <4>1. gi[c] = MAX_PRIO - 1 /\ prio[p] <= MAX_PRIO - 1
        BY <1>0, <3>3, <3>6
      <4>2. gi[c] <= prio[p]
        BY <3>4, <3>6, <4>1
      <4> QED BY <1>0, <3>3, <4>1, <4>2
    <3> QED BY <3>3, <3>5, <3>7
  <2>3. CASE Dequeue(c)
    <3>1. queue[gi[c]] = <<>> /\ cpc[c] = "deq"
      BY <2>3, DequeueSteps
    <3>2. PICK d \in CPU : Committed(d)
      BY <3>1 DEF EmptiedInv
    <3> QED BY <1>1, <3>2, CommittedStays
  <2>4. CASE ~ GetProc(c)
    BY <1>0, <1>1, <2>4, CallSteps
       DEF CpuRoutine, Continue, GotNothing, Stop, Dispatch, Run
  <2> QED BY <2>2, <2>3, <2>4
<1>2. CASE cpc[c] = "got" /\ proc[c] = NULL /\ since[c] # {} /\ ~ TimerTick
  BY <1>2, CommittedStays DEF NullMeansTaken, Next, Ended
<1>3. CASE TimerTick
  BY <1>0, <1>3, TickKeeps DEF BarrierInv
<1>4. ASSUME NEW d \in CPU, d # c, CpuRoutine(d)
      PROVE  cpc[c] = "got" /\ proc[c] = NULL /\ since[c] # {}
  <2>1. cpc'[c] = cpc[c] /\ proc'[c] = proc[c] /\ \A p \in since'[c] : p \in since[c]
    BY <1>4, OthersKeep
  <2> QED BY <2>1
<1>5. CASE LdRoutine \/ UNCHANGED vars
  BY <1>2, <1>3, <1>5, CpusKept DEF vars
<1> QED BY <1>1, <1>2, <1>3, <1>4, <1>5 DEF Next, Ended

LEMMA ScheduleNext == IInv /\ ScheduleInv /\ [Next]_vars => ScheduleInv'
BY BarrierNext, SinceNext, SeenNext, EmptiedNext, NullNext DEF ScheduleInv

\* The inductive invariant about the scan.
THEOREM ScheduleInvariance == Spec => []ScheduleInv
BY InitSchedule, ScheduleNext, Invariance, PTL DEF Spec

\* A CPU that is told there is nothing to run, while a process has been ready all
\* through its get_proc, has lost it to a CPU that runs in this slot, for any
\* number of CPUs.  On one CPU a NULL therefore means that nothing was ready.
THEOREM NullExplained == Spec => []NullMeansTaken
<1>1. ScheduleInv => NullMeansTaken
  BY DEF ScheduleInv
<1> QED BY <1>1, ScheduleInvariance, PTL

-----------------------------------------------------------------------------
(* How the CPUs stop.                                                      *)

LEMMA WatchedNext ==
  ASSUME CPU # {}, IInv, ScheduleInv, WatchedInv, [Next]_vars
  PROVE  WatchedInv'
<1> SUFFICES ASSUME ~exited', NEW p \in Ready', phase'[Ld] # "waiting"
             PROVE  \E c \in CPU : Caretaker(c, p)'
  BY DEF WatchedInv
<1>0. /\ cpc \in [CPU -> CpuPc] /\ proc \in [CPU -> Proc \cup {NULL}]
      /\ queue \in [Level -> Seq(Proc)] /\ since \in [CPU -> SUBSET Proc]
      /\ phase \in [Device -> {"running", "waiting", "gone"}]
  BY DEF IInv, TypeOK, CpuType, ReadyType, HistoryType, ClockType
<1>1. NullMeansTaken'
  BY ScheduleNext DEF ScheduleInv
<1>2. ASSUME NEW d \in CPU, CpuRoutine(d) PROVE \E c \in CPU : Caretaker(c, p)'
  <2>1. ~exited /\ phase'[Ld] = phase[Ld]
    BY <1>2, LoaderKept
  <2>2. CASE Continue(d) \/ GotNothing(d) \/ Dispatch(d) \/ Run(d)
    BY <1>0, <2>2 DEF Continue, GotNothing, Dispatch, Run, Caretaker
  <2>3. CASE Idle(d) \/ Finish(d) \/ PutProc(d)
    <3>1. cpc'[d] = "check"
      BY <2>3, CallSteps
    <3>2. CASE queue' = queue /\ since'[d] = Ready
      BY <3>1, <3>2 DEF Caretaker, Scanning, Ready, Queued
    <3>3. CASE proc[d] \in Proc /\ Enqueue(proc[d]) /\ since'[d] = Ready \cup {proc[d]}
      <4>1. queue' = [queue EXCEPT ![prio[proc[d]]] = Append(@, proc[d])]
        BY <3>3 DEF Enqueue
      <4>2. \A q : Queued(q)' <=> Queued(q) \/ q = proc[d]
        BY <1>0, <3>3, <4>1, QueuedAdd
      <4>3. p \in since'[d]
        BY <3>3, <4>2 DEF Ready
      <4> QED BY <3>1, <4>3 DEF Caretaker, Scanning
    <3> QED BY <2>3, <3>2, <3>3, CallSteps
  <2>4. CASE Dequeue(d) /\ queue[gi[d]] # <<>>
    BY <2>4, DequeueSteps DEF Caretaker
  <2>5. CASE \/ GetProc(d) /\ ~ Dequeue(d)
             \/ Dequeue(d) /\ queue[gi[d]] = <<>>
             \/ Stop(d)
    <3>1. /\ queue' = queue /\ proc' = proc
          /\ \A c \in CPU \ {d} : since'[c] = since[c]
      BY <1>0, <2>5, ScanSteps, DequeueSteps DEF Stop, readyv
    <3>2. p \in Ready
      BY <3>1 DEF Ready, Queued
    <3>3. PICK c \in CPU : Caretaker(c, p)
      BY <2>1, <3>2 DEF WatchedInv
    <3>4. CASE c # d
      <4>1. cpc'[c] = cpc[c] /\ proc'[c] = proc[c] /\ since'[c] = since[c]
        BY <1>2, <3>1, <3>4, OthersKeep
      <4> QED BY <3>3, <4>1 DEF Caretaker, Scanning
    <3>5. CASE c = d
      <4>1. ~ Stop(d)
        BY <3>3, <3>5 DEF Stop, Caretaker, Scanning
      <4>2. since' = since /\ Scanning(d)
        BY <2>5, <4>1, ScanSteps, DequeueSteps DEF Scanning
      <4>3. p \in since[d] /\ proc[d] = NULL
        BY <3>3, <3>5, <4>2 DEF Caretaker, Scanning, IInv, ScanInv
      <4>4. Scanning(d)' \/ cpc'[d] = "got"
        BY <2>5, <4>1, ScanSteps, DequeueSteps DEF Scanning
      <4>5. CASE Scanning(d)'
        BY <4>2, <4>3, <4>5 DEF Caretaker
      <4>6. CASE cpc'[d] = "got"
        <5>1. PICK e \in CPU : Committed(e)'
          BY <1>1, <3>1, <4>2, <4>3, <4>6 DEF NullMeansTaken
        <5> QED BY <5>1 DEF Committed, Caretaker
      <4> QED BY <4>4, <4>5, <4>6
    <3> QED BY <3>4, <3>5
  <2> QED BY <1>2, <2>2, <2>3, <2>4, <2>5 DEF CpuRoutine, GetProc
<1>3. CASE LdRoutine
  <2>1. LdDone /\ ~exited
    BY <1>0, <1>3 DEF LdRoutine, LdWait, LdAdd, Clock!Arrive
  <2>2. UNCHANGED <<cpc, proc, since>>
    BY <1>3, CpusKept
  <2>3. p \in Ready /\ phase[Ld] # "waiting"
    BY <2>1 DEF LdDone, Clock!Leave, readyv, Ready, Queued
  <2>4. PICK c \in CPU : Caretaker(c, p)
    BY <2>1, <2>3 DEF WatchedInv
  <2> QED BY <2>2, <2>4 DEF Caretaker, Scanning
<1>4. CASE TimerTick
  <2>1. /\ UNCHANGED <<cpc, proc, since, queue, exited>>
        /\ \A d \in Device : phase[d] # "running"
    BY <1>4, TickKeeps
  <2>2. CASE phase[Ld] = "waiting"
    <3>1. PICK c \in CPU : TRUE
      OBVIOUS
    <3>2. ~ done
      BY <2>2 DEF ScheduleInv, BarrierInv
    <3>3. cpc[c] # "stopped" /\ phase[c] # "gone"
      BY <3>2 DEF ScheduleInv, BarrierInv
    <3>4. phase[c] = "waiting"
      BY <1>0, <2>1, <3>3
    <3>5. cpc[c] = "top"
      BY <3>4 DEF ScheduleInv, BarrierInv
    <3> QED BY <2>1, <3>5 DEF Caretaker
  <2>3. CASE phase[Ld] # "waiting"
    <3>1. p \in Ready /\ ~exited
      BY <2>1 DEF Ready, Queued
    <3>2. PICK c \in CPU : Caretaker(c, p)
      BY <2>3, <3>1 DEF WatchedInv
    <3> QED BY <2>1, <3>2 DEF Caretaker, Scanning
  <2> QED BY <2>2, <2>3
<1>5. CASE UNCHANGED vars
  <2>1. UNCHANGED <<cpc, proc, since, queue, exited, phase>>
    BY <1>5 DEF vars
  <2>2. p \in Ready /\ ~exited /\ phase[Ld] # "waiting"
    BY <2>1 DEF Ready, Queued
  <2>3. PICK c \in CPU : Caretaker(c, p)
    BY <2>2 DEF WatchedInv
  <2> QED BY <2>1, <2>3 DEF Caretaker, Scanning
<1> QED BY <1>2, <1>3, <1>4, <1>5 DEF Next, Ended

LEMMA ExitNext ==
  ASSUME CPU # {}, IInv, BarrierInv, ExitInv, [Next]_vars
  PROVE  ExitInv'
<1> SUFFICES ASSUME exited' PROVE \E c \in CPU : cpc'[c] # "stopped"
  BY DEF ExitInv
<1>1. ASSUME NEW d \in CPU, CpuRoutine(d) PROVE cpc'[d] # "stopped"
  <2>1. ~exited
    BY <1>1 DEF CpuRoutine
  <2>2. Idle(d) \/ Finish(d) \/ PutProc(d)
    BY <1>1, <2>1, ScanSteps, DequeueSteps
       DEF CpuRoutine, GetProc, Continue, GotNothing, Stop, Dispatch, Run, ldv
  <2> QED BY <2>2, CallSteps
<1>2. CASE LdRoutine
  <2>1. PICK c \in CPU : TRUE
    OBVIOUS
  <2>2. phase[Ld] = "running" /\ cpc' = cpc
    BY <1>2, CpusKept DEF LdRoutine, LdWait, LdAdd, LdDone
  <2>3. ~ done
    BY <2>2 DEF BarrierInv
  <2> QED BY <2>2, <2>3 DEF BarrierInv
<1>3. CASE TimerTick \/ UNCHANGED vars
  <2>1. UNCHANGED <<cpc, exited>>
    BY <1>3, TickKeeps DEF vars
  <2> QED BY <2>1 DEF ExitInv
<1> QED BY <1>1, <1>2, <1>3 DEF Next, Ended

\* The CPUs stop only after the loader is done, and the last one to stop leaves
\* no process behind, for any number of CPUs: although a CPU that loses a race
\* for a ready queue stops while processes are ready, the CPU that won the race
\* is still there.
THEOREM NothingAbandoned ==
  ASSUME CPU # {}
  PROVE  Spec => []NoWorkAbandoned
<1>1. IInv /\ ScheduleInv /\ StopInv /\ [Next]_vars => StopInv'
  BY WatchedNext, ExitNext DEF ScheduleInv, StopInv
<1>2. IInv /\ ScheduleInv /\ StopInv => NoWorkAbandoned
  <2> SUFFICES ASSUME IInv, ScheduleInv, StopInv, \A c \in CPU : cpc[c] = "stopped"
               PROVE  done /\ freed = Proc
    BY DEF NoWorkAbandoned
  <2>1. ~exited
    BY DEF StopInv, ExitInv
  <2>2. /\ \A c \in CPU : proc[c] = NULL
        /\ done /\ phase[Ld] = "gone" /\ i = NProc + 1
    BY DEF ScheduleInv, BarrierInv
  <2>3. Loaded = Proc
    BY <2>2 DEF Loaded
  <2>4. Ready = {}
    BY <2>1, <2>2 DEF StopInv, WatchedInv, Caretaker, Scanning
  <2>5. \A p \in Proc \ freed : Held(p) \/ Queued(p)
    BY <2>1, <2>3 DEF IInv, OnePlace
  <2>6. \A p \in Proc : ~ Held(p) /\ ~ Queued(p)
    BY <2>2, <2>4 DEF Held, Ready
  <2>7. freed \subseteq Proc
    BY DEF IInv, TypeOK, ProcType
  <2> QED BY <2>2, <2>5, <2>6, <2>7
<1> QED BY <1>1, <1>2, InitSchedule, ScheduleInvariance, Invariance, PTL DEF Spec

-----------------------------------------------------------------------------
(* Preemption.                                                             *)

LEMMA SliceNext ==
  ASSUME time_slot > 0, IInv, SliceInv, [Next]_vars
  PROVE  SliceInv'
<1>0. /\ cpc \in [CPU -> CpuPc] /\ proc \in [CPU -> Proc \cup {NULL}]
      /\ time_left \in [CPU -> Int]
  BY DEF IInv, TypeOK, CpuType
<1>1. ASSUME NEW c \in CPU, CpuRoutine(c) PROVE SliceInv'
  <2>1. \A d \in CPU \ {c} :
          cpc'[d] = cpc[d] /\ proc'[d] = proc[d] /\ time_left'[d] = time_left[d]
    BY <1>1, OthersKeep
  <2>2. /\ cpc'[c] \notin {"top", "run"} => time_left'[c] = 0
        /\ cpc'[c] = "run" => time_left'[c] \in 1 .. time_slot
        /\ cpc'[c] = "top" => IF proc'[c] = NULL THEN time_left'[c] = 0
                              ELSE time_left'[c] \in 0 .. time_slot - 1
    <3>1. CASE GetProc(c) /\ ~ Dequeue(c)
      BY <3>1, ScanSteps DEF SliceInv, Scanning
    <3>2. CASE Dequeue(c)
      BY <3>2, DequeueSteps DEF SliceInv
    <3>3. CASE Idle(c) \/ Finish(c) \/ PutProc(c)
      <4>1. cpc[c] = "top" /\ cpc'[c] = "check"
        BY <3>3, CallSteps
      <4>2. time_left'[c] = 0
        BY <1>0, <3>3, <4>1 DEF Idle, Finish, PutProc, SliceInv
      <4> QED BY <4>1, <4>2
    <3>4. CASE Continue(c)
      BY <1>0, <3>4 DEF Continue, AtTop, SliceInv
    <3>5. CASE GotNothing(c) \/ Stop(c)
      BY <1>0, <3>5 DEF GotNothing, Stop, SliceInv
    <3>6. CASE Dispatch(c)
      BY <1>0, <3>6 DEF Dispatch, SliceInv
    <3>7. CASE Run(c)
      <4>1. proc[c] # NULL /\ proc' = proc /\ cpc'[c] = "top"
        BY <1>0, <3>7 DEF Run, IInv, ScanInv
      <4>2. time_left[c] \in 1 .. time_slot /\ time_left'[c] = time_left[c] - 1
        BY <1>0, <3>7 DEF Run, SliceInv
      <4> QED BY <4>1, <4>2
    <3> QED BY <1>1, <3>1, <3>2, <3>3, <3>4, <3>5, <3>6, <3>7 DEF CpuRoutine
  <2> QED BY <2>1, <2>2 DEF SliceInv
<1>2. CASE LdRoutine \/ TimerTick \/ UNCHANGED vars
  <2>1. UNCHANGED <<cpc, proc, time_left>>
    BY <1>2, CpusKept, TickKeeps DEF vars
  <2> QED BY <2>1 DEF SliceInv
<1> QED BY <1>1, <1>2 DEF Next, Ended

\* A process runs for at most time_slot instructions before it is put back, for
\* any number of CPUs and any length of the slice but 0, which os.c:82 would
\* never see again.
THEOREM Preempted ==
  ASSUME time_slot > 0
  PROVE  Spec => []SliceRespected
<1>1. Init => SliceInv
  BY DEF Init, SliceInv
<1>2. SliceInv => SliceRespected
  BY DEF SliceInv, SliceRespected
<1> QED BY <1>1, <1>2, SliceNext, Invariance, PTL DEF Spec

-----------------------------------------------------------------------------
(* The slots of the levels.                                                *)

\* What a step does to one level: a refill, or the test that a CPU passes,
\* leave a positive number of slots; a dequeue spends the slot of a CPU that
\* had passed the test.
LEMMA SlotSteps ==
  ASSUME IInv, SlotInv, [Next]_vars, NEW l \in Level
  PROVE  /\ slot'[l] \in Int /\ slot'[l] <= MAX_PRIO - l
         /\ \/ slot'[l] >= 1
            \/ slot'[l] = slot[l] /\ Spending(l)' = Spending(l)
            \/ \E c \in Spending(l) : /\ slot'[l] = slot[l] - 1
                                      /\ Spending(l)' = Spending(l) \ {c}
<1>0. /\ cpc \in [CPU -> CpuPc] /\ gi \in [CPU -> 0..MAX_PRIO]
      /\ gj \in [CPU -> 0..MAX_PRIO] /\ slot \in [Level -> Int]
  BY DEF IInv, TypeOK, CpuType, ScanType, ReadyType
<1>1. slot[l] \in Int /\ slot[l] <= MAX_PRIO - l
  BY <1>0 DEF SlotInv
<1>2. ASSUME NEW c \in CPU, CpuRoutine(c), ~ Dequeue(c), ~ TestSlot(c), ~ RefillSlot(c)
      PROVE  slot' = slot /\ Spending(l)' = Spending(l)
  <2>1. \A d \in CPU \ {c} : cpc'[d] = cpc[d] /\ gi'[d] = gi[d]
    BY <1>2, OthersKeep
  <2>2. slot' = slot /\ cpc[c] # "deq" /\ cpc'[c] # "deq"
    <3>1. CASE GetProc(c)
      BY <1>0, <1>2, <3>1 DEF GetProc, CheckEmpty, CheckSlot, TestEmpty, LockSlots,
                              ScanFrom, readyv
    <3>2. CASE Idle(c) \/ Finish(c) \/ PutProc(c)
      BY <3>2, CallSteps
    <3>3. CASE Continue(c) \/ GotNothing(c) \/ Stop(c) \/ Dispatch(c) \/ Run(c)
      BY <1>0, <3>3 DEF Continue, GotNothing, Stop, Dispatch, Run, AtTop, readyv
    <3> QED BY <1>2, <3>1, <3>2, <3>3 DEF CpuRoutine
  <2> QED BY <2>1, <2>2 DEF Spending
<1>3. ASSUME NEW c \in CPU, CpuRoutine(c), Dequeue(c)
      PROVE  IF gi[c] = l
               THEN /\ c \in Spending(l) /\ slot'[l] = slot[l] - 1
                    /\ Spending(l)' = Spending(l) \ {c}
               ELSE slot'[l] = slot[l] /\ Spending(l)' = Spending(l)
  <2>1. \A d \in CPU \ {c} : cpc'[d] = cpc[d] /\ gi'[d] = gi[d]
    BY <1>3, OthersKeep
  <2>2. cpc[c] = "deq" /\ cpc'[c] = "got" /\ gi[c] \in Level
    BY <1>3, DequeueSteps
  <2>3. slot' = [slot EXCEPT ![gi[c]] = @ - 1]
    BY <1>3 DEF Dequeue
  <2> QED BY <1>0, <2>1, <2>2, <2>3 DEF Spending
<1>4. ASSUME NEW c \in CPU, CpuRoutine(c), TestSlot(c)
      PROVE  slot' = slot /\ (slot[l] >= 1 \/ Spending(l)' = Spending(l))
  <2>1. \A d \in CPU \ {c} : cpc'[d] = cpc[d] /\ gi'[d] = gi[d]
    BY <1>4, OthersKeep
  <2>2. slot' = slot /\ cpc[c] = "slot"
    BY <1>4 DEF TestSlot, readyv
  <2>3. CASE cpc'[c] = "deq"
    <3>1. slot[gi[c]] > 0 /\ gi' = gi
      BY <1>0, <1>4, <2>3 DEF TestSlot, ScanFrom, scanv
    <3>2. CASE gi[c] = l
      BY <1>1, <2>2, <3>1, <3>2
    <3>3. CASE gi[c] # l
      BY <2>1, <2>2, <3>1, <3>3 DEF Spending
    <3> QED BY <3>2, <3>3
  <2>4. CASE cpc'[c] # "deq"
    BY <2>1, <2>2, <2>4 DEF Spending
  <2> QED BY <2>3, <2>4
<1>5. ASSUME NEW c \in CPU, CpuRoutine(c), RefillSlot(c)
      PROVE  /\ Spending(l)' = Spending(l)
             /\ slot'[l] = slot[l] \/ slot'[l] = MAX_PRIO - l
  <2>1. \A d \in CPU \ {c} : cpc'[d] = cpc[d] /\ gi'[d] = gi[d]
    BY <1>5, OthersKeep
  <2>2. cpc[c] = "refill" /\ cpc'[c] # "deq"
    BY <1>0, <1>5 DEF RefillSlot, ScanFrom
  <2>3. slot'[l] = slot[l] \/ slot'[l] = MAX_PRIO - l
    BY <1>0, <1>5 DEF RefillSlot
  <2> QED BY <2>1, <2>2, <2>3 DEF Spending
<1>6. ASSUME LdRoutine \/ TimerTick \/ UNCHANGED vars
      PROVE  slot' = slot /\ Spending(l)' = Spending(l)
  <2>1. UNCHANGED <<slot, cpc, gi>>
    BY <1>6, CpusKept, TickKeeps DEF vars
  <2> QED BY <2>1 DEF Spending
<1>7. ASSUME NEW c \in CPU, CpuRoutine(c)
      PROVE  /\ slot'[l] \in Int /\ slot'[l] <= MAX_PRIO - l
             /\ \/ slot'[l] >= 1
                \/ slot'[l] = slot[l] /\ Spending(l)' = Spending(l)
                \/ \E e \in Spending(l) : /\ slot'[l] = slot[l] - 1
                                          /\ Spending(l)' = Spending(l) \ {e}
  <2>1. CASE Dequeue(c)
    BY <1>1, <1>3, <1>7, <2>1
  <2>2. CASE TestSlot(c)
    BY <1>1, <1>4, <1>7, <2>2
  <2>3. CASE RefillSlot(c)
    BY <1>1, <1>5, <1>7, <2>3
  <2>4. CASE ~ Dequeue(c) /\ ~ TestSlot(c) /\ ~ RefillSlot(c)
    BY <1>1, <1>2, <1>7, <2>4
  <2> QED BY <2>1, <2>2, <2>3, <2>4
<1> QED BY <1>1, <1>6, <1>7 DEF Next, Ended

LEMMA SlotNext ==
  ASSUME IInv, SlotInv, [Next]_vars
  PROVE  SlotInv'
<1> SUFFICES ASSUME NEW l \in Level
             PROVE  /\ slot'[l] <= MAX_PRIO - l
                    /\ 1 - Cardinality(CPU) <= slot'[l] - Cardinality(Spending(l)')
  BY DEF SlotInv
<1>1. \A S \in SUBSET CPU : /\ IsFiniteSet(S) /\ Cardinality(S) \in Nat
                            /\ Cardinality(S) <= Cardinality(CPU)
  BY CpuAssumption, FS_Subset, FS_CardinalityType
<1>2. Cardinality(CPU) \in Nat
  BY CpuAssumption, FS_CardinalityType
<1>3. Spending(l) \in SUBSET CPU /\ Spending(l)' \in SUBSET CPU
  BY DEF Spending
<1>4. slot[l] \in Int /\ 1 - Cardinality(CPU) <= slot[l] - Cardinality(Spending(l))
  BY DEF SlotInv, IInv, TypeOK, ReadyType
<1>5. slot'[l] \in Int /\ slot'[l] <= MAX_PRIO - l
  BY SlotSteps
<1>6. CASE slot'[l] >= 1
  BY <1>1, <1>2, <1>3, <1>5, <1>6
<1>7. CASE slot'[l] = slot[l] /\ Spending(l)' = Spending(l)
  BY <1>4, <1>5, <1>7
<1>8. ASSUME NEW c \in Spending(l), slot'[l] = slot[l] - 1,
             Spending(l)' = Spending(l) \ {c}
      PROVE  1 - Cardinality(CPU) <= slot'[l] - Cardinality(Spending(l)')
  <2>1. Cardinality(Spending(l)') = Cardinality(Spending(l)) - 1
    BY <1>1, <1>3, <1>8, FS_RemoveElement
  <2>2. Cardinality(Spending(l)) \in Nat
    BY <1>1, <1>3
  <2> QED BY <1>2, <1>4, <1>8, <2>1, <2>2
<1> QED BY <1>5, <1>6, <1>7, <1>8, SlotSteps

\* The unlocked test of slot[i] overdraws a level by at most one slot for every
\* CPU but one, for any number of CPUs and levels.
THEOREM OverdraftBounded == Spec => []SlotFloor
<1>1. Init => SlotInv
  <2> SUFFICES ASSUME Init PROVE SlotInv
    OBVIOUS
  <2>1. \A l \in Level : slot[l] = MAX_PRIO - l /\ Spending(l) = {}
    BY DEF Init, Spending
  <2>2. Cardinality({}) = 0 /\ Cardinality(CPU) \in Nat
    BY CpuAssumption, FS_EmptySet, FS_CardinalityType
  <2>3. \A l \in Level : 1 - Cardinality(CPU) <= MAX_PRIO - l - 0
    BY <2>2
  <2>4. \A l \in Level : Cardinality(Spending(l)) = 0
    BY <2>1, <2>2
  <2>5. ASSUME NEW l \in Level
        PROVE  /\ slot[l] <= MAX_PRIO - l
               /\ 1 - Cardinality(CPU) <= slot[l] - Cardinality(Spending(l))
    BY <2>1, <2>3, <2>4
  <2> QED BY <2>5 DEF SlotInv
<1>2. IInv /\ SlotInv => SlotFloor
  <2> SUFFICES ASSUME IInv, SlotInv, NEW l \in Level
               PROVE  slot[l] \in (1 - Cardinality(CPU))..(MAX_PRIO - l)
    BY DEF SlotFloor
  <2>1. Spending(l) \in SUBSET CPU
    BY DEF Spending
  <2>2. Cardinality(Spending(l)) \in Nat /\ Cardinality(CPU) \in Nat
    BY <2>1, CpuAssumption, FS_Subset, FS_CardinalityType
  <2>3. slot[l] \in Int
    BY DEF IInv, TypeOK, ReadyType
  <2> QED BY <2>2, <2>3 DEF SlotInv
<1> QED BY <1>1, <1>2, SlotNext, Invariance, PTL DEF Spec

\* On one CPU the slots of a level keep the range that sched.c:53 gives them.
THEOREM SlotsOnOneCpu ==
  ASSUME \A c, d \in CPU : c = d
  PROVE  Spec => []SlotInRange
<1>1. Cardinality(CPU) \in 0..1
  <2>1. CASE CPU = {}
    BY <2>1, FS_EmptySet
  <2>2. CASE CPU # {}
    <3>1. PICK c \in CPU : CPU = {c}
      BY <2>2
    <3>2. Cardinality({c}) = 1
      BY FS_Singleton
    <3>3. Cardinality(CPU) = 1
      BY <3>1, <3>2, Zenon
    <3> QED BY <3>3
  <2> QED BY <2>1, <2>2
<1>2. SlotFloor => SlotInRange
  BY <1>1 DEF SlotFloor, SlotInRange
<1> QED BY <1>2, OverdraftBounded, PTL

-----------------------------------------------------------------------------
(* A full queue.                                                           *)

\* The queue is full of live processes of its priority, and p is one more.
LEMMA FullQueue ==
  ASSUME IInv, ~ exited, NEW l \in Level, Len(queue[l]) = MAX_QUEUE_SIZE,
         NEW p \in Proc, prio[p] = l, \A k \in 1 .. Len(queue[l]) : queue[l][k] # p,
         freed' = freed, p \notin freed, Loaded \cup {p} \subseteq Loaded'
  PROVE  ExitMeansTooMany'
<1> DEFINE S == 1 .. MAX_QUEUE_SIZE
           Q == {queue[l][k] : k \in S}
           R == {q \in Loaded' \ freed' : prio[q] = l}
           f == [k \in S |-> queue[l][k]]
<1>1. QueuedOnce /\ queue[l] \in Seq(Proc)
  BY DEF IInv, OnePlace, TypeOK, ReadyType
<1>2. IsFiniteSet(S) /\ Cardinality(S) = MAX_QUEUE_SIZE
  BY FS_Interval
<1>3. f \in Bijection(S, Q)
  <2>1. \A j, k \in S : f[j] = f[k] => j = k
    BY <1>1 DEF QueuedOnce, Entry
  <2>2. f \in [S -> Q] /\ \A q \in Q : \E k \in S : f[k] = q
    OBVIOUS
  <2> QED BY <2>1, <2>2 DEF Bijection, Injection, Surjection, IsInjective
<1>4. IsFiniteSet(Q) /\ Cardinality(Q) = MAX_QUEUE_SIZE
  BY <1>2, <1>3, FS_Bijection DEF ExistsBijection
<1>5. p \notin Q
  OBVIOUS
<1>6. Q \cup {p} \in SUBSET R
  <2>1. \A k \in S : queue[l][k] \in Loaded \ freed /\ prio[queue[l][k]] = l
    BY <1>1 DEF QueuedOnce, Entry
  <2> QED BY <2>1
<1> HIDE DEF Q
<1>7. IsFiniteSet(Q \cup {p}) /\ Cardinality(Q \cup {p}) = MAX_QUEUE_SIZE + 1
  BY <1>4, <1>5, FS_AddElement
<1>8. IsFiniteSet(R)
  <2>1. R \in SUBSET (1..NProc) /\ IsFiniteSet(1..NProc)
    BY FS_Interval DEF Loaded
  <2> QED BY <2>1, FS_Subset
<1>9. Cardinality(R) > MAX_QUEUE_SIZE
  <2>1. Cardinality(Q \cup {p}) <= Cardinality(R) /\ Cardinality(R) \in Nat
    BY <1>6, <1>8, FS_Subset, FS_CardinalityType
  <2> QED BY <1>7, <2>1
<1> QED BY <1>9 DEF ExitMeansTooMany

LEMMA TooManyNext ==
  ASSUME IInv, ExitMeansTooMany, [Next]_vars
  PROVE  ExitMeansTooMany'
<1>1. CASE exited
  <2>1. UNCHANGED vars
    BY <1>1 DEF Next, CpuRoutine, LdRoutine, TimerTick, Ended
  <2>2. UNCHANGED <<exited, freed, i>>
    BY <2>1 DEF vars
  <2> QED BY <2>2 DEF ExitMeansTooMany, Loaded
<1>2. CASE ~ exited /\ exited'
  <2>1. ASSUME NEW c \in CPU, CpuRoutine(c) PROVE ExitMeansTooMany'
    <3>1. PutProc(c)
      BY <1>2, <2>1, ScanSteps, DequeueSteps
         DEF CpuRoutine, GetProc, Idle, Finish, Continue, GotNothing, Stop,
             Dispatch, Run, ldv
    <3>2. /\ proc[c] \in Loaded \ freed
          /\ \A l \in Level : \A k \in 1 .. Len(queue[l]) : queue[l][k] # proc[c]
      BY <1>2, <3>1 DEF PutProc, IInv, OnePlace, HeldOnce, QueuedOnce, Entry
    <3>3. Len(queue[prio[proc[c]]]) = MAX_QUEUE_SIZE
      BY <1>2, <3>1 DEF PutProc, Enqueue
    <3>4. prio[proc[c]] \in Level /\ proc[c] \in Proc
      BY <3>2, ConfigAssumption DEF Loaded
    <3>5. freed' = freed /\ Loaded' = Loaded
      BY <3>1 DEF PutProc, procv, Loaded
    <3> QED BY <1>2, <3>2, <3>3, <3>4, <3>5, FullQueue
  <2>2. CASE LdRoutine
    <3>1. LdAdd /\ i' = i + 1 /\ freed' = freed
      BY <1>2, <2>2 DEF LdRoutine, LdWait, LdAdd, LdDone, ldv, procv
    <3>2. i \in Proc /\ i \notin Loaded
      BY <3>1 DEF LdAdd, Loaded, IInv, TypeOK, LdType
    <3>3. i \notin freed
      BY <3>2 DEF IInv, FreedInv
    <3>4. \A l \in Level : \A k \in 1 .. Len(queue[l]) : queue[l][k] # i
      BY <1>2, <3>2 DEF IInv, OnePlace, QueuedOnce, Entry
    <3>5. Len(queue[prio[i]]) = MAX_QUEUE_SIZE /\ prio[i] \in Level
      BY <1>2, <3>1, <3>2, ConfigAssumption DEF LdAdd, Enqueue
    <3>6. Loaded \cup {i} \subseteq Loaded'
      BY <3>1, <3>2 DEF Loaded
    <3> QED BY <1>2, <3>1, <3>2, <3>3, <3>4, <3>5, <3>6, FullQueue
  <2>3. CASE TimerTick \/ UNCHANGED vars
    BY <1>2, <2>3 DEF TimerTick, ldv, vars
  <2> QED BY <1>2, <2>1, <2>2, <2>3 DEF Next, Ended
<1>3. CASE ~ exited'
  BY <1>3 DEF ExitMeansTooMany
<1> QED BY <1>1, <1>2, <1>3

\* The program gives up for a full queue only when one priority has more live
\* processes than a queue has places, for any configuration.
THEOREM ExitJustified == Spec => []ExitMeansTooMany
<1>1. Init => ExitMeansTooMany
  BY DEF Init, ExitMeansTooMany
<1> QED BY <1>1, TooManyNext, Invariance, PTL DEF Spec

-----------------------------------------------------------------------------
(* The order of the queues.                                                *)

\* A CPU that is the first of its slot in a state, and inside get_proc, was so
\* before the step: the others have not moved.
LEMMA FirstStays ==
  ASSUME IInv, BarrierInv, [Next]_vars, NEW c \in CPU,
         cpc'[c] \in {"check", "checkslot", "slot", "deq"}, FirstInSlot(c)'
  PROVE  /\ FirstInSlot(c)
         /\ CpuRoutine(c) \/ LdRoutine \/ UNCHANGED vars
<1>1. /\ cpc \in [CPU -> CpuPc]
      /\ phase \in [Device -> {"running", "waiting", "gone"}]
  BY DEF IInv, TypeOK, CpuType, ClockType
<1>2. CASE CpuRoutine(c)
  BY <1>2, OthersKeep DEF FirstInSlot
<1>3. ASSUME NEW d \in CPU \ {c}, CpuRoutine(d) PROVE FALSE
  <2>1. cpc'[d] = "top" /\ phase'[d] = "running"
    BY DEF FirstInSlot
  <2>2. CASE GetProc(d)
    BY <2>1, <2>2, ScanSteps, DequeueSteps
  <2>3. CASE Idle(d) \/ Finish(d) \/ PutProc(d)
    BY <2>1, <2>3, CallSteps
  <2>4. CASE Continue(d) \/ Stop(d) \/ Dispatch(d)
    BY <1>1, <2>1, <2>4 DEF Continue, Stop, Dispatch
  <2>5. CASE GotNothing(d) \/ Run(d)
    BY <1>1, <2>1, <2>5 DEF GotNothing, Run, Clock!Arrive
  <2> QED BY <1>3, <2>2, <2>3, <2>4, <2>5 DEF CpuRoutine
<1>4. CASE LdRoutine
  BY <1>4, CpusKept DEF FirstInSlot
<1>5. ~ TimerTick
  BY <1>1, TickKeeps DEF BarrierInv
<1>6. CASE UNCHANGED vars
  BY <1>6 DEF FirstInSlot, vars
<1> QED BY <1>2, <1>3, <1>4, <1>5, <1>6 DEF Next, Ended

LEMMA PassedNext ==
  ASSUME IInv, ScheduleInv, PassedInv, [Next]_vars
  PROVE  PassedInv'
<1> SUFFICES ASSUME NEW c \in CPU,
                    cpc'[c] \in {"check", "checkslot", "slot", "deq"},
                    FirstInSlot(c)',
                    NEW p \in since'[c], prio[p] < gi'[c]
             PROVE  slot'[prio[p]] <= 0
  BY DEF PassedInv
<1>4. FirstInSlot(c) /\ (CpuRoutine(c) \/ LdRoutine \/ UNCHANGED vars)
  BY FirstStays DEF ScheduleInv
<1>0. /\ cpc \in [CPU -> CpuPc] /\ gi \in [CPU -> 0..MAX_PRIO]
      /\ gj \in [CPU -> 0..MAX_PRIO] /\ slot \in [Level -> Int]
      /\ since' \in [CPU -> SUBSET Proc]
  <2>1. IInv'
    BY NextIInv
  <2> QED BY <2>1 DEF IInv, TypeOK, CpuType, ScanType, HistoryType, ReadyType
<1>1. prio[p] \in Level
  BY <1>0, ConfigAssumption
<1>2. CASE CpuRoutine(c)
  <2>1. ~exited
    BY <1>2 DEF CpuRoutine
  <2>2. CASE GetProc(c) /\ ~ Dequeue(c) /\ ~ RefillSlot(c)
    <3>1. p \in since[c] /\ slot' = slot
      BY <2>2, ScanSteps
         DEF GetProc, CheckEmpty, CheckSlot, TestEmpty, TestSlot, LockSlots, readyv
    <3>2. cpc[c] \in {"check", "checkslot", "slot", "deq"}
      BY <1>0, <2>2 DEF GetProc, CheckEmpty, CheckSlot, TestEmpty, TestSlot, LockSlots
    <3>3. prio[p] < gi[c] => slot[prio[p]] <= 0
      BY <1>4, <3>1, <3>2 DEF PassedInv
    <3>4. CASE CheckEmpty(c) \/ LockSlots(c)
      BY <1>0, <3>1, <3>3, <3>4 DEF CheckEmpty, LockSlots
    <3>5. CASE CheckSlot(c)
      <4>1. gi'[c] <= gi[c]
        BY <1>0, <3>5 DEF CheckSlot, ScanFrom, IInv, IndexInv
      <4>2. gi'[c] \in 0..MAX_PRIO
        BY <1>0, <3>5 DEF CheckSlot, ScanFrom
      <4> QED BY <1>0, <1>1, <3>1, <3>3, <4>1, <4>2
    <3>6. CASE TestEmpty(c)
      <4>1. queue[prio[p]] # <<>>
        BY <2>1, <3>1, QueuedThere DEF ScheduleInv, SinceInv
      <4>2. gi'[c] = gi[c] \/ (gi'[c] = gi[c] + 1 /\ gi[c] # prio[p])
        BY <1>0, <3>6, <4>1 DEF TestEmpty, ScanFrom
      <4> QED BY <1>0, <1>1, <3>1, <3>3, <4>2
    <3>7. CASE TestSlot(c)
      <4>1. gi'[c] = gi[c] \/ (gi'[c] = gi[c] + 1 /\ slot[gi[c]] <= 0)
        BY <1>0, <3>7 DEF TestSlot, ScanFrom, scanv
      <4>2. CASE prio[p] = gi[c]
        BY <1>0, <1>1, <3>1, <4>1, <4>2
      <4>3. CASE prio[p] # gi[c]
        BY <1>0, <1>1, <3>1, <3>3, <4>1, <4>3
      <4> QED BY <4>2, <4>3
    <3> QED BY <2>2, <3>4, <3>5, <3>6, <3>7 DEF GetProc
  <2>3. CASE RefillSlot(c)
    <3>1. gi'[c] = 0
      BY <1>0, <2>3 DEF RefillSlot, ScanFrom
    <3> QED BY <1>1, <3>1
  <2>4. CASE Dequeue(c)
    BY <2>4, DequeueSteps
  <2>5. CASE Idle(c) \/ Finish(c) \/ PutProc(c)
    BY <1>1, <2>5, CallSteps
  <2>6. CASE Continue(c) \/ GotNothing(c) \/ Stop(c) \/ Dispatch(c) \/ Run(c)
    BY <1>0, <2>6 DEF Continue, GotNothing, Stop, Dispatch, Run
  <2> QED BY <1>2, <2>2, <2>3, <2>4, <2>5, <2>6 DEF CpuRoutine
<1>3. CASE LdRoutine \/ UNCHANGED vars
  <2>1. UNCHANGED <<slot, cpc, gi, since>>
    BY <1>3, CpusKept DEF vars
  <2> QED BY <1>4, <2>1 DEF PassedInv
<1> QED BY <1>4, <1>2, <1>3

\* The first CPU of a slot dispatches the process with the highest priority among
\* those that have been ready all along and whose level has slots left, for any
\* number of CPUs and priorities; a single CPU therefore always does.
THEOREM FirstRespectsPriority == Spec => []PriorityRespected
<1>1. Init => PassedInv
  BY DEF Init, PassedInv
<1>2. PassedInv => PriorityRespected
  BY DEF PassedInv, PriorityRespected
<1>3. IInv /\ ScheduleInv /\ PassedInv /\ [Next]_vars => PassedInv'
  BY PassedNext
<1> QED BY <1>1, <1>2, <1>3, ScheduleInvariance, Invariance, PTL DEF Spec
=============================================================================
