------------------------------- MODULE OsSim -------------------------------
(***************************************************************************)
(* The simulated operating system: the CPU threads and the loader thread   *)
(* of os.c, the multi-level ready queue of sched.c and queue.c, and the    *)
(* part of run() (cpu.c) that moves a process's pc.  Threads meet at the   *)
(* slot barrier, taken from SlotClock, which module Timer implements.      *)
(*                                                                         *)
(* get_mlq_proc reads queue sizes and slots without queue_lock and takes   *)
(* the lock only to dequeue or to refill the slots, so each of its reads   *)
(* is a step of its own.  A process is the number of its line in the       *)
(* configuration; 0 is the null pointer.                                   *)
(***************************************************************************)
EXTENDS Integers, Sequences, FiniteSets

CONSTANTS CPU, Ld,           \* the threads: num_cpus CPUs and the loader
          NProc,             \* num_processes
          prio, start, size, \* per process: priority, start time, code size
          time_slot,         \* instructions a process runs per dispatch
          MAX_PRIO,          \* number of ready queues
          MAX_QUEUE_SIZE,    \* capacity of each
          Horizon            \* bound: slots are counted up to here (SlotClock)

Proc == 1..NProc
NULL == 0
Level == 0..(MAX_PRIO - 1)
Device == CPU \cup {Ld}

ASSUME CpuAssumption == IsFiniteSet(CPU) /\ Ld \notin CPU
ASSUME BoundAssumption ==
  /\ NProc \in Nat
  /\ time_slot \in Nat
  /\ MAX_PRIO \in Nat \ {0}
  /\ MAX_QUEUE_SIZE \in Nat
  /\ Horizon \in Nat
ASSUME ConfigAssumption ==
  /\ prio \in [1..NProc -> 0..(MAX_PRIO - 1)]
  /\ start \in [1..NProc -> 0..Horizon]
  /\ size \in [1..NProc -> Nat]

VARIABLES
  time, phase,    \* the slot barrier
  queue,          \* mlq_ready_queue
  slot,           \* slot[]
  queue_lock,     \* the CPU refilling the slots, or Ld when the lock is free
  pc,             \* proc->pc
  freed,          \* processes whose pcb has been freed
  cpc,            \* where each CPU thread is
  first,          \* whether its get_proc is the one of an idle CPU (os.c:66)
  proc,           \* its current process
  time_left,
  gi, gj, flag,   \* locals of get_mlq_proc and check_new_process
  i,              \* the loader's index
  done,
  exited,         \* a full queue made the program call exit(1)
  since,          \* history: processes ready during the whole current get_proc
  ran             \* history: processes that ran in the current slot

clockv == <<time, phase>>
readyv == <<queue, slot, queue_lock>>
scanv == <<gi, gj, flag>>
cpuv == <<cpc, first, proc, time_left>>
procv == <<pc, freed>>
ldv == <<i, done, exited>>
vars == <<time, phase, queue, slot, queue_lock, pc, freed, cpc, first, proc,
          time_left, gi, gj, flag, i, done, exited, since, ran>>

Clock == INSTANCE SlotClock

Free == Ld          \* queue_lock is not held
Loaded == {p \in Proc : p < i}
Queued(p) == \E l \in Level : \E k \in 1..Len(queue[l]) : queue[l][k] = p
Ready == {p \in Proc : Queued(p)}

CpuPc == {"top", "check", "checkslot", "slot", "deq", "lock", "refill", "got",
          "run", "stopped"}

ClockType == /\ time \in 0..Horizon
             /\ phase \in [Device -> {"running", "waiting", "gone"}]
ReadyType == /\ queue \in [Level -> Seq(Proc)]
             /\ slot \in [Level -> Int]
             /\ queue_lock \in Device
ProcType == pc \in [Proc -> Nat] /\ freed \in SUBSET Proc
CpuType == /\ cpc \in [CPU -> CpuPc]
           /\ first \in [CPU -> BOOLEAN]
           /\ proc \in [CPU -> Proc \cup {NULL}]
           /\ time_left \in [CPU -> Int]
ScanType == /\ gi \in [CPU -> 0..MAX_PRIO]
            /\ gj \in [CPU -> 0..MAX_PRIO]
            /\ flag \in [CPU -> BOOLEAN]
LdType == i \in 1..(NProc + 1) /\ done \in BOOLEAN /\ exited \in BOOLEAN
HistoryType == since \in [CPU -> SUBSET Proc] /\ ran \in SUBSET Proc

TypeOK == /\ ClockType /\ ReadyType /\ ProcType /\ CpuType /\ ScanType
          /\ LdType /\ HistoryType

\* The slots init_scheduler and set_slot_for_queue hand out.
SlotsOf(l) == MAX_PRIO - l

\* init_scheduler, and the locals of cpu_routine and ld_routine.
Init ==
  /\ Clock!Init
  /\ queue = [l \in Level |-> <<>>]
  /\ slot = [l \in Level |-> SlotsOf(l)]
  /\ queue_lock = Free
  /\ pc = [p \in Proc |-> 0]
  /\ freed = {}
  /\ cpc = [c \in CPU |-> "top"]
  /\ first = [c \in CPU |-> FALSE]
  /\ proc = [c \in CPU |-> NULL]
  /\ time_left = [c \in CPU |-> 0]
  /\ gi = [c \in CPU |-> 0]
  /\ gj = [c \in CPU |-> 0]
  /\ flag = [c \in CPU |-> FALSE]
  /\ i = 1
  /\ done = FALSE
  /\ exited = FALSE
  /\ since = [c \in CPU |-> {}]
  /\ ran = {}

-----------------------------------------------------------------------------
(* sched.c and queue.c                                                     *)

\* enqueue under queue_lock; a full queue ends the program.
Enqueue(p) ==
  /\ queue_lock = Free
  /\ IF Len(queue[prio[p]]) = MAX_QUEUE_SIZE
       THEN exited' = TRUE /\ UNCHANGED queue
       ELSE queue' = [queue EXCEPT ![prio[p]] = Append(@, p)] /\ UNCHANGED exited

\* The for loop of get_mlq_proc goes on with index k; past the last queue it
\* returns NULL.
ScanFrom(c, k) ==
  /\ gi' = [gi EXCEPT ![c] = k]
  /\ gj' = [gj EXCEPT ![c] = 0]
  /\ cpc' = [cpc EXCEPT ![c] = IF k < MAX_PRIO THEN "check" ELSE "got"]

\* check_new_process: a queue above gi that may be served sends the scan back.
CheckEmpty(c) ==
  /\ cpc[c] = "check" /\ gj[c] < gi[c]
  /\ IF queue[gj[c]] = <<>>
       THEN gj' = [gj EXCEPT ![c] = @ + 1] /\ UNCHANGED cpc
       ELSE cpc' = [cpc EXCEPT ![c] = "checkslot"] /\ UNCHANGED gj
  /\ UNCHANGED <<clockv, readyv, procv, first, proc, time_left, gi, flag, ldv,
                 since, ran>>

\* check_new_process does not look at the slot: mutation.
CheckNoSlot(c) ==
  /\ cpc[c] = "checkslot"
  /\ ScanFrom(c, gj[c])
  /\ UNCHANGED <<clockv, readyv, procv, first, proc, time_left, flag, ldv,
                 since, ran>>

CheckSlot(c) ==
  /\ cpc[c] = "checkslot"
  /\ IF slot[gj[c]] <= 0
       THEN /\ gj' = [gj EXCEPT ![c] = @ + 1]
            /\ cpc' = [cpc EXCEPT ![c] = "check"]
            /\ UNCHANGED gi
       ELSE ScanFrom(c, gj[c])
  /\ UNCHANGED <<clockv, readyv, procv, first, proc, time_left, flag, ldv,
                 since, ran>>

\* An empty last queue ends the scan without a refill: mutation.
TestEmptyNoRefill(c) ==
  /\ cpc[c] = "check" /\ gj[c] = gi[c]
  /\ IF queue[gi[c]] # <<>>
       THEN cpc' = [cpc EXCEPT ![c] = "slot"] /\ UNCHANGED <<gi, gj>>
       ELSE ScanFrom(c, gi[c] + 1)
  /\ UNCHANGED <<clockv, readyv, procv, first, proc, time_left, flag, ldv,
                 since, ran>>

\* empty(&mlq_ready_queue[i]): skip it, refilling the slots after the last
\* queue if some queue was passed over for want of slots.
TestEmpty(c) ==
  /\ cpc[c] = "check" /\ gj[c] = gi[c]
  /\ \/ /\ queue[gi[c]] # <<>>
        /\ cpc' = [cpc EXCEPT ![c] = "slot"]
        /\ UNCHANGED <<gi, gj>>
     \/ /\ queue[gi[c]] = <<>>
        /\ flag[c] /\ gi[c] = MAX_PRIO - 1
        /\ cpc' = [cpc EXCEPT ![c] = "lock"]
        /\ UNCHANGED <<gi, gj>>
     \/ /\ queue[gi[c]] = <<>>
        /\ ~(flag[c] /\ gi[c] = MAX_PRIO - 1)
        /\ ScanFrom(c, gi[c] + 1)
  /\ UNCHANGED <<clockv, readyv, procv, first, proc, time_left, flag, ldv,
                 since, ran>>

\* slot[i] >= 0 instead of slot[i] > 0: mutation.
TestSlotOff(c) ==
  /\ cpc[c] = "slot"
  /\ \/ /\ slot[gi[c]] >= 0
        /\ cpc' = [cpc EXCEPT ![c] = "deq"]
        /\ UNCHANGED scanv
     \/ /\ slot[gi[c]] < 0
        /\ flag' = [flag EXCEPT ![c] = TRUE]
        /\ IF gi[c] = MAX_PRIO - 1
             THEN cpc' = [cpc EXCEPT ![c] = "lock"] /\ UNCHANGED <<gi, gj>>
             ELSE ScanFrom(c, gi[c] + 1)
  /\ UNCHANGED <<clockv, readyv, procv, first, proc, time_left, ldv, since, ran>>

TestSlot(c) ==
  /\ cpc[c] = "slot"
  /\ \/ /\ slot[gi[c]] > 0
        /\ cpc' = [cpc EXCEPT ![c] = "deq"]
        /\ UNCHANGED scanv
     \/ /\ slot[gi[c]] <= 0 /\ gi[c] = MAX_PRIO - 1
        /\ cpc' = [cpc EXCEPT ![c] = "lock"]
        /\ flag' = [flag EXCEPT ![c] = TRUE]
        /\ UNCHANGED <<gi, gj>>
     \/ /\ slot[gi[c]] <= 0 /\ gi[c] < MAX_PRIO - 1
        /\ flag' = [flag EXCEPT ![c] = TRUE]
        /\ ScanFrom(c, gi[c] + 1)
  /\ UNCHANGED <<clockv, readyv, procv, first, proc, time_left, ldv, since, ran>>

\* set_slot_for_queue takes the lock and refills slot by slot, in the sight of
\* the scans that take no lock; gj is its index.
LockSlots(c) ==
  /\ cpc[c] = "lock" /\ queue_lock = Free
  /\ queue_lock' = c
  /\ cpc' = [cpc EXCEPT ![c] = "refill"]
  /\ flag' = [flag EXCEPT ![c] = FALSE]
  /\ gj' = [gj EXCEPT ![c] = 0]
  /\ UNCHANGED <<clockv, queue, slot, procv, first, proc, time_left, gi, ldv,
                 since, ran>>

\* The refill runs to i <= MAX_PRIO: mutation.
RefillOneMore(c) ==
  /\ cpc[c] = "refill"
  /\ IF gj[c] <= MAX_PRIO
       THEN /\ slot' = [l \in Level |-> IF l = gj[c] THEN SlotsOf(l) ELSE slot[l]]
            /\ gj' = [gj EXCEPT ![c] = @ + 1]
            /\ UNCHANGED <<queue_lock, cpc, gi>>
       ELSE /\ queue_lock' = Free
            /\ ScanFrom(c, 0)
            /\ UNCHANGED slot
  /\ UNCHANGED <<clockv, queue, procv, first, proc, time_left, flag, ldv,
                 since, ran>>

\* The scan goes on where it was after a refill: mutation.
RefillAndStay(c) ==
  /\ cpc[c] = "refill"
  /\ IF gj[c] < MAX_PRIO
       THEN /\ slot' = [slot EXCEPT ![gj[c]] = SlotsOf(gj[c])]
            /\ gj' = [gj EXCEPT ![c] = @ + 1]
            /\ UNCHANGED <<queue_lock, cpc, gi>>
       ELSE /\ queue_lock' = Free
            /\ cpc' = [cpc EXCEPT ![c] = "slot"]
            /\ UNCHANGED <<slot, gi, gj>>
  /\ UNCHANGED <<clockv, queue, procv, first, proc, time_left, flag, ldv,
                 since, ran>>

RefillSlot(c) ==
  /\ cpc[c] = "refill"
  /\ IF gj[c] < MAX_PRIO
       THEN /\ slot' = [slot EXCEPT ![gj[c]] = SlotsOf(gj[c])]
            /\ gj' = [gj EXCEPT ![c] = @ + 1]
            /\ UNCHANGED <<queue_lock, cpc, gi>>
       ELSE /\ queue_lock' = Free
            /\ ScanFrom(c, 0)
            /\ UNCHANGED slot
  /\ UNCHANGED <<clockv, queue, procv, first, proc, time_left, flag, ldv,
                 since, ran>>

\* dequeue returns the process but leaves it in the queue: mutation.
DequeueKeeps(c) ==
  /\ cpc[c] = "deq" /\ queue_lock = Free
  /\ cpc' = [cpc EXCEPT ![c] = "got"]
  /\ slot' = [slot EXCEPT ![gi[c]] = @ - 1]
  /\ proc' = [proc EXCEPT ![c] = IF queue[gi[c]] = <<>> THEN @
                                  ELSE Head(queue[gi[c]])]
  /\ UNCHANGED <<clockv, queue, queue_lock, procv, first, time_left, scanv, ldv,
                 since, ran>>

\* dequeue and slot[i]--, under the lock.  The queue may have been emptied
\* since it was tested: then the result is NULL and the slot is spent anyway.
Dequeue(c) ==
  /\ cpc[c] = "deq" /\ queue_lock = Free
  /\ cpc' = [cpc EXCEPT ![c] = "got"]
  /\ slot' = [slot EXCEPT ![gi[c]] = @ - 1]
  /\ IF queue[gi[c]] = <<>>
       THEN UNCHANGED <<queue, proc, since>>
       ELSE /\ proc' = [proc EXCEPT ![c] = Head(queue[gi[c]])]
            /\ queue' = [queue EXCEPT ![gi[c]] = Tail(@)]
            /\ since' = [d \in CPU |-> since[d] \ {Head(queue[gi[c]])}]
  /\ UNCHANGED <<clockv, queue_lock, procv, first, time_left, scanv, ldv, ran>>

GetProc(c) ==
  \/ CheckEmpty(c) \/ CheckSlot(c) \/ TestEmpty(c) \/ TestSlot(c)
  \/ LockSlots(c) \/ RefillSlot(c) \/ Dequeue(c)

-----------------------------------------------------------------------------
(* cpu_routine                                                             *)

\* get_proc is called, by an idle CPU or by one that has just given up its
\* process, whose pointer is dead from here on.
CallGetProc(c, idle, ready) ==
  /\ cpc' = [cpc EXCEPT ![c] = "check"]
  /\ first' = [first EXCEPT ![c] = idle]
  /\ proc' = [proc EXCEPT ![c] = NULL]
  /\ gi' = [gi EXCEPT ![c] = 0]
  /\ gj' = [gj EXCEPT ![c] = 0]
  /\ flag' = [flag EXCEPT ![c] = FALSE]
  /\ since' = [since EXCEPT ![c] = ready]

AtTop(c) == cpc[c] = "top" /\ phase[c] = "running"

Idle(c) ==
  /\ AtTop(c)
  /\ proc[c] = NULL
  /\ CallGetProc(c, TRUE, Ready)
  /\ UNCHANGED <<clockv, readyv, procv, time_left, ldv, ran>>

\* time_left is not reset when a process ends: mutation.
FinishKeepsTime(c) ==
  /\ AtTop(c)
  /\ proc[c] # NULL /\ pc[proc[c]] = size[proc[c]]
  /\ freed' = freed \cup {proc[c]}
  /\ CallGetProc(c, FALSE, Ready)
  /\ UNCHANGED <<clockv, readyv, pc, time_left, ldv, ran>>

Finish(c) ==
  /\ AtTop(c)
  /\ proc[c] # NULL /\ pc[proc[c]] = size[proc[c]]
  /\ freed' = freed \cup {proc[c]}
  /\ time_left' = [time_left EXCEPT ![c] = 0]
  /\ CallGetProc(c, FALSE, Ready)
  /\ UNCHANGED <<clockv, readyv, pc, ldv, ran>>

\* The CPU goes for the next process without put_proc: mutation.
NoPutProc(c) ==
  /\ AtTop(c)
  /\ proc[c] # NULL /\ pc[proc[c]] # size[proc[c]] /\ time_left[c] = 0
  /\ CallGetProc(c, FALSE, Ready)
  /\ UNCHANGED <<clockv, readyv, procv, time_left, ldv, ran>>

PutProc(c) ==
  /\ AtTop(c)
  /\ proc[c] # NULL /\ pc[proc[c]] # size[proc[c]] /\ time_left[c] = 0
  /\ Enqueue(proc[c])
  /\ CallGetProc(c, FALSE, Ready \cup {proc[c]})
  /\ UNCHANGED <<clockv, slot, queue_lock, procv, time_left, i, done, ran>>

Continue(c) ==
  /\ AtTop(c)
  /\ proc[c] # NULL /\ pc[proc[c]] # size[proc[c]] /\ time_left[c] # 0
  /\ cpc' = [cpc EXCEPT ![c] = "run"]
  /\ UNCHANGED <<clockv, readyv, procv, first, proc, time_left, scanv, ldv,
                 since, ran>>

\* get_proc has returned: the tests of os.c:67 and os.c:92-110.
GotNothing(c) ==
  /\ cpc[c] = "got" /\ proc[c] = NULL
  /\ first[c] \/ ~done
  /\ cpc' = [cpc EXCEPT ![c] = "top"]
  /\ since' = [since EXCEPT ![c] = {}]
  /\ Clock!Arrive(c)
  /\ UNCHANGED <<readyv, procv, first, proc, time_left, scanv, ldv, ran>>

\* The CPU stops at the first NULL: mutation.
StopAtNull(c) ==
  /\ cpc[c] = "got" /\ proc[c] = NULL
  /\ cpc' = [cpc EXCEPT ![c] = "stopped"]
  /\ since' = [since EXCEPT ![c] = {}]
  /\ Clock!Leave(c)
  /\ UNCHANGED <<readyv, procv, first, proc, time_left, scanv, ldv, ran>>

Stop(c) ==
  /\ cpc[c] = "got" /\ proc[c] = NULL
  /\ ~first[c] /\ done
  /\ cpc' = [cpc EXCEPT ![c] = "stopped"]
  /\ since' = [since EXCEPT ![c] = {}]
  /\ Clock!Leave(c)
  /\ UNCHANGED <<readyv, procv, first, proc, time_left, scanv, ldv, ran>>

Dispatch(c) ==
  /\ cpc[c] = "got" /\ proc[c] # NULL
  /\ cpc' = [cpc EXCEPT ![c] = "run"]
  /\ time_left' = [time_left EXCEPT ![c] = IF @ = 0 THEN time_slot ELSE @]
  /\ since' = [since EXCEPT ![c] = {}]
  /\ UNCHANGED <<clockv, readyv, procv, first, proc, scanv, ldv, ran>>

\* The loop does not call next_slot after run(): mutation.
RunNoSlot(c) ==
  /\ cpc[c] = "run"
  /\ pc' = [pc EXCEPT ![proc[c]] = IF @ < size[proc[c]] THEN @ + 1 ELSE @]
  /\ time_left' = [time_left EXCEPT ![c] = @ - 1]
  /\ cpc' = [cpc EXCEPT ![c] = "top"]
  /\ ran' = ran \cup {proc[c]}
  /\ UNCHANGED <<clockv, readyv, freed, first, proc, scanv, ldv, since>>

\* run(): one instruction, unless the process has none left; then next_slot.
Run(c) ==
  /\ cpc[c] = "run"
  /\ pc' = [pc EXCEPT ![proc[c]] = IF @ < size[proc[c]] THEN @ + 1 ELSE @]
  /\ time_left' = [time_left EXCEPT ![c] = @ - 1]
  /\ cpc' = [cpc EXCEPT ![c] = "top"]
  /\ ran' = ran \cup {proc[c]}
  /\ Clock!Arrive(c)
  /\ UNCHANGED <<readyv, freed, first, proc, scanv, ldv, since>>

CpuRoutine(c) ==
  /\ ~exited
  /\ \/ Idle(c) \/ Finish(c) \/ PutProc(c) \/ Continue(c)
     \/ GetProc(c)
     \/ GotNothing(c) \/ Stop(c) \/ Dispatch(c) \/ Run(c)

-----------------------------------------------------------------------------
(* ld_routine and the timer                                                *)

LdWait ==
  /\ phase[Ld] = "running" /\ i <= NProc
  /\ time < start[i]
  /\ Clock!Arrive(Ld)
  /\ UNCHANGED <<readyv, procv, cpuv, scanv, ldv, since, ran>>

LdAdd ==
  /\ phase[Ld] = "running" /\ i <= NProc
  /\ time >= start[i]
  /\ Enqueue(i)
  /\ i' = i + 1
  /\ Clock!Arrive(Ld)
  /\ UNCHANGED <<slot, queue_lock, procv, cpuv, scanv, done, since, ran>>

LdDone ==
  /\ phase[Ld] = "running" /\ i > NProc
  /\ done' = TRUE
  /\ Clock!Leave(Ld)
  /\ UNCHANGED <<readyv, procv, cpuv, scanv, i, exited, since, ran>>

LdRoutine == ~exited /\ (LdWait \/ LdAdd \/ LdDone)

TimerTick ==
  /\ ~exited
  /\ Clock!EndSlot
  /\ ran' = {}
  /\ UNCHANGED <<readyv, procv, cpuv, scanv, ldv, since>>

\* The program has ended: through exit(1), or because every thread has.
Ended ==
  /\ exited \/ \A d \in Device : phase[d] = "gone"
  /\ UNCHANGED vars

Next == (\E c \in CPU : CpuRoutine(c)) \/ LdRoutine \/ TimerTick \/ Ended

\* Every thread runs, and the slot everybody has finished ends (Timer).
Fairness == /\ \A c \in CPU : WF_vars(CpuRoutine(c))
            /\ WF_vars(LdRoutine)
            /\ WF_vars(TimerTick)

Spec == Init /\ [][Next]_vars
FairSpec == Spec /\ Fairness

-----------------------------------------------------------------------------
(* Properties.                                                             *)

Held(p) == \E c \in CPU : proc[c] = p

\* An entry of a ready queue is a live process of that queue's priority, which
\* no CPU holds and no other entry of the queue names.
Entry(l, k) ==
  /\ queue[l][k] \in Loaded \ freed
  /\ prio[queue[l][k]] = l
  /\ \A c \in CPU : proc[c] # queue[l][k]
  /\ \A m \in 1..Len(queue[l]) : queue[l][m] = queue[l][k] => m = k

QueuedOnce == \A l \in Level : \A k \in 1..Len(queue[l]) : Entry(l, k)

\* A CPU's current process is a live process that no other CPU holds.
HeldOnce ==
  \A c \in CPU : proc[c] # NULL =>
    /\ proc[c] \in Loaded \ freed
    /\ \A d \in CPU : proc[d] = proc[c] => d = c

\* Processes are neither lost, nor duplicated, nor used after they are freed:
\* a loaded process is freed, or it is the current process of exactly one CPU,
\* or it is exactly once in the ready queue of its own priority (sched.c
\* put/add/get_mlq_proc, os.c:73-89), unless a full queue stopped the program.
OnePlace == ~exited =>
  /\ QueuedOnce
  /\ HeldOnce
  /\ \A p \in Loaded \ freed : Held(p) \/ Queued(p)

\* No process executes two instructions in one slot, although CPUs pass
\* processes to each other within the slot (put_proc by one, get_proc by
\* another) and read the ready queue without its lock.
OneInstructionPerSlot ==
  [][\A p \in Proc : pc'[p] # pc[p] => p \notin ran]_vars

\* CPUs stop only when the loader is done, and the last one to stop leaves no
\* process behind, although get_proc can return NULL while one is ready
\* (os.c:92).
NoWorkAbandoned ==
  (\A c \in CPU : cpc[c] = "stopped") => done /\ freed = Proc

\* The exit(1) of a full queue (queue.c:46) is not premature: a priority then has
\* more live processes than its queue has places, so no duplicate, and no
\* process that was freed or is on a CPU, has taken a place.
ExitMeansTooMany ==
  exited => \E l \in Level :
    Cardinality({p \in Loaded \ freed : prio[p] = l}) > MAX_QUEUE_SIZE

\* "State representation   prio = 0 .. MAX_PRIO, curr_slot = 0..(MAX_PRIO - prio)"
\* (sched.c:53).  It is true of one CPU.  With two, both can see the last slot
\* of a level before either has spent it (sched.c:103 and 118).
SlotInRange == \A l \in Level : slot[l] \in 0..(MAX_PRIO - l)

\* What is left of SlotInRange with several CPUs: a level is overdrawn by at
\* most one slot for every CPU but one, each of which saw a slot left.
SlotFloor == \A l \in Level : slot[l] \in (1 - Cardinality(CPU))..(MAX_PRIO - l)

\* Every process in the configuration is loaded, run to its end and freed, or
\* a full queue stops the program.
EveryProcessFinishes == <>(exited \/ freed = Proc)

\* get_proc returns: the scan that goes back to a higher queue (sched.c:89) and
\* restarts after every refill (sched.c:99) does not go round for ever.
GetProcReturns == \A c \in CPU : cpc[c] = "check" ~> (cpc[c] = "got" \/ exited)

\* A CPU that has a process to run in this slot, or has run it already: it does
\* not give it up before the slot ends.
Committed(c) ==
  /\ proc[c] # NULL
  /\ \/ cpc[c] \in {"got", "run"}
     \/ cpc[c] = "top" /\ phase[c] = "waiting"

\* get_proc may return NULL although a process has been ready all through the
\* call: another CPU emptied the queue between the test of sched.c:93 and the
\* dequeue of sched.c:117.  Then that CPU has a process to run in this slot, so
\* in a slot in which every CPU stays idle nothing was ready all along.
NullMeansTaken ==
  \A c \in CPU : cpc[c] = "got" /\ proc[c] = NULL /\ since[c] # {} =>
    \E d \in CPU : Committed(d)

\* No other CPU has gone past the top of its loop in this slot.
FirstInSlot(c) ==
  \A d \in CPU \ {c} : cpc[d] = "top" /\ phase[d] = "running"

\* The MLQ policy: at the dequeue from queue gi no process of a higher priority
\* has been ready all along and has slots left.  The first CPU of a slot keeps
\* to it, and the only one always; another CPU may refill the slots behind the
\* scan.
PriorityRespected ==
  \A c \in CPU : cpc[c] = "deq" /\ FirstInSlot(c) =>
    \A p \in since[c] : prio[p] < gi[c] => slot[prio[p]] <= 0

\* Preemption: a process is given a whole time slot, with nothing left of an
\* earlier process's (os.c:80 and 105), and between two instructions it has used
\* some of it and has not overrun it, so that after time_slot instructions it is
\* put back.  The test is for time_left = 0 exactly (os.c:82), which a count
\* that starts at 0 would miss.
SliceRespected ==
  \A c \in CPU :
    /\ cpc[c] = "got" => time_left[c] = 0
    /\ cpc[c] = "top" /\ proc[c] # NULL => time_left[c] \in 0 .. time_slot - 1

\* os.c:94 and os.c:331: CPUs stop when there is no process to run, and main
\* waits for them to finish.
EveryCpuStops == <>(exited \/ \A d \in Device : phase[d] = "gone")
=============================================================================
