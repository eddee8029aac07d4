------------------------------- MODULE System -------------------------------
(***************************************************************************)
(* The memory system under the slot barrier.  In each slot a CPU executes  *)
(* one instruction of its process (os.c, cpu.c) and then waits in          *)
(* next_slot for the other CPUs; the memory instructions meet at tlb_lock. *)
(* A CPU that never gets the lock, or never leaves an instruction, holds   *)
(* up every CPU at the barrier, the idle ones too.                         *)
(*                                                                         *)
(* The instructions are those of module Paging, the barrier is SlotClock.  *)
(* Which process a CPU runs is left open: module OsSim settles that.       *)
(***************************************************************************)
EXTENDS Paging

VARIABLES time, phase,  \* the slot barrier
          called        \* the CPUs that are in a memory instruction

slotvars == <<time, phase, called>>
sysvars == <<vars, slotvars>>

Clock == INSTANCE SlotClock WITH Device <- Cpu, Horizon <- 0

SysTypeOK == /\ TypeOK
             /\ Clock!TypeOK
             /\ called \in SUBSET Cpu

SysInit == Init /\ Clock!Init /\ called = {}

-----------------------------------------------------------------------------
\* No instruction in this slot, or a CALC, which touches nothing.
Calc(c) ==
  /\ c \notin called
  /\ Clock!Arrive(c)
  /\ UNCHANGED <<vars, called>>

\* run() reaches a memory instruction.  ALLOC, FREE and WRITE begin with
\* pthread_mutex_lock, so what they find is settled when they have the lock.
Call(c) ==
  /\ phase[c] = "running" /\ c \notin called
  /\ called' = called \cup {c}
  /\ UNCHANGED <<vars, time, phase>>

\* The loop of cpu_routine does not call next_slot after run(): mutation.
ReturnNoSlot(c) ==
  /\ called' = IF op'[c] = NoOp THEN called \ {c} ELSE called
  /\ UNCHANGED <<time, phase>>

\* An instruction that has ended returns from run(), and next_slot is called.
Return(c) ==
  IF op'[c] = NoOp THEN called' = called \ {c} /\ Clock!Arrive(c)
                   ELSE UNCHANGED slotvars

Execute(c) == c \in called /\ op[c] = NoOp /\ Start(c) /\ Return(c)

\* The instruction returns at once with the lock given back: a WRITE out of
\* range, a FREE of a region that is not allocated, a READ that hits.
Reject(c) ==
  /\ c \in called /\ op[c] = NoOp /\ lock = NoCpu
  /\ UNCHANGED vars
  /\ Return(c)

Proceed(c) == c \in called /\ Step(c) /\ Return(c)

CpuRoutine(c) == Calc(c) \/ Call(c) \/ Execute(c) \/ Reject(c) \/ Proceed(c)

EndSlot == Clock!EndSlot /\ UNCHANGED <<vars, called>>

SysNext == EndSlot \/ \E c \in Cpu : CpuRoutine(c)

\* Every CPU's thread runs; nothing is assumed of who gets the lock.  A slot
\* that everybody has finished ends (Timer).
SysSpec ==
  /\ SysInit /\ [][SysNext]_sysvars
  /\ \A c \in Cpu : WF_sysvars(CpuRoutine(c))
  /\ WF_sysvars(EndSlot)

-----------------------------------------------------------------------------
(* Properties.                                                             *)

\* Every slot ends: no CPU waits for tlb_lock for ever, although the mutex is
\* not fair, because the barrier keeps the CPUs that had the lock from coming
\* back for it in the same slot.  The only thing that stops the machine is a
\* lock that was not given back.
EverySlotEnds ==
  \A c \in Cpu :
    /\ phase[c] = "running" ~> (phase[c] = "waiting" \/ Abandoned)
    /\ phase[c] = "waiting" ~> (phase[c] = "running" \/ Abandoned)
=============================================================================
