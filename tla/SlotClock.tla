----------------------------- MODULE SlotClock -----------------------------
(***************************************************************************)
(* What timer.c promises the CPUs and the loader ("devices"): a barrier    *)
(* that cuts time into slots.  A device that has done its work of the      *)
(* current slot waits; the slot number advances only when every device has *)
(* either arrived or left for good, and then all the waiting devices enter *)
(* the next slot together.                                                 *)
(*                                                                         *)
(* Module Timer implements this with a thread, flags and condition         *)
(* variables; module OsSim builds the operating system on top of it.       *)
(***************************************************************************)
EXTENDS Naturals

CONSTANTS Device,     \* the attached devices
          Horizon     \* the slot number is counted up to here and then stays:
                      \* its readers only compare it with start times below it

VARIABLES time,       \* current_time()
          phase       \* what each device is doing

clockvars == <<time, phase>>

Phase == {"running", "waiting", "gone"}

TypeOK == /\ time \in 0..Horizon
          /\ phase \in [Device -> Phase]

Advance(t) == IF t < Horizon THEN t + 1 ELSE t

Init == /\ time = 0
        /\ phase = [d \in Device |-> "running"]

-----------------------------------------------------------------------------
\* next_slot: the device has finished its work in this slot.
Arrive(d) == /\ phase[d] = "running"
             /\ phase' = [phase EXCEPT ![d] = "waiting"]
             /\ UNCHANGED time

\* detach_event: the device takes no further part.
Leave(d) == /\ phase[d] = "running"
            /\ phase' = [phase EXCEPT ![d] = "gone"]
            /\ UNCHANGED time

\* The timer begins the next slot.
Tick == /\ \A d \in Device : phase[d] # "running"
        /\ time' = Advance(time)
        /\ phase' = [d \in Device |-> IF phase[d] = "waiting" THEN "running"
                                                              ELSE phase[d]]

Next == \/ Tick
        \/ \E d \in Device : Arrive(d) \/ Leave(d)

\* A slot that everybody has finished does end.
EndSlot == Tick /\ \E d \in Device : phase[d] = "waiting"

SafeSpec == Init /\ [][Next]_clockvars
Spec == SafeSpec /\ WF_clockvars(EndSlot)
=============================================================================
