---------------------------- MODULE TimerProofs ----------------------------
(***************************************************************************)
(* Proofs about timer.c for every number of devices and every bound on     *)
(* their slots: the safety properties of module Timer, and that every step *)
(* of the threads is a step, or a stutter, of the slot barrier SlotClock.  *)
(***************************************************************************)
EXTENDS Timer, TLAPS

-----------------------------------------------------------------------------
(* The inductive invariant.  A device is in one of three relations to the  *)
(* timer's cursor: already collected by the waiting pass, still to be      *)
(* released by the releasing pass, or neither.                             *)

Collected(d) == \/ tpc \in {"wait", "asleep"} /\ d < temp
                \/ tpc = "release" /\ temp <= d

\* The flags say where the device is.
FlagInv == \A d \in Device :
  /\ done[d] => dpc[d] \in {"wait", "asleep"}
  /\ dpc[d] = "asleep" => done[d]
  /\ fsh[d] <=> dpc[d] = "exited"

\* A collected device has arrived or left, and stays so until it is released.
CollectInv == \A d \in Device : Collected(d) => done[d] \/ fsh[d]

\* How many slots a device has been through, against the slot number.
SlotInv == \A d \in Device :
  /\ dpc[d] = "work" => slots[d] = time
  /\ dpc[d] \in {"wait", "asleep"} =>
       slots[d] = IF Arrived(d) THEN time ELSE time - 1

\* The two local counters agree only while every device counted has left.
CountInv ==
  /\ nfsh <= nevent
  /\ tpc \in {"wait", "asleep", "release"} /\ nfsh = nevent =>
       \A d \in Device : (d < temp \/ tpc = "release") => fsh[d]

\* The ways the threads end.
EndInv ==
  /\ mpc # "join" <=> timer_stop
  /\ timer_stop => \A d \in Device : dpc[d] = "exited"
  /\ tpc = "exited" => \A d \in Device : fsh[d]

IInv == TypeOK /\ FlagInv /\ CollectInv /\ SlotInv /\ CountInv /\ EndInv

USE NAssumption, MaxSlotsAssumption DEF Device

-----------------------------------------------------------------------------
LEMMA InitIInv == Init => IInv
<1> SUFFICES ASSUME Init PROVE IInv
  OBVIOUS
<1> USE DEF Init
<1>1. TypeOK
  <2>1. done \in [Device -> BOOLEAN] /\ fsh \in [Device -> BOOLEAN]
    BY Zenon
  <2>2. dpc \in [Device -> {"work", "wait", "asleep", "exited"}]
    BY Zenon
  <2>3. timer_stop \in BOOLEAN
    BY Zenon
  <2>4. /\ slots \in [Device -> Nat]
        /\ time \in Nat /\ nfsh \in Nat /\ nevent \in Nat
        /\ temp \in 1..(N + 1)
    BY SMT
  <2>5. /\ tpc \in {"loop", "wait", "asleep", "release", "exited"}
        /\ mpc \in {"join", "stop", "freed"}
    BY Zenon
  <2> QED BY <2>1, <2>2, <2>3, <2>4, <2>5, Zenon DEF TypeOK
<1>2. FlagInv /\ CollectInv
  BY DEF FlagInv, CollectInv, Collected
<1>3. SlotInv /\ CountInv
  BY DEF SlotInv, CountInv, Arrived
<1>4. EndInv
  BY DEF EndInv
<1> QED BY <1>1, <1>2, <1>3, <1>4 DEF IInv

LEMMA NextSlotDoneIInv ==
  ASSUME IInv, NEW d \in Device, NextSlotDone(d)
  PROVE  IInv'
<1> USE DEF IInv, NextSlotDone, SignalEvent
<1>1. TypeOK'
  BY DEF TypeOK
<1>2. FlagInv' /\ CollectInv' /\ EndInv'
  BY DEF TypeOK, FlagInv, CollectInv, EndInv, Collected
<1>3. SlotInv'
  BY DEF TypeOK, FlagInv, CollectInv, SlotInv, Collected, Arrived
<1>4. CountInv'
  BY DEF TypeOK, CountInv
<1> QED BY <1>1, <1>2, <1>3, <1>4

LEMMA NextSlotWaitIInv ==
  ASSUME IInv, NEW d \in Device, NextSlotWait(d)
  PROVE  IInv'
<1> USE DEF IInv, NextSlotWait, tmvars
<1>1. TypeOK'
  BY DEF TypeOK
<1>2. FlagInv' /\ CollectInv' /\ EndInv'
  BY DEF TypeOK, FlagInv, CollectInv, EndInv, Collected
<1>3. SlotInv'
  BY DEF TypeOK, FlagInv, SlotInv, Arrived
<1>4. CountInv'
  BY DEF TypeOK, CountInv
<1> QED BY <1>1, <1>2, <1>3, <1>4

LEMMA DetachEventIInv ==
  ASSUME IInv, NEW d \in Device, DetachEvent(d)
  PROVE  IInv'
<1> USE DEF IInv, DetachEvent, SignalEvent
<1>1. TypeOK'
  BY DEF TypeOK
<1>2. FlagInv' /\ CollectInv' /\ EndInv'
  BY DEF TypeOK, FlagInv, CollectInv, EndInv, Collected
<1>3. SlotInv'
  BY DEF TypeOK, SlotInv, Arrived
<1>4. CountInv'
  BY DEF TypeOK, CountInv
<1> QED BY <1>1, <1>2, <1>3, <1>4

LEMMA SpuriousIInv ==
  ASSUME IInv, SpuriousTimer \/ \E d \in Device : SpuriousDevice(d)
  PROVE  IInv'
<1> USE DEF IInv
<1>1. CASE SpuriousTimer
  BY <1>1 DEF SpuriousTimer, devvars, TypeOK, FlagInv, CollectInv, SlotInv,
              CountInv, EndInv, Collected, Arrived
<1>2. ASSUME NEW d \in Device, SpuriousDevice(d) PROVE IInv'
  <2> USE <1>2 DEF SpuriousDevice, tmvars
  <2>1. TypeOK'
    BY DEF TypeOK
  <2>2. FlagInv' /\ CollectInv' /\ EndInv'
    BY DEF TypeOK, FlagInv, CollectInv, EndInv, Collected
  <2>3. SlotInv' /\ CountInv'
    BY DEF TypeOK, SlotInv, CountInv, Arrived
  <2> QED BY <2>1, <2>2, <2>3
<1> QED BY <1>1, <1>2

LEMMA TimerStepIInv ==
  ASSUME IInv, TimerStep
  PROVE  IInv'
<1> USE DEF IInv, devvars
<1>1. CASE TimerLoop
  BY <1>1 DEF TimerLoop, TypeOK, FlagInv, CollectInv, SlotInv, CountInv,
              EndInv, Collected, Arrived
<1>2. CASE TimerAwait
  <2> USE <1>2 DEF TimerAwait
  <2>1. TypeOK'
    BY DEF TypeOK
  <2>2. FlagInv' /\ CollectInv' /\ EndInv'
    BY DEF TypeOK, FlagInv, CollectInv, EndInv, Collected
  <2>3. SlotInv'
    BY DEF TypeOK, SlotInv, Arrived
  <2>4. CountInv'
    BY DEF TypeOK, CountInv
  <2> QED BY <2>1, <2>2, <2>3, <2>4
<1>3. CASE TimerTick
  <2> USE <1>3 DEF TimerTick
  <2>1. TypeOK'
    BY DEF TypeOK
  <2>2. FlagInv' /\ CollectInv' /\ EndInv'
    BY DEF TypeOK, FlagInv, CollectInv, EndInv, Collected
  <2>3. \A d \in Device : done[d] \/ fsh[d]
    BY DEF TypeOK, CollectInv, Collected
  <2>4. SlotInv'
    BY <2>3 DEF TypeOK, FlagInv, SlotInv, Arrived
  <2>5. CountInv'
    BY DEF TypeOK, CountInv
  <2> QED BY <2>1, <2>2, <2>4, <2>5
<1>4. CASE TimerRelease
  <2> USE <1>4 DEF TimerRelease
  <2>1. TypeOK'
    BY DEF TypeOK
  <2>2. FlagInv' /\ CollectInv' /\ EndInv'
    BY DEF TypeOK, FlagInv, CollectInv, EndInv, Collected
  <2>3. SlotInv'
    BY DEF TypeOK, FlagInv, SlotInv, Arrived
  <2>4. CountInv'
    BY DEF TypeOK, CountInv
  <2> QED BY <2>1, <2>2, <2>3, <2>4
<1>5. CASE TimerEndPass
  BY <1>5 DEF TimerEndPass, TypeOK, FlagInv, CollectInv, SlotInv, CountInv,
              EndInv, Collected, Arrived
<1> QED BY <1>1, <1>2, <1>3, <1>4, <1>5 DEF TimerStep

LEMMA MainStepIInv ==
  ASSUME IInv, MainStep
  PROVE  IInv'
BY DEF IInv, MainStep, StopTimer, FreeDevices, devvars, tmvars, TypeOK,
       FlagInv, CollectInv, SlotInv, CountInv, EndInv, Collected, Arrived

LEMMA StutterIInv ==
  ASSUME IInv, UNCHANGED vars
  PROVE  IInv'
BY DEF IInv, vars, TypeOK, FlagInv, CollectInv, SlotInv, CountInv, EndInv,
       Collected, Arrived

LEMMA NextIInv == IInv /\ [Next]_vars => IInv'
BY NextSlotDoneIInv, NextSlotWaitIInv, DetachEventIInv, SpuriousIInv,
   TimerStepIInv, MainStepIInv, StutterIInv DEF Next, DeviceStep, Finished

THEOREM Invariance == Spec => []IInv
BY InitIInv, NextIInv, PTL DEF Spec

-----------------------------------------------------------------------------
(* Every step of the threads is a step, or a stutter, of the barrier.  The *)
(* whole barrier changes phase in one step: the increment of _time.        *)

LEMMA ClockInit == Init => Clock!Init
BY HorizonInNat DEF Init, Clock!Init, phaseBar, timeBar, Arrived

LEMMA ClockStep ==
  ASSUME IInv, [Next]_vars
  PROVE  [Clock!Next]_(Clock!clockvars)
<1> USE HorizonInNat
<1> SUFFICES \/ Clock!Next
             \/ timeBar' = timeBar /\ phaseBar' = phaseBar
  BY DEF Clock!clockvars
<1>1. ASSUME NEW d \in Device, NextSlotDone(d) PROVE Clock!Arrive(d)
  <2> USE <1>1 DEF IInv, NextSlotDone, SignalEvent
  <2>1. timeBar' = timeBar
    BY DEF timeBar
  <2>2. ~fsh[d] /\ ~done[d] /\ ~(tpc = "release" /\ temp <= d)
    BY DEF TypeOK, FlagInv, CollectInv, Collected
  <2>3. phaseBar[d] = "running"
    BY <2>2 DEF phaseBar, Arrived
  <2>4. phaseBar' = [phaseBar EXCEPT ![d] = "waiting"]
    BY <2>2 DEF TypeOK, phaseBar, Arrived
  <2> QED BY <2>1, <2>3, <2>4 DEF Clock!Arrive
<1>2. ASSUME NEW d \in Device, DetachEvent(d) PROVE Clock!Leave(d)
  <2> USE <1>2 DEF IInv, DetachEvent, SignalEvent
  <2>1. timeBar' = timeBar
    BY DEF timeBar
  <2>2. ~fsh[d] /\ ~done[d]
    BY DEF TypeOK, FlagInv
  <2>3. phaseBar[d] = "running"
    BY <2>2 DEF phaseBar, Arrived
  <2>4. phaseBar' = [phaseBar EXCEPT ![d] = "gone"]
    BY <2>2 DEF TypeOK, phaseBar, Arrived
  <2> QED BY <2>1, <2>3, <2>4 DEF Clock!Leave
<1>3. CASE TimerTick
  <2> USE <1>3 DEF IInv, TimerTick, devvars
  <2>1. \A d \in Device : done[d] \/ fsh[d]
    BY DEF TypeOK, CollectInv, Collected
  <2>2. \A d \in Device : phaseBar[d] # "running"
    BY <2>1 DEF TypeOK, phaseBar, Arrived
  <2>3. timeBar' = Clock!Advance(timeBar)
    BY DEF TypeOK, timeBar, Clock!Advance
  <2>4. phaseBar' = [d \in Device |-> IF phaseBar[d] = "waiting"
                                       THEN "running" ELSE phaseBar[d]]
    BY <2>1 DEF TypeOK, phaseBar, Arrived
  <2> QED BY <2>2, <2>3, <2>4 DEF Clock!Tick, Clock!Next
<1>4. CASE TimerRelease
  <2> USE <1>4 DEF IInv, TimerRelease
  <2>1. timeBar' = timeBar
    BY DEF timeBar
  <2>2. \A d \in Device : Arrived(d)' <=> Arrived(d)
    BY DEF TypeOK, Arrived
  <2>3. phaseBar' = phaseBar
    BY <2>2 DEF phaseBar
  <2> QED BY <2>1, <2>3
<1>5. CASE TimerLoop \/ TimerAwait \/ SpuriousTimer \/ TimerEndPass
  <2> USE <1>5 DEF IInv, TimerLoop, TimerAwait, SpuriousTimer, TimerEndPass,
                   devvars
  <2>1. timeBar' = timeBar
    BY DEF timeBar
  <2>2. \A d \in Device : Arrived(d)' <=> Arrived(d)
    BY DEF TypeOK, Arrived
  <2>3. phaseBar' = phaseBar
    BY <2>2 DEF phaseBar
  <2> QED BY <2>1, <2>3
<1>6. CASE \/ MainStep \/ Finished \/ UNCHANGED vars
           \/ \E d \in Device : NextSlotWait(d) \/ SpuriousDevice(d)
  BY <1>6 DEF MainStep, StopTimer, FreeDevices, Finished, NextSlotWait,
              SpuriousDevice, vars, devvars, tmvars, timeBar, phaseBar, Arrived
<1> QED BY <1>1, <1>2, <1>3, <1>4, <1>5, <1>6
        DEF Next, DeviceStep, TimerStep, Clock!Next

\* timer.c is a slot barrier: whatever the interleaving of the critical
\* sections of next_slot, detach_event and timer_routine, and for any number of
\* devices, what the devices see is the safety part of SlotClock.
THEOREM RefinesSlotClock == Spec => Clock!SafeSpec
BY ClockInit, ClockStep, Invariance, PTL DEF Spec, Clock!SafeSpec

-----------------------------------------------------------------------------
\* Every variable of timer.c keeps its type, for any number of devices.
THEOREM TypeCorrect == Spec => []TypeOK
<1>1. IInv => TypeOK
  BY DEF IInv
<1> QED BY <1>1, Invariance, PTL

\* While a device works, current_time() is the number of slots it has been
\* through (next_slot against timer_routine), for any number of devices.
THEOREM SlotsAgree == Spec => []SlotAgreement
<1>1. IInv => SlotAgreement
  BY DEF IInv, SlotInv, SlotAgreement
<1> QED BY <1>1, Invariance, PTL

\* The unprotected accesses to done and _time never meet.
THEOREM NoRace == Spec => []RaceFree
<1>1. IInv => RaceFree
  <2> SUFFICES ASSUME IInv PROVE RaceFree
    OBVIOUS
  <2>1. ASSUME NEW d \in Device, Collected(d) PROVE dpc[d] # "work"
    BY <2>1 DEF IInv, TypeOK, FlagInv, CollectInv
  <2> QED BY <2>1 DEF IInv, TypeOK, Collected, RaceFree
<1> QED BY <1>1, Invariance, PTL

\* The timer thread ends only after every device has detached.
THEOREM NoneStranded == Spec => []NobodyStranded
<1>1. IInv => NobodyStranded
  BY DEF IInv, EndInv, NobodyStranded
<1> QED BY <1>1, Invariance, PTL
=============================================================================
