------------------------------- MODULE Timer -------------------------------
(***************************************************************************)
(* timer.c at the granularity of its critical sections: the timer thread   *)
(* walks dev_list twice per slot, first waiting for every device, then     *)
(* releasing every device; next_slot and detach_event are the devices'     *)
(* side.  pthread_cond_wait is modelled with its sleep, its wake-up by a   *)
(* signal (lost when nobody sleeps) and spurious wake-ups.                 *)
(*                                                                         *)
(* Device d of the model is the d-th container of dev_list.  The initial   *)
(* state is the one main() has built when start_timer() returns: all the   *)
(* devices are attached, none has done any work.                           *)
(***************************************************************************)
EXTENDS Naturals

CONSTANTS N,           \* length of dev_list
          MaxSlots     \* bound: a device detaches after at most MaxSlots slots

ASSUME NAssumption == N \in Nat \ {0}
ASSUME MaxSlotsAssumption == MaxSlots \in Nat

VARIABLES
  done,        \* timer_id_t.done, set under event_lock, cleared under timer_lock
  fsh,         \* timer_id_t.fsh
  dpc,         \* where each device is: in its slot, in next_slot, or exited
  slots,       \* how many times next_slot has returned to each device
  time,        \* _time
  timer_stop,
  tpc,         \* where timer_routine is
  temp,        \* its cursor in dev_list; N + 1 is the end of the list
  nfsh,        \* its local counters fsh and event
  nevent,
  mpc          \* where main is: joining the devices, in stop_timer, finished

devvars == <<done, fsh, dpc, slots>>
tmvars == <<tpc, temp, nfsh, nevent>>
vars == <<done, fsh, dpc, slots, time, timer_stop, tpc, temp, nfsh, nevent, mpc>>

Device == 1..N

TypeOK ==
  /\ done \in [Device -> BOOLEAN]
  /\ fsh \in [Device -> BOOLEAN]
  /\ dpc \in [Device -> {"work", "wait", "asleep", "exited"}]
  /\ slots \in [Device -> Nat]
  /\ time \in Nat
  /\ timer_stop \in BOOLEAN
  /\ tpc \in {"loop", "wait", "asleep", "release", "exited"}
  /\ temp \in 1..(N + 1)
  /\ nfsh \in Nat
  /\ nevent \in Nat
  /\ mpc \in {"join", "stop", "freed"}

Init ==
  /\ done = [d \in Device |-> FALSE]
  /\ fsh = [d \in Device |-> FALSE]
  /\ dpc = [d \in Device |-> "work"]
  /\ slots = [d \in Device |-> 0]
  /\ time = 0
  /\ timer_stop = FALSE
  /\ tpc = "loop"
  /\ temp = 1
  /\ nfsh = 0
  /\ nevent = 0
  /\ mpc = "join"

-----------------------------------------------------------------------------
(* The devices.                                                            *)

\* pthread_cond_signal(event_cond) of d: wakes the timer if it sleeps there.
SignalEvent(d) ==
  tpc' = IF tpc = "asleep" /\ temp = d THEN "wait" ELSE tpc

\* next_slot, first critical section (event_lock).
NextSlotDone(d) ==
  /\ dpc[d] = "work"
  /\ slots[d] < MaxSlots
  /\ done' = [done EXCEPT ![d] = TRUE]
  /\ dpc' = [dpc EXCEPT ![d] = "wait"]
  /\ SignalEvent(d)
  /\ UNCHANGED <<fsh, slots, time, timer_stop, temp, nfsh, nevent, mpc>>

\* A next_slot that returns without waiting for its release: mutation.
NextSlotNoWait(d) ==
  /\ dpc[d] = "wait"
  /\ dpc' = [dpc EXCEPT ![d] = "work"]
  /\ slots' = [slots EXCEPT ![d] = @ + 1]
  /\ UNCHANGED <<done, fsh, time, timer_stop, tmvars, mpc>>

\* next_slot, second critical section (timer_lock): one test of the while,
\* which either goes to sleep or returns to the caller.
NextSlotWait(d) ==
  /\ dpc[d] = "wait"
  /\ IF done[d]
       THEN /\ dpc' = [dpc EXCEPT ![d] = "asleep"]
            /\ UNCHANGED slots
       ELSE /\ dpc' = [dpc EXCEPT ![d] = "work"]
            /\ slots' = [slots EXCEPT ![d] = @ + 1]
  /\ UNCHANGED <<done, fsh, time, timer_stop, tmvars, mpc>>

\* detach_event without pthread_cond_signal: mutation.
DetachSilently(d) ==
  /\ dpc[d] = "work"
  /\ fsh' = [fsh EXCEPT ![d] = TRUE]
  /\ dpc' = [dpc EXCEPT ![d] = "exited"]
  /\ UNCHANGED <<done, slots, time, timer_stop, tmvars, mpc>>

\* detach_event, after which the thread exits.
DetachEvent(d) ==
  /\ dpc[d] = "work"
  /\ fsh' = [fsh EXCEPT ![d] = TRUE]
  /\ dpc' = [dpc EXCEPT ![d] = "exited"]
  /\ SignalEvent(d)
  /\ UNCHANGED <<done, slots, time, timer_stop, temp, nfsh, nevent, mpc>>

\* pthread_cond_wait may return without a signal.
SpuriousDevice(d) ==
  /\ dpc[d] = "asleep"
  /\ dpc' = [dpc EXCEPT ![d] = "wait"]
  /\ UNCHANGED <<done, fsh, slots, time, timer_stop, tmvars, mpc>>

-----------------------------------------------------------------------------
(* The timer thread.                                                       *)

TimerLoop ==
  /\ tpc = "loop"
  /\ tpc' = IF timer_stop THEN "exited" ELSE "wait"
  /\ temp' = 1
  /\ nfsh' = 0
  /\ nevent' = 0
  /\ UNCHANGED <<devvars, time, timer_stop, mpc>>

\* The timer does not wait for done: mutation.
TimerNoAwait ==
  /\ tpc = "wait" /\ temp \in Device
  /\ nfsh' = IF fsh[temp] THEN nfsh + 1 ELSE nfsh
  /\ nevent' = nevent + 1
  /\ temp' = temp + 1
  /\ UNCHANGED <<tpc, devvars, time, timer_stop, mpc>>

\* One test of the inner while under event_lock of the device at the cursor.
TimerAwait ==
  /\ tpc = "wait" /\ temp \in Device
  /\ IF ~done[temp] /\ ~fsh[temp]
       THEN /\ tpc' = "asleep"
            /\ UNCHANGED <<temp, nfsh, nevent>>
       ELSE /\ nfsh' = IF fsh[temp] THEN nfsh + 1 ELSE nfsh
            /\ nevent' = nevent + 1
            /\ temp' = temp + 1
            /\ UNCHANGED tpc
  /\ UNCHANGED <<devvars, time, timer_stop, mpc>>

\* The slot ends without _time++: mutation.
TimerNoTick ==
  /\ tpc = "wait" /\ temp = N + 1
  /\ tpc' = "release"
  /\ temp' = 1
  /\ UNCHANGED <<devvars, time, timer_stop, nfsh, nevent, mpc>>

TimerTick ==
  /\ tpc = "wait" /\ temp = N + 1
  /\ time' = time + 1
  /\ tpc' = "release"
  /\ temp' = 1
  /\ UNCHANGED <<devvars, timer_stop, nfsh, nevent, mpc>>

\* The release pass runs past the end of dev_list: mutation.
TimerReleaseOneMore ==
  /\ tpc = "release"
  /\ done' = [d \in Device |-> IF d = temp THEN FALSE ELSE done[d]]
  /\ dpc' = [d \in Device |-> IF d = temp /\ dpc[d] = "asleep"
                               THEN "wait" ELSE dpc[d]]
  /\ temp' = temp + 1
  /\ UNCHANGED <<fsh, slots, time, timer_stop, tpc, nfsh, nevent, mpc>>

\* done is cleared but timer_cond is not signalled: mutation.
TimerReleaseSilently ==
  /\ tpc = "release" /\ temp \in Device
  /\ done' = [done EXCEPT ![temp] = FALSE]
  /\ temp' = temp + 1
  /\ UNCHANGED <<dpc, fsh, slots, time, timer_stop, tpc, nfsh, nevent, mpc>>

\* Clear done and signal timer_cond, under timer_lock.
TimerRelease ==
  /\ tpc = "release" /\ temp \in Device
  /\ done' = [done EXCEPT ![temp] = FALSE]
  /\ dpc' = [dpc EXCEPT ![temp] = IF @ = "asleep" THEN "wait" ELSE @]
  /\ temp' = temp + 1
  /\ UNCHANGED <<fsh, slots, time, timer_stop, tpc, nfsh, nevent, mpc>>

\* The timer ends when some device has finished: mutation.
TimerEndEarly ==
  /\ tpc = "release" /\ temp = N + 1
  /\ tpc' = IF nfsh > 0 THEN "exited" ELSE "loop"
  /\ UNCHANGED <<devvars, time, timer_stop, temp, nfsh, nevent, mpc>>

TimerEndPass ==
  /\ tpc = "release" /\ temp = N + 1
  /\ tpc' = IF nfsh = nevent THEN "exited" ELSE "loop"
  /\ UNCHANGED <<devvars, time, timer_stop, temp, nfsh, nevent, mpc>>

SpuriousTimer ==
  /\ tpc = "asleep"
  /\ tpc' = "wait"
  /\ UNCHANGED <<devvars, time, timer_stop, temp, nfsh, nevent, mpc>>

-----------------------------------------------------------------------------
(* main: join every device, then stop_timer.                               *)

StopTimer ==
  /\ mpc = "join"
  /\ \A d \in Device : dpc[d] = "exited"
  /\ timer_stop' = TRUE
  /\ mpc' = "stop"
  /\ UNCHANGED <<devvars, time, tmvars>>

\* pthread_join(_timer), then the containers of dev_list are destroyed.
FreeDevices ==
  /\ mpc = "stop"
  /\ tpc = "exited"
  /\ mpc' = "freed"
  /\ UNCHANGED <<devvars, time, timer_stop, tmvars>>

\* The process has ended.
Finished == mpc = "freed" /\ UNCHANGED vars

-----------------------------------------------------------------------------
DeviceStep(d) == NextSlotDone(d) \/ NextSlotWait(d) \/ DetachEvent(d)
TimerStep == TimerLoop \/ TimerAwait \/ TimerTick \/ TimerRelease \/ TimerEndPass
MainStep == StopTimer \/ FreeDevices

Next == \/ \E d \in Device : DeviceStep(d) \/ SpuriousDevice(d)
        \/ TimerStep \/ SpuriousTimer
        \/ MainStep \/ Finished

\* Every thread that can run does run; a device's work in a slot ends.
Fairness == /\ \A d \in Device : WF_vars(DeviceStep(d))
            /\ WF_vars(TimerStep)
            /\ WF_vars(MainStep)

Spec == Init /\ [][Next]_vars
FairSpec == Spec /\ Fairness

-----------------------------------------------------------------------------
(* Properties.                                                             *)

\* While a device works in a slot, current_time() is the number of slots that
\* device has been through: no device ever runs ahead of, or behind, the
\* others (timer.c: timer_routine and next_slot; ld_routine loads processes by
\* that time).
SlotAgreement == \A d \in Device : dpc[d] = "work" => slots[d] = time

\* `done` is written under two different locks and `_time` under none.  It is
\* harmless because the writers never meet: when the timer is about to clear a
\* device's flag that device is not about to set it, and when the timer is
\* about to increment _time no device is in its slot and can read it.
RaceFree ==
  /\ tpc = "release" /\ temp \in Device => dpc[temp] # "work"
  /\ tpc = "wait" /\ temp = N + 1 => \A d \in Device : dpc[d] # "work"

\* The timer thread ends only after every device has detached: nobody is left
\* in next_slot waiting for a release that never comes (timer.c: the
\* fsh == event test and timer_stop).
NobodyStranded == tpc = "exited" => \A d \in Device : fsh[d]

\* A device that has called next_slot returns from it, whatever the order of
\* signals, sleeps and spurious wake-ups (timer.c: no lost wake-up).
NextSlotReturns == \A d \in Device : dpc[d] = "wait" ~> dpc[d] = "work"

\* Once every device has detached the timer ends and stop_timer frees dev_list.
Shutdown == <>(mpc = "freed")

-----------------------------------------------------------------------------
(* The promise.  A device whose flag the timer is going to clear in this   *)
(* release pass already counts as running in the new slot.                 *)

CONSTANT Horizon
ASSUME HorizonInNat == Horizon \in Nat

Arrived(d) == done[d] /\ ~(tpc = "release" /\ d >= temp)

phaseBar == [d \in Device |-> IF fsh[d] THEN "gone"
                              ELSE IF Arrived(d) THEN "waiting" ELSE "running"]
timeBar == IF time < Horizon THEN time ELSE Horizon

Clock == INSTANCE SlotClock WITH time <- timeBar, phase <- phaseBar

\* timer.c implements the slot barrier of SlotClock, its liveness included.
ImplementsSlotClock == Clock!Spec
=============================================================================
