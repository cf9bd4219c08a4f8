--------------------------- MODULE CyclicBarrier ---------------------------
(***************************************************************************)
(* The reusable barrier of src/aula-06-04/barriers/barrier.c, used as in   *)
(* barrier_test.c: each of the `parties` threads computes a phase and      *)
(* calls barrier_await, Phases times.  All fields are accessed under the   *)
(* mutex, so barrier_await is one step up to its wait or its return, and   *)
(* one step each time the wait returns, signalled or spuriously.           *)
(*                                                                         *)
(* `round` is an int that is incremented for ever; here it counts modulo   *)
(* RoundMod (2^32 in the code, when overflow wraps).                       *)
(***************************************************************************)
EXTENDS Integers, FiniteSets

CONSTANTS Thread, RoundMod,
          Phases        \* phases each thread goes through: a bound on the run

ASSUME ThreadAssumption == IsFiniteSet(Thread) /\ Thread # {}
ASSUME RoundAssumption == RoundMod \in Nat /\ RoundMod >= 2
ASSUME PhasesAssumption == Phases \in Nat

parties == Cardinality(Thread)

VARIABLES arrived, round,
          r,        \* the round each thread read when it arrived
          pc,       \* work: computing;  wait: in all_arrived;  check: woken
          serial,   \* the last barrier_await of the thread returned SERIAL_THREAD
          phase     \* history: completed calls of barrier_await

vars == <<arrived, round, r, pc, serial, phase>>

(* Type invariant: never more arrivals than parties. *)
TypeOK ==
    /\ arrived \in 0..parties
    /\ round \in 0..RoundMod-1
    /\ r \in [Thread -> 0..RoundMod-1]
    /\ pc \in [Thread -> {"work", "wait", "check"}]
    /\ serial \in [Thread -> BOOLEAN]
    /\ phase \in [Thread -> 0..Phases]

Init ==
    /\ arrived = 0
    /\ round = 0
    /\ r = [t \in Thread |-> 0]
    /\ pc = [t \in Thread |-> "work"]
    /\ serial = [t \in Thread |-> FALSE]
    /\ phase = [t \in Thread |-> 0]

AllArrived == {t \in Thread : pc[t] = "wait"}

-----------------------------------------------------------------------------
(* Mutant: nobody is woken. *)
LastWakesNobody(t) ==
    /\ arrived + 1 = parties
    /\ arrived' = 0
    /\ round' = (round + 1) % RoundMod
    /\ serial' = [serial EXCEPT ![t] = TRUE]
    /\ phase' = [phase EXCEPT ![t] = @ + 1]
    /\ UNCHANGED pc

(* The last thread to arrive wakes the others, opens the next round and     *)
(* returns.                                                                 *)
LastArrives(t) ==
    /\ arrived + 1 = parties
    /\ arrived' = 0
    /\ round' = (round + 1) % RoundMod
    /\ pc' = [u \in Thread |-> IF u \in AllArrived THEN "check" ELSE pc[u]]
    /\ serial' = [serial EXCEPT ![t] = TRUE]
    /\ phase' = [phase EXCEPT ![t] = @ + 1]

NotLastArrives(t) ==
    /\ arrived + 1 # parties
    /\ arrived' = arrived + 1
    /\ pc' = [pc EXCEPT ![t] = "wait"]
    /\ UNCHANGED <<round, serial, phase>>

barrier_await(t) ==
    /\ pc[t] = "work"
    /\ phase[t] < Phases
    /\ r' = [r EXCEPT ![t] = round]
    /\ LastArrives(t) \/ NotLastArrives(t)

(* Mutant: `if` instead of `do while`. *)
TrustsTheWakeup(t) ==
    /\ pc[t] = "check"
    /\ pc' = [pc EXCEPT ![t] = "work"]
    /\ serial' = [serial EXCEPT ![t] = FALSE]
    /\ phase' = [phase EXCEPT ![t] = @ + 1]
    /\ UNCHANGED <<arrived, round, r>>

(* Mutant: the waiters compute their return value from `arrived`, which the *)
(* last thread has reset or the next round has changed.                     *)
SerialFromArrived(t) ==
    /\ pc[t] = "check"
    /\ \/ /\ round = r[t]
          /\ pc' = [pc EXCEPT ![t] = "wait"]
          /\ UNCHANGED <<serial, phase>>
       \/ /\ round # r[t]
          /\ pc' = [pc EXCEPT ![t] = "work"]
          /\ serial' = [serial EXCEPT ![t] = (arrived = 0)]
          /\ phase' = [phase EXCEPT ![t] = @ + 1]
    /\ UNCHANGED <<arrived, round, r>>

(* The wait has returned: wait again while the round is still the old one.  *)
Rechecks(t) ==
    /\ pc[t] = "check"
    /\ \/ /\ round = r[t]
          /\ pc' = [pc EXCEPT ![t] = "wait"]
          /\ UNCHANGED <<serial, phase>>
       \/ /\ round # r[t]
          /\ pc' = [pc EXCEPT ![t] = "work"]
          /\ serial' = [serial EXCEPT ![t] = FALSE]
          /\ phase' = [phase EXCEPT ![t] = @ + 1]
    /\ UNCHANGED <<arrived, round, r>>

SpuriousWakeup(t) ==
    /\ pc[t] = "wait"
    /\ pc' = [pc EXCEPT ![t] = "check"]
    /\ UNCHANGED <<arrived, round, r, serial, phase>>

Next == \E t \in Thread : barrier_await(t) \/ Rechecks(t) \/ SpuriousWakeup(t)

Spec == Init /\ [][Next]_vars

(* Every thread keeps being scheduled and its computation ends; nothing     *)
(* makes a wait return spuriously.                                          *)
LiveSpec == Spec /\ \A t \in Thread : WF_vars(barrier_await(t) \/ Rechecks(t))

-----------------------------------------------------------------------------
(* How many times a thread has arrived. *)
Arrivals(t) == phase[t] + (IF pc[t] = "work" THEN 0 ELSE 1)

(* "after this point, all three threads have completed": a thread is past   *)
(* its n-th barrier_await only when every thread has arrived n times.       *)
NobodyPassesEarly == \A t, u \in Thread : phase[t] <= Arrivals(u)

(* When all have completed the same phase, exactly one call of              *)
(* barrier_await in that phase returned SERIAL_THREAD.                      *)
OneSerialThread ==
    (\E n \in 1..Phases : \A t \in Thread : pc[t] = "work" /\ phase[t] = n)
        => Cardinality({t \in Thread : serial[t]}) = 1

(* Every thread goes through all its phases. *)
AllPhasesDone == <>(\A t \in Thread : phase[t] = Phases)
=============================================================================
