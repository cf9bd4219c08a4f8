--------------------------- MODULE CountDownLatch ---------------------------
(***************************************************************************)
(* The count-down latch of src/aula-06-02/cdl.c (the same file is in       *)
(* aula-05-28).  The counter is accessed under the mutex; the signal that  *)
(* brings it to zero broadcasts after the unlock, a step of its own that   *)
(* other threads may delay.  A wait may return spuriously.                 *)
(*                                                                         *)
(* Module ParAdder runs this latch inside the program that uses it.        *)
(***************************************************************************)
EXTENDS Integers, FiniteSets

CONSTANTS Signaller,    \* calls of cdl_signal
          Waiter,       \* threads that call cdl_wait
          initial       \* the counter cdl_init sets; more may signal than that

ASSUME LatchAssumption == initial \in Nat /\ Signaller \cap Waiter = {}

VARIABLES counter,
          pc    \* start, broadcast, done;  for a waiter start, wait, check, done

latchVars == <<counter, pc>>

(* The waiters in the condition variable. *)
Completed == {w \in Waiter : pc[w] = "wait"}

(* pc after t moves to l and the threads of woken leave their wait. *)
GoAndWake(t, l, woken) ==
    pc' = [u \in Signaller \cup Waiter |->
             IF u = t THEN l ELSE IF u \in woken THEN "check" ELSE pc[u]]

(* Mutant: the broadcast is decided one signal too late. *)
SignalLate(s) ==
    /\ pc[s] = "start"
    /\ counter' = counter - 1
    /\ GoAndWake(s, IF counter = 0 THEN "broadcast" ELSE "done", {})

cdl_signal(s) ==
    /\ pc[s] = "start"
    /\ counter' = counter - 1
    /\ GoAndWake(s, IF counter' = 0 THEN "broadcast" ELSE "done", {})

Broadcasts(s) ==
    /\ pc[s] = "broadcast"
    /\ GoAndWake(s, "done", Completed)
    /\ UNCHANGED counter

(* Mutant: the counter is tested once. *)
WaitOnce(w) ==
    /\ pc[w] \in {"start", "check"}
    /\ GoAndWake(w, IF pc[w] = "start" /\ counter > 0 THEN "wait" ELSE "done", {})
    /\ UNCHANGED counter

cdl_wait(w) ==
    /\ pc[w] \in {"start", "check"}
    /\ GoAndWake(w, IF counter > 0 THEN "wait" ELSE "done", {})
    /\ UNCHANGED counter

SpuriousWakeup(w) ==
    /\ pc[w] = "wait"
    /\ GoAndWake(w, "check", {})
    /\ UNCHANGED counter

-----------------------------------------------------------------------------
(* A waiter that sleeps on an open latch has a broadcast coming: the window *)
(* between the unlock and the broadcast loses no wake-up.                   *)
SleeperWillBeWoken ==
    (counter <= 0 /\ Completed # {}) => \E s \in Signaller : pc[s] = "broadcast"
=============================================================================
