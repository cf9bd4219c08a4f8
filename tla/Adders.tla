------------------------------- MODULE Adders -------------------------------
(***************************************************************************)
(* The parallel adder over the latch of its time, and the first version of *)
(* the latch, src/aula-05-27/tp/cdl.c, which no program of the repository  *)
(* calls: any threads do.  It broadcasts before the unlock, and a waiter   *)
(* tests the counter once: what wakes it is taken for the last signal.     *)
(* kind says which runs; the adder's variables stay where they are while   *)
(* it does not.                                                            *)
(***************************************************************************)
EXTENDS ParAdder

CONSTANTS Kind,
          FirstSignaller, FirstWaiter,  \* calls of cdl_signal, threads that call cdl_wait
          first_initial

ASSUME FirstAssumption ==
    /\ Kind \subseteq {"adder", "first"}
    /\ first_initial \in Nat /\ FirstSignaller \cap FirstWaiter = {}

VARIABLES kind,
          first_counter,
          first_pc,     \* start, wait, woken, done
          surprised     \* history: the waiters whose wait returned spuriously

firstVars == <<first_counter, first_pc, surprised>>
addersVars == <<kind, allVars, firstVars>>

FirstInit ==
    /\ first_counter = first_initial
    /\ first_pc = [t \in FirstSignaller \cup FirstWaiter |-> "start"]
    /\ surprised = {}

Sleeping == {w \in FirstWaiter : first_pc[w] = "wait"}

(* Mutant: every signal broadcasts. *)
SignalToAll(s) ==
    /\ first_pc[s] = "start"
    /\ first_counter' = first_counter - 1
    /\ first_pc' = [t \in DOMAIN first_pc |-> IF t = s THEN "done"
                       ELSE IF t \in Sleeping THEN "woken" ELSE first_pc[t]]
    /\ UNCHANGED surprised

FirstSignal(s) ==
    /\ first_pc[s] = "start"
    /\ first_counter' = first_counter - 1
    /\ LET woken == IF first_counter' = 0 THEN Sleeping ELSE {} IN
       first_pc' = [t \in DOMAIN first_pc |-> IF t = s THEN "done"
                       ELSE IF t \in woken THEN "woken" ELSE first_pc[t]]
    /\ UNCHANGED surprised

FirstWait(w) ==
    /\ first_pc[w] = "start"
    /\ first_pc' = [first_pc EXCEPT ![w] = IF first_counter > 0 THEN "wait" ELSE "done"]
    /\ UNCHANGED <<first_counter, surprised>>

(* Out of the wait the waiter has the mutex again, and returns. *)
FirstWaitReturns(w) ==
    /\ first_pc[w] = "woken"
    /\ first_pc' = [first_pc EXCEPT ![w] = "done"]
    /\ UNCHANGED <<first_counter, surprised>>

FirstWakesSpuriously(w) ==
    /\ first_pc[w] = "wait"
    /\ first_pc' = [first_pc EXCEPT ![w] = "woken"]
    /\ surprised' = surprised \cup {w}
    /\ UNCHANGED first_counter

FirstNext ==
    \/ \E s \in FirstSignaller : FirstSignal(s)
    \/ \E w \in FirstWaiter : FirstWait(w) \/ FirstWaitReturns(w) \/ FirstWakesSpuriously(w)

-----------------------------------------------------------------------------
AddersInit ==
    /\ kind \in Kind
    /\ Init
    /\ kind = "first" => \A n \in Size : size <= n
    /\ IF kind = "first" THEN FirstInit
       ELSE first_counter = 0 /\ first_pc = <<>> /\ surprised = {}

ItemRuns == kind = "adder" /\ ItemStep /\ UNCHANGED <<kind, firstVars>>
MainRuns == kind = "adder" /\ MainStep /\ UNCHANGED <<kind, firstVars>>

AddersNext ==
    \/ kind = "adder" /\ AdderNext /\ UNCHANGED <<kind, firstVars>>
    \/ kind = "first" /\ FirstNext /\ UNCHANGED <<kind, allVars>>

(* The fairness of AdderSpec. *)
AddersSpec ==
    /\ AddersInit /\ [][AddersNext]_addersVars
    /\ WF_addersVars(ItemRuns) /\ WF_addersVars(MainRuns)

-----------------------------------------------------------------------------
(* The comment of cdl_wait, "we must wait to counter be zero", holds of     *)
(* every waiter but one that was woken spuriously; and once the counter is  *)
(* down nobody sleeps, however many more signals there are than the counter *)
(* asked for.                                                               *)
FirstOpensInTime ==
    /\ \A w \in FirstWaiter : first_pc[w] = "done" => first_counter <= 0 \/ w \in surprised
    /\ first_counter <= 0 => Sleeping = {}

(* No latch loses a wake-up between the last signal and the broadcast, and  *)
(* nobody passes the first latch early but for a spurious wake-up.          *)
LatchesOpenInTime ==
    /\ kind = "adder" => SleeperWillBeWoken
    /\ kind = "first" => FirstOpensInTime
=============================================================================
