------------------------------ MODULE ParAdder ------------------------------
(***************************************************************************)
(* The parallel adder of src/aula-06-02/tp_adder.c: par_adder cuts the     *)
(* array into NPROCESSORS ranges, submits one work item for each to the    *)
(* thread pool, waits on a count-down latch and adds the partial results.  *)
(* The main thread calls it again and again.                               *)
(*                                                                         *)
(* The contexts and the latch are locals of par_adder.  The item that      *)
(* brings the counter to zero broadcasts after it unlocked, when par_adder *)
(* may have returned.  par_adder is always called from the same frame, so  *)
(* its locals are at the same place each time, and such a late broadcast   *)
(* reaches the latch of the call that is running by then: work item <<n,i>>*)
(* is the one of context i in call n, and all of them share one latch.     *)
(*                                                                         *)
(* The pool is the one module WorkPool promises: a submitted item is       *)
(* executed once, at any later time, concurrently with the others.         *)
(***************************************************************************)
EXTENDS CountDownLatch, Functions

CONSTANTS main,     \* the main thread
          Size,     \* the array sizes the program may have
          Calls     \* a bound on the calls of par_adder

(* The work items: one for each range in each call. *)
Items == (1..Calls) \X (0..initial-1)

ASSUME AdderAssumption ==
    /\ initial > 0
    /\ Size \subseteq Nat
    /\ Calls \in Nat
    /\ Waiter = {main}
    /\ Signaller = Items

NPROCESSORS == initial

VARIABLES
    size,
    contexts,   \* for each range: where it starts and ends, and its sum
    next,       \* the next context to submit
    total,      \* what par_adder returned
    calls       \* the calls of par_adder begun so far

adderVars == <<size, contexts, next, total, calls>>
allVars == <<latchVars, adderVars>>

Ctx == 0..NPROCESSORS-1

Init ==
    /\ size \in Size
    /\ contexts = [i \in Ctx |-> [pstart |-> 0, pend |-> 0, result |-> 0]]
    /\ counter = 0
    /\ pc = [t \in Signaller \cup Waiter |-> "none"]
    /\ next = 0
    /\ total = 0
    /\ calls = 0

-----------------------------------------------------------------------------
(* Mutant: the latch is opened by one signal too few. *)
CallMiscounts ==
    /\ pc[main] \in {"none", "done"}
    /\ calls < Calls
    /\ calls' = calls + 1
    /\ counter' = NPROCESSORS - 1
    /\ next' = 0
    /\ GoAndWake(main, "submit", {})
    /\ UNCHANGED <<size, contexts, total>>

CallParAdder ==
    /\ pc[main] \in {"none", "done"}
    /\ calls < Calls
    /\ calls' = calls + 1
    /\ counter' = NPROCESSORS       \* cdl_init
    /\ next' = 0
    /\ GoAndWake(main, "submit", {})
    /\ UNCHANGED <<size, contexts, total>>

range_size == size \div NPROCESSORS

(* The end of the range that starts at p, never past the end of the array. *)
RangeEnd(p) == IF p + range_size > size THEN size ELSE p + range_size

Submit ==
    /\ pc[main] = "submit"
    /\ next < NPROCESSORS
    /\ contexts' = [contexts EXCEPT ![next] =
          [pstart |-> next * range_size, pend |-> RangeEnd(next * range_size), result |-> 0]]
    /\ pc' = [pc EXCEPT ![<<calls, next>>] = "queued"]
    /\ next' = next + 1
    /\ UNCHANGED <<counter, size, total, calls>>

CallCdlWait ==
    /\ pc[main] = "submit"
    /\ next = NPROCESSORS
    /\ GoAndWake(main, "start", {})
    /\ UNCHANGED <<counter, adderVars>>

(* cdl_wait; when it returns, the loop over the contexts adds the results. *)
WaitAndAdd ==
    /\ cdl_wait(main)
    /\ total' = IF pc'[main] = "done"
                THEN SumFunction([i \in Ctx |-> contexts[i].result])
                ELSE total
    /\ UNCHANGED <<size, contexts, next, calls>>

-----------------------------------------------------------------------------
(* The item's function walks from pstart until it meets pend and stores the *)
(* sum.  Every element is 1 (init_vals), so the sum is the range's length.  *)
worker_func(s) ==
    /\ pc[s] = "queued"
    /\ contexts' = [contexts EXCEPT ![s[2]].result =
                        contexts[s[2]].pend - contexts[s[2]].pstart]
    /\ pc' = [pc EXCEPT ![s] = "start"]
    /\ UNCHANGED <<counter, size, next, total, calls>>

Signals(s) ==
    /\ cdl_signal(s) \/ Broadcasts(s)
    /\ UNCHANGED adderVars

WakesSpuriously == SpuriousWakeup(main) /\ UNCHANGED adderVars

ItemStep == \E s \in Signaller : worker_func(s) \/ Signals(s)

MainStep == CallParAdder \/ Submit \/ CallCdlWait \/ WaitAndAdd

AdderNext == ItemStep \/ MainStep \/ WakesSpuriously

(* The pool runs its items and the main thread runs until it sleeps. *)
AdderSpec == Init /\ [][AdderNext]_allVars /\ WF_allVars(ItemStep) /\ WF_allVars(MainStep)

-----------------------------------------------------------------------------
(* assert(expected == res): par_adder returns the sum of the whole array,   *)
(* whatever the order in which the items run and however late a broadcast   *)
(* of the previous call comes, when the size is a multiple of NPROCESSORS   *)
(* as NVALS is; of another size the last size % NPROCESSORS elements are    *)
(* left out.                                                                *)
SumIsComplete == pc[main] = "done" => total = size - (size % NPROCESSORS)

(* While par_adder is not running no work item is left that could write its *)
(* contexts or count down its latch, both locals of a call that is over;    *)
(* only the broadcast of one item may still be to come.                     *)
NoItemOutlivesTheCall ==
    pc[main] \in {"none", "done"} =>
        /\ counter = 0
        /\ \A s \in Signaller : pc[s] \in {"none", "done", "broadcast"}

(* Every call of par_adder returns: no broadcast is lost. *)
EveryCallReturns == (pc[main] = "submit") ~> (pc[main] = "done")
=============================================================================
