---------------------------- MODULE EarlierPools ----------------------------
(***************************************************************************)
(* The two thread pools that came before ThreadPool; neither has an end.   *)
(* "monitor" is src/aula-05-27/tp/tpool.c over the monitor of queue.c,     *)
(* which signals with the lock held; "signal" is src/aula-05-28/tpool.c,   *)
(* which has the queue inside and signals after it unlocked.  A critical   *)
(* section is one step, as in ThreadPool.                                  *)
(***************************************************************************)
EXTENDS Integers, Sequences, FiniteSets, Functions

CONSTANTS Worker, Client, Item, NULL

VARIABLES work_queue,   \* the list of queue.c, or work_queue of the pool
          pc, wi, submitted, accepted, executed     \* as in ThreadPool

vars == <<work_queue, pc, wi, submitted, accepted, executed>>

(* tp_init, before and after it had pool_size. *)
Init ==
    /\ work_queue = <<>>
    /\ pc = [t \in Worker \cup Client |-> IF t \in Worker THEN "get" ELSE "out"]
    /\ wi = [w \in Worker |-> NULL]
    /\ submitted = {}
    /\ accepted = {}
    /\ executed = [i \in Item |-> 0]

HasItems == {w \in Worker : pc[w] = "wait"}

(* pc after t moves to l and the workers of woken leave their wait. *)
GoAndWake(t, l, woken) ==
    pc' = [u \in Worker \cup Client |->
             IF u = t THEN l ELSE IF u \in woken THEN "get" ELSE pc[u]]

(* A signal wakes one waiting worker, if there is one. *)
SignalOne == IF HasItems = {} THEN {{}} ELSE {{w} : w \in HasItems}

SpuriousWakeup(w) ==
    /\ w \in HasItems
    /\ GoAndWake(w, "get", {})
    /\ UNCHANGED <<work_queue, wi, submitted, accepted, executed>>

(* Mutant: the queue is not tested again after the wait. *)
QueueGetTrusts(w) ==
    /\ pc[w] = "get"
    /\ \/ /\ work_queue = <<>>
          /\ GoAndWake(w, "wait", {})
          /\ UNCHANGED <<work_queue, wi>>
       \/ /\ work_queue # <<>>
          /\ wi' = [wi EXCEPT ![w] = Head(work_queue)]
          /\ UNCHANGED work_queue
          /\ GoAndWake(w, "run", {})
    /\ UNCHANGED <<submitted, accepted, executed>>

(* queue_get: lock, wait while the list is empty, remove the first.         *)
queue_get(w) ==
    /\ pc[w] = "get"
    /\ \/ /\ work_queue = <<>>
          /\ GoAndWake(w, "wait", {})
          /\ UNCHANGED <<work_queue, wi>>
       \/ /\ work_queue # <<>>
          /\ wi' = [wi EXCEPT ![w] = Head(work_queue)]
          /\ work_queue' = Tail(work_queue)
          /\ GoAndWake(w, "run", {})
    /\ UNCHANGED <<submitted, accepted, executed>>

(* The rest of a round of oper_func: call the function, free the item.      *)
oper_func(w) ==
    /\ pc[w] = "run"
    /\ executed' = [executed EXCEPT ![wi[w]] = @ + 1]
    /\ wi' = [wi EXCEPT ![w] = NULL]
    /\ GoAndWake(w, "get", {})
    /\ UNCHANGED <<work_queue, submitted, accepted>>

Submits(t, i) ==
    /\ pc[t] = (IF t \in Worker THEN "run" ELSE "out")
    /\ i \notin submitted
    /\ submitted' = submitted \cup {i}
    /\ accepted' = accepted \cup {i}
    /\ work_queue' = Append(work_queue, i)
    /\ UNCHANGED <<wi, executed>>

(* tp_submit of "monitor": queue_put inserts and signals with the lock.     *)
queue_put(t, i) ==
    /\ Submits(t, i)
    /\ \E woken \in SignalOne : GoAndWake(t, pc[t], woken)

-----------------------------------------------------------------------------
(* worker_func of "signal": the same get, with the list in the pool.        *)
TakeWork(w) == queue_get(w)
RunItem(w) == oper_func(w)

tp_submit(t, i) == Submits(t, i) /\ GoAndWake(t, "signal", {})

(* Mutant: a submission signals only if it finds its item alone.            *)
SubmitSignalsIfAlone(t) ==
    /\ pc[t] = "signal"
    /\ \E woken \in IF Len(work_queue) = 1 THEN SignalOne ELSE {{}} :
          GoAndWake(t, IF t \in Worker THEN "run" ELSE "out", woken)
    /\ UNCHANGED <<work_queue, wi, submitted, accepted, executed>>

SubmitSignals(t) ==
    /\ pc[t] = "signal"
    /\ \E woken \in SignalOne :
          GoAndWake(t, IF t \in Worker THEN "run" ELSE "out", woken)
    /\ UNCHANGED <<work_queue, wi, submitted, accepted, executed>>

-----------------------------------------------------------------------------
MonitorStep(w) == queue_get(w) \/ oper_func(w)
MonitorNext ==
    \/ \E w \in Worker : MonitorStep(w) \/ SpuriousWakeup(w)
    \/ \E t \in Worker \cup Client, i \in Item : queue_put(t, i)

SignalStep(t) ==
    \/ SubmitSignals(t)
    \/ t \in Worker /\ (TakeWork(t) \/ RunItem(t))
SignalNext ==
    \/ \E t \in Worker \cup Client : SignalStep(t)
    \/ \E w \in Worker : SpuriousWakeup(w)
    \/ \E t \in Worker \cup Client, i \in Item : tp_submit(t, i)
=============================================================================
