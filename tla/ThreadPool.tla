----------------------------- MODULE ThreadPool -----------------------------
(***************************************************************************)
(* The thread pool with orderly shutdown of src/aula-06-02/tpool.c (the    *)
(* echo server of aula-06-09 uses the same code).  Every field of the pool *)
(* is read and written with pool->mutex held, so a critical section is one *)
(* step: it ends where the code unlocks or waits on a condition variable,  *)
(* and a thread that is woken starts a new one by testing its condition    *)
(* again.  What happens outside the mutex (the signal of tp_submit, the    *)
(* call of the item's function, the destruction of the pool) is a step of  *)
(* its own.  Any wait on a condition variable may return spuriously.       *)
(*                                                                         *)
(* Clients are the threads that use the pool; they call tp_submit and      *)
(* tp_shutdown in any order, start no call on a destroyed pool, and submit *)
(* each item at most once (Item bounds the number of submissions).  The    *)
(* functions of the items may submit further items.                        *)
(***************************************************************************)
EXTENDS Integers, Sequences, FiniteSets, Functions

CONSTANTS Worker, Client,
          Item,
          Pill,     \* the work item whose func is NULL
          NULL

VARIABLES
    work_queue,         \* the list of work items, head first
    remaining_threads,
    in_shutdown,
    shutdown_done,
    pc,                 \* where each thread is
    wi,                 \* the work item a worker has removed from the queue
    destroyed,          \* mutex and condition variables are destroyed
    submitted,          \* items passed to tp_submit so far
    accepted,           \* history: the items tp_submit inserted
    executed            \* history: how often each item's function was called

vars == <<work_queue, remaining_threads, in_shutdown, shutdown_done, pc, wi,
          destroyed, submitted, accepted, executed>>

(* pc of a worker:  get: about to lock, or woken and about to test the      *)
(* queue;  wait: in has_work;  run: in the item's function;  signal: in     *)
(* tp_submit after the unlock;  pill: took a pill;  end.                    *)
(* pc of a client:  out: outside the pool;  signal;  wait: in workers_      *)
(* terminated;  check: woken from there;  destroy: in tp_shutdown after the *)
(* unlock.                                                                  *)
Init ==
    /\ work_queue = <<>>
    /\ remaining_threads = Cardinality(Worker)
    /\ in_shutdown = FALSE
    /\ shutdown_done = FALSE
    /\ pc = [t \in Worker \cup Client |-> IF t \in Worker THEN "get" ELSE "out"]
    /\ wi = [w \in Worker |-> NULL]
    /\ destroyed = FALSE
    /\ submitted = {}
    /\ accepted = {}
    /\ executed = [i \in Item |-> 0]

-----------------------------------------------------------------------------
(* The condition variables: has_work is waited on by workers, workers_      *)
(* terminated by clients.                                                   *)
HasWork == {w \in Worker : pc[w] = "wait"}
WorkersTerminated == {c \in Client : pc[c] = "wait"}

(* pc after t moves to l and the threads of woken leave their wait. *)
GoAndWake(t, l, woken) ==
    pc' = [u \in Worker \cup Client |->
             IF u = t THEN l
             ELSE IF u \in woken THEN (IF u \in Worker THEN "get" ELSE "check")
             ELSE pc[u]]

Go(t, l) == GoAndWake(t, l, {})

Running(t) == IF t \in Worker THEN pc[t] = "run" ELSE pc[t] = "out" /\ ~destroyed

(* A wait returns without a signal. *)
SpuriousWakeup(t) ==
    /\ t \in HasWork \cup WorkersTerminated
    /\ GoAndWake(NULL, "out", {t})
    /\ UNCHANGED <<work_queue, remaining_threads, in_shutdown, shutdown_done, wi,
                   destroyed, submitted, accepted, executed>>

-----------------------------------------------------------------------------
(* worker_func: lock, wait while the queue is empty, remove the first item. *)
TakeWork(w) ==
    /\ pc[w] = "get"
    /\ \/ /\ work_queue = <<>>
          /\ Go(w, "wait")
          /\ UNCHANGED <<work_queue, wi>>
       \/ /\ work_queue # <<>>
          /\ wi' = [wi EXCEPT ![w] = Head(work_queue)]
          /\ work_queue' = Tail(work_queue)
          /\ Go(w, IF Head(work_queue) = Pill THEN "pill" ELSE "run")
    /\ UNCHANGED <<remaining_threads, in_shutdown, shutdown_done, destroyed,
                   submitted, accepted, executed>>

(* The item's function returns and the item is freed. *)
RunItem(w) ==
    /\ pc[w] = "run"
    /\ executed' = [executed EXCEPT ![wi[w]] = @ + 1]
    /\ wi' = [wi EXCEPT ![w] = NULL]
    /\ Go(w, "get")
    /\ UNCHANGED <<work_queue, remaining_threads, in_shutdown, shutdown_done,
                   destroyed, submitted, accepted>>

(* Mutant: the last worker wakes nobody. *)
TerminateSilently(w) ==
    /\ pc[w] = "pill"
    /\ wi' = [wi EXCEPT ![w] = NULL]
    /\ remaining_threads' = remaining_threads - 1
    /\ shutdown_done' = (remaining_threads' = 0)
    /\ Go(w, "end")
    /\ UNCHANGED <<work_queue, in_shutdown, destroyed, submitted, accepted, executed>>

(* A worker that took a pill terminates; the last one reports it. *)
Terminate(w) ==
    /\ pc[w] = "pill"
    /\ wi' = [wi EXCEPT ![w] = NULL]
    /\ remaining_threads' = remaining_threads - 1
    /\ \/ /\ remaining_threads' = 0
          /\ shutdown_done' = TRUE
          /\ GoAndWake(w, "end", WorkersTerminated)
       \/ /\ remaining_threads' # 0
          /\ Go(w, "end")
          /\ UNCHANGED shutdown_done
    /\ UNCHANGED <<work_queue, in_shutdown, destroyed, submitted, accepted, executed>>

-----------------------------------------------------------------------------
(* tp_submit up to the unlock, called by a client or by a running item. *)
tp_submit(t, i) ==
    /\ Running(t)
    /\ i \notin submitted
    /\ submitted' = submitted \cup {i}
    /\ \/ /\ in_shutdown        \* the item is dropped
          /\ UNCHANGED <<work_queue, pc, accepted>>
       \/ /\ ~in_shutdown
          /\ work_queue' = Append(work_queue, i)
          /\ accepted' = accepted \cup {i}
          /\ Go(t, "signal")
    /\ UNCHANGED <<remaining_threads, in_shutdown, shutdown_done, wi, destroyed, executed>>

(* The signal after the unlock wakes one waiting worker, if there is one. *)
SubmitSignals(t) ==
    /\ pc[t] = "signal"
    /\ \E woken \in IF HasWork = {} THEN {{}} ELSE {{w} : w \in HasWork} :
          GoAndWake(t, IF t \in Worker THEN "run" ELSE "out", woken)
    /\ UNCHANGED <<work_queue, remaining_threads, in_shutdown, shutdown_done, wi,
                   destroyed, submitted, accepted, executed>>

(* Mutant: one pill too few. *)
PillsMissOne == [n \in 1..Cardinality(Worker) - 1 |-> Pill]

Pills == [n \in 1..Cardinality(Worker) |-> Pill]

(* Mutant: the pills go to the front of the queue. *)
ShutdownPillsFirst(c) ==
    /\ pc[c] = "out" /\ ~destroyed
    /\ ~in_shutdown
    /\ in_shutdown' = TRUE
    /\ work_queue' = Pills \o work_queue
    /\ GoAndWake(c, "wait", HasWork)
    /\ UNCHANGED <<remaining_threads, shutdown_done, wi, destroyed, submitted,
                   accepted, executed>>

(* tp_shutdown up to its wait.  Only the first caller goes on; the others   *)
(* return at once.                                                          *)
tp_shutdown(c) ==
    /\ pc[c] = "out" /\ ~destroyed
    /\ ~in_shutdown
    /\ in_shutdown' = TRUE
    /\ work_queue' = work_queue \o Pills
    /\ GoAndWake(c, IF shutdown_done THEN "destroy" ELSE "wait", HasWork)
    /\ UNCHANGED <<remaining_threads, shutdown_done, wi, destroyed, submitted,
                   accepted, executed>>

(* Mutant: the condition is not tested again after the wait. *)
ShutdownTrusts(c) ==
    /\ pc[c] = "check"
    /\ Go(c, "destroy")
    /\ UNCHANGED <<work_queue, remaining_threads, in_shutdown, shutdown_done, wi,
                   destroyed, submitted, accepted, executed>>

(* tp_shutdown, woken: wait again while shutdown_done is false. *)
ShutdownTests(c) ==
    /\ pc[c] = "check"
    /\ Go(c, IF shutdown_done THEN "destroy" ELSE "wait")
    /\ UNCHANGED <<work_queue, remaining_threads, in_shutdown, shutdown_done, wi,
                   destroyed, submitted, accepted, executed>>

ShutdownDestroys(c) ==
    /\ pc[c] = "destroy"
    /\ destroyed' = TRUE
    /\ Go(c, "out")
    /\ UNCHANGED <<work_queue, remaining_threads, in_shutdown, shutdown_done, wi,
                   submitted, accepted, executed>>

-----------------------------------------------------------------------------
WorkerStep(w) == TakeWork(w) \/ RunItem(w) \/ Terminate(w) \/ SubmitSignals(w)

ShutdownStep(c) == ShutdownTests(c) \/ ShutdownDestroys(c) \/ SubmitSignals(c)

Next ==
    \/ \E w \in Worker : WorkerStep(w)
    \/ \E c \in Client : ShutdownStep(c)
    \/ \E c \in Client : tp_shutdown(c)
    \/ \E t \in Worker \cup Client, i \in Item : tp_submit(t, i)
    \/ \E t \in Worker \cup Client : SpuriousWakeup(t)

-----------------------------------------------------------------------------
Queued(i) == {n \in DOMAIN work_queue : work_queue[n] = i}
Holding(i) == {w \in Worker : wi[w] = i}

(* Every accepted item is in exactly one place: once in the queue, in the   *)
(* hands of one worker, or executed once; a dropped item is nowhere.        *)
EachItemInOnePlace ==
    \A i \in Item :
        Cardinality(Queued(i)) + Cardinality(Holding(i)) + executed[i]
            = IF i \in accepted THEN 1 ELSE 0

(* Once shutdown has begun there is one pill for every worker: in the queue,*)
(* in its hands, or swallowed; remaining_threads counts the first two, so   *)
(* shutdown_done means that no worker will look at the pool again.          *)
OnePillPerWorker ==
    /\ in_shutdown =>
         remaining_threads = Cardinality(Queued(Pill)) + Cardinality(Holding(Pill))
    /\ ~in_shutdown => Queued(Pill) = {} /\ Holding(Pill) = {}
    /\ remaining_threads = Cardinality({w \in Worker : pc[w] # "end"})
    /\ shutdown_done <=> remaining_threads = 0

(* Once the mutex and the condition variables are destroyed nobody is about *)
(* to lock or to wait: not the workers, which are detached and never joined,*)
(* nor a client in tp_shutdown.  A client that was preempted between the    *)
(* unlock and the signal of tp_submit is the one exception: it signals a    *)
(* destroyed condition variable, unless the thread that shuts down is the   *)
(* only one that submits, as in tp_adder.c.                                 *)
NobodyLocksADestroyedPool ==
    destroyed =>
        /\ \A w \in Worker : pc[w] = "end"
        /\ \A c \in Client :
              pc[c] \in {"out"} \cup (IF Client = {c} THEN {} ELSE {"signal"})
=============================================================================
