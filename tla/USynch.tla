------------------------------- MODULE USynch -------------------------------
(***************************************************************************)
(* The synchronizers of the UThread library: manual-reset events           *)
(* (event.c), auto-reset events (auto_event.c) and counting semaphores     *)
(* with FIFO waiters (semaphore.c), composed with the scheduler.  A wait   *)
(* block lives on the stack of the thread that blocks, so a thread has at  *)
(* most one: the block of t is t in some list of waiters and, for a        *)
(* semaphore, request[t] units asked for.                                  *)
(*                                                                         *)
(* The program is arbitrary: the running thread makes any call on any      *)
(* object in any order, which covers every program whose number of threads *)
(* fits Thread.  Set, post and create are also callable by the main thread *)
(* outside ut_run, for they never block.                                   *)
(***************************************************************************)
EXTENDS UThread

CONSTANTS Event,        \* event_t objects
          AutoEvent,    \* auto_reset_event_t objects
          Semaphore,    \* semaphore_t objects
          Limit,        \* the limit of every semaphore (sem_init)
          Unit          \* the numbers of units a call may name

ASSUME LimitAssumption == Limit \in Nat \ {0}
ASSUME UnitAssumption == Unit \subseteq Nat \ {0}
ASSUME ObjectAssumption ==
    /\ Event \cap AutoEvent = {}
    /\ (Event \cup AutoEvent) \cap Semaphore = {}

Sync == Event \cup AutoEvent \cup Semaphore

VARIABLES
    signaled,   \* the flag of each event
    units,      \* the units available in each semaphore
    waiters,    \* the wait list of each object, head first
    request     \* the units field of the wait block on a thread's stack

schedVars == vars
syncVars == <<signaled, units, waiters, request>>
allVars == <<number_of_threads, ready_queue, running_thread, main_thread, allocated,
             signaled, units, waiters, request>>

(* Type invariant: a semaphore holds between 0 and Limit units. *)
SyncTypeOK ==
    /\ TypeOK
    /\ signaled \in [Event \cup AutoEvent -> BOOLEAN]
    /\ units \in [Semaphore -> 0..Limit]
    /\ waiters \in [Sync -> Seq(Thread)]
    /\ request \in [Thread -> Unit \cup {0}]

(* event_init clears the flag; auto_event_init and sem_init take the        *)
(* initial flag and units from the program.                                 *)
SyncInit ==
    /\ Init
    /\ signaled \in [Event \cup AutoEvent -> BOOLEAN]
    /\ \A e \in Event : signaled[e] = FALSE
    /\ units \in [Semaphore -> 0..Limit]
    /\ waiters = [s \in Sync |-> <<>>]
    /\ request = [t \in Thread |-> 0]

(* The running thread appends its wait block to s and gives up the processor. *)
Block(s) ==
    /\ waiters' = [waiters EXCEPT ![s] = Append(@, running_thread)]
    /\ ut_deactivate

-----------------------------------------------------------------------------
event_wait(e) ==
    /\ running_thread \in Thread
    /\ signaled[e] = FALSE          \* otherwise it returns at once
    /\ Block(e)
    /\ UNCHANGED <<signaled, units, request>>

(* Mutant: the waiters are activated and stay in the list. *)
EventSetKeepsWaiters(e) ==
    /\ ProgramRuns
    /\ signaled' = [signaled EXCEPT ![e] = TRUE]
    /\ ut_activate(waiters[e])
    /\ UNCHANGED <<number_of_threads, running_thread, main_thread, allocated, units,
                   waiters, request>>

(* Every waiter is activated, in order; the flag stays set for good. *)
event_set(e) ==
    /\ ProgramRuns
    /\ signaled' = [signaled EXCEPT ![e] = TRUE]
    /\ waiters' = [waiters EXCEPT ![e] = <<>>]
    /\ ut_activate(waiters[e])
    /\ UNCHANGED <<number_of_threads, running_thread, main_thread, allocated, units, request>>

auto_event_wait(e) ==
    /\ running_thread \in Thread
    /\ \/ /\ signaled[e] = TRUE
          /\ signaled' = [signaled EXCEPT ![e] = FALSE]
          /\ UNCHANGED <<schedVars, waiters>>
       \/ /\ signaled[e] = FALSE
          /\ Block(e)
          /\ UNCHANGED signaled
    /\ UNCHANGED <<units, request>>

(* Mutant: the first waiter is activated and stays in the list. *)
AutoSetKeepsWaiter(e) ==
    /\ ProgramRuns
    /\ \/ /\ waiters[e] = <<>>
          /\ signaled' = [signaled EXCEPT ![e] = TRUE]
          /\ UNCHANGED ready_queue
       \/ /\ waiters[e] # <<>>
          /\ ut_activate(<<Head(waiters[e])>>)
          /\ UNCHANGED signaled
    /\ UNCHANGED <<number_of_threads, running_thread, main_thread, allocated, units,
                   waiters, request>>

(* The signal goes to the first waiter and is kept only when nobody waits. *)
auto_event_set(e) ==
    /\ ProgramRuns
    /\ \/ /\ waiters[e] = <<>>
          /\ signaled' = [signaled EXCEPT ![e] = TRUE]
          /\ UNCHANGED <<ready_queue, waiters>>
       \/ /\ waiters[e] # <<>>
          /\ waiters' = [waiters EXCEPT ![e] = Tail(@)]
          /\ ut_activate(<<Head(waiters[e])>>)
          /\ UNCHANGED signaled
    /\ UNCHANGED <<number_of_threads, running_thread, main_thread, allocated, units, request>>

-----------------------------------------------------------------------------
(* Mutant: the waiters are not looked at. *)
TakeBarging(s, n) == units[s] >= n

(* The units a wait for n finds at once: none while others wait. *)
CanTake(s, n) == waiters[s] = <<>> /\ units[s] >= n

sem_wait(s, n) ==
    /\ running_thread \in Thread
    /\ \/ /\ CanTake(s, n)
          /\ units' = [units EXCEPT ![s] = @ - n]
          /\ UNCHANGED <<schedVars, waiters, request>>
       \/ /\ ~CanTake(s, n)
          /\ request' = [request EXCEPT ![running_thread] = n]
          /\ Block(s)
          /\ UNCHANGED units
    /\ UNCHANGED signaled

(* The units after n more are posted, before the release loop. *)
Posted(s, n) == IF units[s] + n > Limit THEN Limit ELSE units[s] + n

(* Mutant: the loop is an `if`, at most one waiter is released. *)
ReleasesOne(s, k, left) ==
    LET fits == /\ waiters[s] # <<>>
                /\ left[0] > 0
                /\ request[Head(waiters[s])] <= left[0]
    IN  /\ k = (IF fits THEN 1 ELSE 0)
        /\ fits => left[1] = left[0] - request[Head(waiters[s])]

(* The release loop of sem_post takes the first k waiters of s: left[i] is  *)
(* what remains after i of them, and the loop goes round while something    *)
(* remains and the next request fits.                                       *)
LoopReleases(s, k, left) ==
    LET w == waiters[s]
    IN  /\ \A i \in 1..k : /\ left[i-1] > 0
                           /\ request[w[i]] <= left[i-1]
                           /\ left[i] = left[i-1] - request[w[i]]
        /\ k < Len(w) => left[k] = 0 \/ left[k] < request[w[k+1]]

sem_post(s, n) ==
    /\ ProgramRuns
    /\ \E k \in 0..Len(waiters[s]) : \E left \in [0..k -> 0..Limit] :
          /\ left[0] = Posted(s, n)
          /\ LoopReleases(s, k, left)
          /\ units' = [units EXCEPT ![s] = left[k]]
          /\ waiters' = [waiters EXCEPT ![s] = SubSeq(@, k+1, Len(@))]
          /\ ut_activate(SubSeq(waiters[s], 1, k))
    /\ UNCHANGED <<number_of_threads, running_thread, main_thread, allocated, signaled, request>>

-----------------------------------------------------------------------------
(* Calls of the scheduler that touch no synchronizer.  A program built on   *)
(* the synchronizers never calls ut_deactivate or ut_activate itself.       *)
Scheduler ==
    /\ \/ \E t \in Thread : ut_create(t)
       \/ ut_yield
       \/ ut_exit
       \/ ut_run
       \/ ut_run_returns
    /\ UNCHANGED syncVars

SyncNext ==
    \/ Scheduler
    \/ \E e \in Event : event_wait(e) \/ event_set(e)
    \/ \E e \in AutoEvent : auto_event_wait(e) \/ auto_event_set(e)
    \/ \E s \in Semaphore, n \in Unit : sem_wait(s, n) \/ sem_post(s, n)

SyncSpec == SyncInit /\ [][SyncNext]_allVars

(* Fairness.  Scheduling is cooperative: a thread that never gives up the   *)
(* processor starves the others and nothing in the library prevents it, so  *)
(* liveness is stated for programs whose threads always end up in a call    *)
(* that switches context or in the return of their function, and whose main *)
(* thread calls ut_run again after it returned.                             *)
SyncLiveSpec == SyncSpec /\ WF_allVars(SyncNext /\ running_thread' # running_thread)

-----------------------------------------------------------------------------
(* Every thread that is neither running nor ready is queued on exactly one  *)
(* object, once, and nobody else is queued: no thread sleeps where nobody   *)
(* can find it, is activated twice, or has its wait block (on its own       *)
(* stack) in a list after it resumed or exited.                             *)
Placement ==
    /\ \A s \in Sync : IsInjective(waiters[s])
    /\ \A s, r \in Sync : s # r => Range(waiters[s]) \cap Range(waiters[r]) = {}
    /\ Blocked = UNION { Range(waiters[s]) : s \in Sync }

(* No wake-up is lost: an object that could let its first waiter go has no  *)
(* waiter.                                                                  *)
NobodyWaitsInVain ==
    /\ \A e \in Event \cup AutoEvent : signaled[e] => waiters[e] = <<>>
    /\ \A s \in Semaphore : waiters[s] # <<>> => units[s] < request[Head(waiters[s])]

(* No barging: while a thread waits on a semaphore, units are taken only    *)
(* for the head of the list, and the list is only ever shortened at its     *)
(* front or extended at its end.                                            *)
NoBarging ==
    [][\A s \in Semaphore :
          waiters[s] # <<>> =>
            /\ \E k \in 0..Len(waiters[s]), t \in {<<>>, <<running_thread>>} :
                  waiters'[s] = SubSeq(waiters[s], k+1, Len(waiters[s])) \o t
            /\ units'[s] < units[s] => waiters'[s] # waiters[s]
            /\ Head(waiters[s]) \in Range(waiters'[s]) => units'[s] >= units[s]]_allVars

(* The synchronizers follow the scheduler's rule: seen without them, a      *)
(* program that uses them is a program of the bare scheduler that activates *)
(* only blocked threads.                                                    *)
ImplementsUThread == Spec

(* A thread that is ready is eventually run, however many threads yield,    *)
(* are created or are woken in the meantime.                                *)
ReadyRuns == \A t \in Thread : (t \in Range(ready_queue)) ~> (running_thread = t)
=============================================================================
