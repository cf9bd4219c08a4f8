------------------------------ MODULE UThread ------------------------------
(***************************************************************************)
(* The scheduler of the UThread library (src/uthreads/uthread/uthread.c):  *)
(* user threads that share one operating-system thread and give up the     *)
(* processor only inside a library call.  Whatever a thread does between   *)
(* two context switches is therefore one atomic step, and every action     *)
(* below is one library call up to and including its context switch.       *)
(*                                                                         *)
(* What the running thread calls next is the choice of the program: Next   *)
(* lets it make any call.  The one rule of the library it must follow is   *)
(* that only a thread that is neither running nor ready is activated; the  *)
(* synchronizers of module USynch are shown to follow it.                  *)
(***************************************************************************)
EXTENDS Integers, Sequences, FiniteSets, Functions

CONSTANTS Thread,   \* descriptors (uthread_t) malloc may hand out; a freed one can be handed out again
          Main,     \* the proxy of the operating-system thread: the local of ut_run
          NULL

ASSUME ThreadAssumption == Main \notin Thread /\ NULL \notin Thread /\ Main # NULL

VARIABLES
    number_of_threads,  \* threads created and not yet exited
    ready_queue,        \* the list of schedulable threads, head first
    running_thread,     \* the thread that has the processor, NULL outside ut_run
    main_thread,        \* Main while ut_run is active, NULL otherwise
    allocated           \* descriptors (and stacks) that are allocated and not freed

vars == <<number_of_threads, ready_queue, running_thread, main_thread, allocated>>

(* Type invariant of the scheduler's variables. *)
TypeOK ==
    /\ number_of_threads \in Nat
    /\ ready_queue \in Seq(Thread)
    /\ running_thread \in Thread \cup {Main, NULL}
    /\ main_thread \in {Main, NULL}
    /\ allocated \in SUBSET Thread

Init ==
    /\ number_of_threads = 0
    /\ ready_queue = <<>>           \* ut_init
    /\ running_thread = NULL
    /\ main_thread = NULL
    /\ allocated = {}

(* Code of the program runs: of a user thread, or of the main thread before *)
(* and after ut_run.                                                        *)
ProgramRuns == running_thread \in Thread \cup {NULL}

(* Threads that are blocked: some other thread has to activate them.        *)
Blocked == allocated \ (Range(ready_queue) \cup {running_thread})

-----------------------------------------------------------------------------
(* Who runs next when the ready queue is q: its head, or the main thread.   *)
extract_next_thread(q) == IF q = <<>> THEN main_thread ELSE Head(q)

AfterExtract(q) == IF q = <<>> THEN <<>> ELSE Tail(q)

(* The tail of every blocking call: q is the ready queue the call leaves.   *)
schedule(q) ==
    /\ running_thread' = extract_next_thread(q)
    /\ ready_queue' = AfterExtract(q)

(* Mutant: the threads go to the front of the queue. *)
ActivateFirst(s) == ready_queue' = s \o ready_queue

(* A sequence of calls of ut_activate with no context switch in between:    *)
(* every thread of s goes to the end of the ready queue, in order.          *)
ut_activate(s) == ready_queue' = ready_queue \o s

ut_deactivate ==
    /\ running_thread \in Thread
    /\ schedule(ready_queue)
    /\ UNCHANGED <<number_of_threads, main_thread, allocated>>

ut_yield ==
    /\ running_thread \in Thread
    /\ ready_queue # <<>>           \* otherwise it returns at once
    /\ schedule(Append(ready_queue, running_thread))
    /\ UNCHANGED <<number_of_threads, main_thread, allocated>>

ut_create(t) ==
    /\ ProgramRuns
    /\ t \notin allocated
    /\ allocated' = allocated \cup {t}
    /\ number_of_threads' = number_of_threads + 1
    /\ ut_activate(<<t>>)
    /\ UNCHANGED <<running_thread, main_thread>>

(* ut_exit, or the return of the thread's function into internal_start.     *)
(* internal_exit frees the descriptor and the stack after the switch.       *)
ut_exit ==
    /\ running_thread \in Thread
    /\ number_of_threads' = number_of_threads - 1
    /\ schedule(ready_queue)
    /\ allocated' = allocated \ {running_thread}
    /\ UNCHANGED main_thread

(* ut_run up to its switch to the first thread.  With an empty ready queue  *)
(* it returns and changes nothing.                                          *)
ut_run ==
    /\ running_thread = NULL
    /\ ready_queue # <<>>
    /\ main_thread' = Main
    /\ schedule(ready_queue)
    /\ UNCHANGED <<number_of_threads, allocated>>

(* ut_run after the switch back.  When one of its two assertions fails the  *)
(* process aborts: no step follows.                                         *)
ut_run_returns ==
    /\ running_thread = Main
    /\ ready_queue = <<>>
    /\ number_of_threads = 0
    /\ running_thread' = NULL
    /\ main_thread' = NULL
    /\ UNCHANGED <<number_of_threads, ready_queue, allocated>>

(* The calls of ut_activate a synchronizer makes on behalf of the running   *)
(* program: blocked threads only, each at most once.                        *)
Wake(s) ==
    /\ ProgramRuns
    /\ s # <<>>
    /\ Range(s) \subseteq Blocked
    /\ IsInjective(s)
    /\ ut_activate(s)
    /\ UNCHANGED <<number_of_threads, running_thread, main_thread, allocated>>

(* Every way of ordering some of the threads of S.                          *)
Orders(S) == UNION { [1..n -> S] : n \in 1..Cardinality(S) }

Next ==
    \/ \E t \in Thread : ut_create(t)
    \/ \E s \in Orders(Blocked) : Wake(s)
    \/ ut_yield
    \/ ut_deactivate
    \/ ut_exit
    \/ ut_run
    \/ ut_run_returns

Spec == Init /\ [][Next]_vars

-----------------------------------------------------------------------------
(* The ready queue never holds a freed thread, a thread twice, or the       *)
(* running thread: one intrusive link per descriptor (the entry field)      *)
(* cannot be in two places, and extract_next_thread must not switch to a    *)
(* stack that was freed.                                                    *)
ReadyQueueSound ==
    /\ IsInjective(ready_queue)
    /\ Range(ready_queue) \subseteq allocated
    /\ running_thread \notin Range(ready_queue)
    /\ running_thread \in Thread => running_thread \in allocated

(* number_of_threads, which ut_run asserts to be zero on return, counts     *)
(* exactly the threads whose descriptor is allocated: the unsigned counter  *)
(* never wraps below zero in ut_exit.                                       *)
CountIsAllocated ==
    /\ IsFiniteSet(allocated)
    /\ number_of_threads = Cardinality(allocated)

(* While user threads run there is a main thread to fall back to when the   *)
(* ready queue empties, and outside ut_run there is none: extract_next_     *)
(* thread never hands context_switch a null pointer, and the assertion at   *)
(* the top of ut_run holds for every legal call.                            *)
MainIsThere == main_thread = (IF running_thread = NULL THEN NULL ELSE Main)

(* The assertion at the end of ut_run and the comment above it: control     *)
(* comes back to ut_run only when all user threads have exited.  It does    *)
(* not hold: when the last ready thread blocks, schedule switches to the    *)
(* main thread with the blocked threads still there.                        *)
RunReturnsWhenAllExited == running_thread = Main => number_of_threads = 0

(* t is somewhere in front of u in q. *)
Before(q, t, u) == \E i, j \in DOMAIN q : i < j /\ q[i] = t /\ q[j] = u

(* The queue is served first come, first served: no step moves a thread in  *)
(* front of one that was ready before it, nor runs it earlier.              *)
NoOvertaking ==
    [][\A t, u \in Thread :
          /\ Before(ready_queue, t, u) =>
                ~Before(ready_queue', u, t) /\ running_thread' # u
          /\ (t \in Range(ready_queue) /\ u \notin Range(ready_queue)) =>
                ~Before(ready_queue', u, t)]_vars

=============================================================================
