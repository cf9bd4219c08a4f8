------------------------------- MODULE UJoin -------------------------------
(***************************************************************************)
(* User threads that can be joined: src/aula-05-14/uthreads1/uthread.  Its *)
(* uthread.c has two implementations, built with and without               *)
(* JOIN_WITH_EVENT: joiners wait on an event in the descriptor, or are     *)
(* linked in the descriptor themselves.                                    *)
(*                                                                         *)
(* A handle is the address of a descriptor, and malloc may give an address *)
(* again after cleanup_thread has freed it: a thread that kept a handle    *)
(* too long joins whoever is at that address now.                          *)
(***************************************************************************)
EXTENDS UThread, SequencesExt

CONSTANT Build      \* subset of {"event", "list"}

VARIABLES build,
          alive_queue,  \* the list of existing threads
          join_waiters, \* who waits in a descriptor: terminated.waiters, or join_waiters
          signaled      \* terminated.signaled of each descriptor

joinVars == <<vars, build, alive_queue, join_waiters, signaled>>

ut_init == ready_queue = <<>> /\ alive_queue = <<>>

(* The scheduler's variables before the first call, and ut_init. *)
JoinInit ==
    /\ Init
    /\ ut_init
    /\ build \in Build
    /\ join_waiters = [t \in Thread |-> <<>>]
    /\ signaled = [t \in Thread |-> FALSE]

Joining == UNION {Range(join_waiters[t]) : t \in Thread}

event_init(t, initial_state) ==
    /\ join_waiters' = [join_waiters EXCEPT ![t] = <<>>]
    /\ signaled' = [signaled EXCEPT ![t] = initial_state]

(* Without events the fields are other ones; only the list is initialised.  *)
join_create(t) ==
    /\ ut_create(t)
    /\ alive_queue' = Append(alive_queue, t)
    /\ IF build = "event"
       THEN event_init(t, FALSE)
       ELSE /\ join_waiters' = [join_waiters EXCEPT ![t] = <<>>]
            /\ UNCHANGED signaled
    /\ UNCHANGED build

(* The end of a wait by running_thread: it is linked at t, and deactivated. *)
WaitAt(t) ==
    /\ join_waiters' = [join_waiters EXCEPT ![t] = Append(@, running_thread)]
    /\ ut_deactivate

event_wait(t) ==
    IF signaled[t] THEN UNCHANGED <<vars, join_waiters>> ELSE WaitAt(t)

ut_alive(t) == Contains(alive_queue, t)

(* A thread may join itself: it then never runs again. *)
ut_join(t) ==
    /\ running_thread \in Thread
    /\ ut_alive(t)              \* otherwise it returns at once
    /\ IF build = "event" THEN event_wait(t) ELSE WaitAt(t)
    /\ UNCHANGED <<build, alive_queue, signaled>>

(* Mutant: the thread stays in alive_queue. *)
ExitStaysAlive ==
    LET t == running_thread IN
    /\ t \in Thread
    /\ number_of_threads' = number_of_threads - 1
    /\ join_waiters' = [join_waiters EXCEPT ![t] = <<>>]
    /\ signaled' = [signaled EXCEPT ![t] = FALSE]
    /\ schedule(ready_queue \o join_waiters[t])
    /\ allocated' = allocated \ {t}
    /\ UNCHANGED <<main_thread, build, alive_queue>>

(* The node of t is unlinked from alive_queue. *)
remove_alive(t) ==
    \E i \in DOMAIN alive_queue :
        alive_queue[i] = t /\ alive_queue' = RemoveAt(alive_queue, i)

(* ut_exit leaves alive_queue, makes all the joiners ready, in order, and   *)
(* switches; internal_exit then frees the descriptor.                       *)
join_exit ==
    LET t == running_thread IN
    /\ t \in Thread
    /\ number_of_threads' = number_of_threads - 1
    /\ remove_alive(t)
    /\ join_waiters' = [join_waiters EXCEPT ![t] = <<>>]
    /\ signaled' = [signaled EXCEPT ![t] = (build = "event") \/ @]
    /\ schedule(ready_queue \o join_waiters[t])
    /\ allocated' = allocated \ {t}
    /\ UNCHANGED <<main_thread, build>>

Unjoined == UNCHANGED <<build, alive_queue, join_waiters, signaled>>

(* The program activates threads that deactivated themselves, not joiners.  *)
join_activate(t) ==
    /\ t \notin Joining
    /\ Wake(<<t>>)
    /\ Unjoined

join_yield == ut_yield /\ Unjoined
join_deactivate == ut_deactivate /\ Unjoined
join_run == ut_run /\ Unjoined
join_run_returns == ut_run_returns /\ Unjoined

JoinNext ==
    \/ \E t \in Thread : join_create(t) \/ ut_join(t) \/ join_activate(t)
    \/ join_exit
    \/ join_yield
    \/ join_deactivate
    \/ join_run
    \/ join_run_returns

-----------------------------------------------------------------------------
(* A thread that joins waits in one descriptor only, which is allocated, so *)
(* that somebody is left to wake it and nothing freed is linked; and        *)
(* alive_queue, which decides whether to wait at all, lists the allocated   *)
(* descriptors, so that a handle that was freed is never looked into.       *)
JoinersWaitForTheLiving ==
    /\ \A t \in Thread : join_waiters[t] # <<>> => t \in allocated
    /\ \A t, u \in Thread :
          t # u => Range(join_waiters[t]) \cap Range(join_waiters[u]) = {}
    /\ \A t \in Thread : IsInjective(join_waiters[t])
    /\ Joining \subseteq Blocked
    /\ IsInjective(alive_queue) /\ Range(alive_queue) = allocated

(* When the last ready thread stops and the main thread gets control, with  *)
(* threads left that all wait in ut_join, some of them wait for each other  *)
(* in a circle, or for themselves: joining alone leaves nobody behind       *)
(* otherwise.                                                               *)
OnlyCyclesBlock ==
    (running_thread = Main /\ Joining # {} /\ Blocked = Joining) =>
        \E S \in SUBSET Joining \ {{}} :
            \A u \in S : \E t \in S : u \in Range(join_waiters[t])
=============================================================================
