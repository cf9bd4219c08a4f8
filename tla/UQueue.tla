------------------------------- MODULE UQueue -------------------------------
(***************************************************************************)
(* The bounded queue of src/aula-05-19/uthreads/tests/queue_test.c, built  *)
(* on two semaphores of the UThread library, and the program around it:    *)
(* main creates the threads and calls ut_run, each thread makes its calls  *)
(* of queue_put, queue_get and ut_yield and then exits.                    *)
(*                                                                         *)
(* A queue operation gives up the processor in its sem_wait only, so it is *)
(* two steps: the wait, and the rest, which runs when the thread has the   *)
(* processor (again).                                                      *)
(***************************************************************************)
EXTENDS USynch

CONSTANTS elem_avaiable, space_avaiable,
          Program       \* the calls of each thread: a sequence of "put", "get", "yield"

VARIABLES head,     \* the list of the queue, oldest node first
          step,     \* the next call of each thread, 0 before it is created
          waited,   \* the thread is past the sem_wait of its call, or blocked in it
          taken     \* history: messages removed, in order

queueVars == <<head, step, waited, taken>>

(* The message of each call of queue_put: who calls it, and which of its calls it is. *)
Messages == UNION {{t} \X DOMAIN Program[t] : t \in Thread}

(* Mutant: both semaphores start with all the units. *)
QueueInitAllUnits ==
    /\ SyncInit
    /\ units = [s \in Semaphore |-> Limit]
    /\ head = <<>>
    /\ step = [t \in Thread |-> 0]
    /\ waited = [t \in Thread |-> FALSE]
    /\ taken = <<>>

(* queue_init: no element, Limit places. *)
QueueInit ==
    /\ SyncInit
    /\ units = [s \in Semaphore |-> IF s = elem_avaiable THEN 0 ELSE Limit]
    /\ head = <<>>
    /\ step = [t \in Thread |-> 0]
    /\ waited = [t \in Thread |-> FALSE]
    /\ taken = <<>>

(* Thread t has the processor and its next call is c. *)
Calls(t, c) ==
    /\ running_thread = t
    /\ step[t] \in DOMAIN Program[t]
    /\ Program[t][step[t]] = c

Advance(t) == step' = [step EXCEPT ![t] = @ + 1]

-----------------------------------------------------------------------------
WaitFor(t, c, s) ==
    /\ Calls(t, c) /\ ~waited[t]
    /\ sem_wait(s, 1)
    /\ waited' = [waited EXCEPT ![t] = TRUE]
    /\ UNCHANGED <<head, step, taken>>

PutWaits(t) == WaitFor(t, "put", space_avaiable)

(* Mutant: the message goes to the front of the list. *)
PutInsertsFirst(t) ==
    /\ Calls(t, "put") /\ waited[t]
    /\ head' = <<<<t, step[t]>>>> \o head
    /\ sem_post(elem_avaiable, 1)
    /\ waited' = [waited EXCEPT ![t] = FALSE]
    /\ Advance(t)
    /\ UNCHANGED taken

PutInserts(t) ==
    /\ Calls(t, "put") /\ waited[t]
    /\ head' = Append(head, <<t, step[t]>>)
    /\ sem_post(elem_avaiable, 1)
    /\ waited' = [waited EXCEPT ![t] = FALSE]
    /\ Advance(t)
    /\ UNCHANGED taken

GetWaits(t) == WaitFor(t, "get", elem_avaiable)

(* Mutant: the place is not given back. *)
GetKeepsPlace(t) ==
    /\ Calls(t, "get") /\ waited[t]
    /\ head # <<>>
    /\ taken' = Append(taken, Head(head))
    /\ head' = Tail(head)
    /\ waited' = [waited EXCEPT ![t] = FALSE]
    /\ Advance(t)
    /\ UNCHANGED allVars

(* On an empty list the code would take the list's sentinel for a node; the *)
(* model would stop there and ProgramEnds fail.                             *)
GetRemoves(t) ==
    /\ Calls(t, "get") /\ waited[t]
    /\ head # <<>>
    /\ taken' = Append(taken, Head(head))
    /\ head' = Tail(head)
    /\ sem_post(space_avaiable, 1)
    /\ waited' = [waited EXCEPT ![t] = FALSE]
    /\ Advance(t)

Yields(t) ==
    /\ Calls(t, "yield")
    /\ \/ ut_yield
       \/ ready_queue = <<>> /\ UNCHANGED vars
    /\ Advance(t)
    /\ UNCHANGED <<syncVars, head, waited, taken>>

Exits(t) ==
    /\ running_thread = t
    /\ step[t] \notin DOMAIN Program[t]
    /\ ut_exit
    /\ UNCHANGED <<syncVars, queueVars>>

MainCreates(t) ==
    /\ running_thread = NULL
    /\ step[t] = 0
    /\ ut_create(t)
    /\ step' = [step EXCEPT ![t] = 1]
    /\ UNCHANGED <<syncVars, head, waited, taken>>

MainRuns ==
    /\ \A t \in Thread : step[t] # 0
    /\ ut_run
    /\ UNCHANGED <<syncVars, queueVars>>

RunReturns ==
    /\ ut_run_returns
    /\ UNCHANGED <<syncVars, queueVars>>

ThreadStep(t) ==
    PutWaits(t) \/ PutInserts(t) \/ GetWaits(t) \/ GetRemoves(t) \/ Yields(t) \/ Exits(t)

QueueNext ==
    \/ \E t \in Thread : MainCreates(t) \/ ThreadStep(t)
    \/ MainRuns
    \/ RunReturns

-----------------------------------------------------------------------------
(* Threads whose wait on s was granted and that have not used it yet. *)
Granted(c) == {t \in Thread : /\ waited[t]
                              /\ Program[t][step[t]] = c
                              /\ t \notin Blocked}

(* Units are conserved across direct hand-off: each message in the list is  *)
(* an available unit or promised to a getter that was woken and has not run *)
(* yet; each free place is a unit or promised to a woken putter.            *)
UnitsAddUp ==
    /\ units[elem_avaiable] + Cardinality(Granted("get")) = Len(head)
    /\ units[space_avaiable] + Cardinality(Granted("put")) + Len(head) = Limit

(* The queue is a bounded FIFO. *)
Fifo == INSTANCE BoundedFifo WITH Message <- Messages, Capacity <- Limit, contents <- head
ImplementsFifo == Fifo!FifoSpec

(* When puts and gets balance, every thread finishes and ut_run returns,    *)
(* whatever the order in which main created the threads.                    *)
Ended == running_thread = NULL /\ \A t \in Thread : step[t] > Len(Program[t])
=============================================================================
