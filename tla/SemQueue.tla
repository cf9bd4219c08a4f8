------------------------------ MODULE SemQueue ------------------------------
(***************************************************************************)
(* The bounded queue of src/aula-06-04/queues/queue.c: a list protected by *)
(* a mutex, and two POSIX semaphores that count its elements and its free  *)
(* places.  A thread stops between the semaphore it waits on, the critical *)
(* section and the semaphore it posts, so each is a step.                  *)
(*                                                                         *)
(* The second argument of the POSIX sem_init says whether the semaphore is *)
(* shared between processes and the third is its value.  queue_init passes *)
(* (units, limit), the arguments of the user-thread sem_init, so BOTH      *)
(* semaphores start at max_size.                                           *)
(***************************************************************************)
EXTENDS Integers, Sequences, FiniteSets, Functions

CONSTANTS Thread,
          Message,      \* every message is put at most once: a bound on the run
          max_size,
          NULL

ASSUME SizeAssumption == max_size \in Nat \ {0}
ASSUME NullAssumption == NULL \notin Message
ASSUME ThreadAssumption == IsFiniteSet(Thread)

VARIABLES head,             \* the list, oldest node first
          elem_avaiable,    \* the value of each semaphore
          space_avaiable,
          pc, node,         \* where each thread is and the node it holds
          aborted,          \* free() was given a pointer malloc never returned
          taken             \* history: messages removed, in order

vars == <<head, elem_avaiable, space_avaiable, pc, node, aborted, taken>>

queue_init ==
    /\ head = <<>>
    /\ elem_avaiable = max_size   \* meant to be 0
    /\ space_avaiable = max_size

Init ==
    /\ queue_init
    /\ pc = [t \in Thread |-> "out"]
    /\ node = [t \in Thread |-> NULL]
    /\ aborted = FALSE
    /\ taken = <<>>

(* out: outside the queue;  insert, elem: in queue_put, about to enter the  *)
(* critical section, about to post;  remove, space, copy: in queue_get.     *)
Go(t, l) == pc' = [pc EXCEPT ![t] = l]

(* Messages not put yet. *)
Fresh == Message \ (Range(head) \cup Range(node) \cup Range(taken))

-----------------------------------------------------------------------------
PutWaitsForSpace(t, m) ==
    /\ pc[t] = "out" /\ ~aborted
    /\ m \in Fresh
    /\ space_avaiable > 0
    /\ space_avaiable' = space_avaiable - 1
    /\ node' = [node EXCEPT ![t] = m]
    /\ Go(t, "insert")
    /\ UNCHANGED <<head, elem_avaiable, aborted, taken>>

(* Mutant: the node goes to the front of the list. *)
PutInsertsFirst(t) ==
    /\ pc[t] = "insert" /\ ~aborted
    /\ head' = <<node[t]>> \o head
    /\ node' = [node EXCEPT ![t] = NULL]
    /\ Go(t, "elem")
    /\ UNCHANGED <<elem_avaiable, space_avaiable, aborted, taken>>

PutInserts(t) ==
    /\ pc[t] = "insert" /\ ~aborted
    /\ head' = Append(head, node[t])
    /\ node' = [node EXCEPT ![t] = NULL]
    /\ Go(t, "elem")
    /\ UNCHANGED <<elem_avaiable, space_avaiable, aborted, taken>>

PutPostsElem(t) ==
    /\ pc[t] = "elem" /\ ~aborted
    /\ elem_avaiable' = elem_avaiable + 1
    /\ Go(t, "out")
    /\ UNCHANGED <<head, space_avaiable, node, aborted, taken>>

GetWaitsForElem(t) ==
    /\ pc[t] = "out" /\ ~aborted
    /\ elem_avaiable > 0
    /\ elem_avaiable' = elem_avaiable - 1
    /\ Go(t, "remove")
    /\ UNCHANGED <<head, space_avaiable, node, aborted, taken>>

(* remove_list_first of an empty list returns the sentinel itself and       *)
(* leaves the list as it is; the thread then holds no node: node[t] = NULL. *)
GetRemoves(t) ==
    /\ pc[t] = "remove" /\ ~aborted
    /\ \/ /\ head # <<>>
          /\ node' = [node EXCEPT ![t] = Head(head)]
          /\ head' = Tail(head)
          /\ taken' = Append(taken, Head(head))
       \/ /\ head = <<>>
          /\ UNCHANGED <<head, node, taken>>
    /\ Go(t, "space")
    /\ UNCHANGED <<elem_avaiable, space_avaiable, aborted>>

(* Mutant: the free place is not given back. *)
GetKeepsSpace(t) ==
    /\ pc[t] = "space" /\ ~aborted
    /\ Go(t, "copy")
    /\ UNCHANGED <<head, elem_avaiable, space_avaiable, node, aborted, taken>>

GetPostsSpace(t) ==
    /\ pc[t] = "space" /\ ~aborted
    /\ space_avaiable' = space_avaiable + 1
    /\ Go(t, "copy")
    /\ UNCHANGED <<head, elem_avaiable, node, aborted, taken>>

(* The message is copied and the node freed; freeing the sentinel aborts. *)
GetCopies(t) ==
    /\ pc[t] = "copy" /\ ~aborted
    /\ aborted' = (node[t] = NULL)
    /\ node' = [node EXCEPT ![t] = NULL]
    /\ Go(t, "out")
    /\ UNCHANGED <<head, elem_avaiable, space_avaiable, taken>>

Started(t) ==
    \/ PutInserts(t) \/ PutPostsElem(t)
    \/ GetRemoves(t) \/ GetPostsSpace(t) \/ GetCopies(t)

Next == \E t \in Thread :
    \/ Started(t)
    \/ GetWaitsForElem(t)
    \/ \E m \in Message : PutWaitsForSpace(t, m)

Spec == Init /\ [][Next]_vars

-----------------------------------------------------------------------------
At(l) == {t \in Thread : pc[t] = l}

(* A place is free, reserved by a putter, occupied, or about to be given    *)
(* back by a getter: never more than max_size messages are inside, and no   *)
(* free place is forgotten, however the calls interleave.  A getter that    *)
(* found the list empty gives back a place nobody took, so this is stated   *)
(* up to the first one.                                                     *)
SomebodyFoundItEmpty == aborted \/ \E t \in Thread : pc[t] \in {"space", "copy"} /\ node[t] = NULL

PlacesAddUp ==
    ~SomebodyFoundItEmpty =>
        space_avaiable + Cardinality(At("insert")) + Len(head) + Cardinality(At("space")) = max_size

(* "a queue with semaphores sinchronization for empty and full conditions": *)
(* a getter past the semaphore finds a node in the list.                    *)
GetFindsANode == \A t \in Thread : pc[t] = "space" => node[t] # NULL

(* Up to the first getter that finds the list empty the queue is a bounded  *)
(* FIFO: capacity, order and delivery are right.                            *)
Fifo == INSTANCE BoundedFifo WITH Capacity <- max_size, contents <- head
StepIsFifo == Fifo!FifoInit /\ [][SomebodyFoundItEmpty' \/ Fifo!FifoNext]_<<head, taken>>
=============================================================================
