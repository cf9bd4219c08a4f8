------------------------------ MODULE MCUQueue ------------------------------
(* One sender and one receiver as in queue_test.c, a second sender, and a     *)
(* thread that forwards: six puts and six gets through a queue of two places. *)
(* Three threads that join, two for the machine, four entries for the lists.  *)
EXTENDS UPrograms

CONSTANTS a, b, c, d

Threads == {a, b, c, d}

Calls4 == [t \in Threads |->
    CASE t = a -> <<"put", "yield", "put", "put">>
      [] t = b -> <<"get", "get", "get", "get">>
      [] t = c -> <<"put", "put", "yield">>
      [] t = d -> <<"get", "put", "get">>]

NoObject == {}
BothSemaphores == {elem_avaiable, space_avaiable}
=============================================================================
