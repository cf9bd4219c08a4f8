----------------------------- MODULE MCMemEcho -----------------------------
(* Three clients and a request channel of two elements (1024 in the code),  *)
(* so that it fills up; three processes share a region; the small programs *)
(* need no more than three tasks.                                           *)
EXTENDS Ipc

CONSTANTS c1, c2, c3

Clients == {c1, c2, c3}
Processes == Client \cup {Server}
Channels == Client \cup {requests}
Messages == {[sender |-> c, try |-> i] : c \in Client, i \in 1..NITERS}
Sizes == [c \in Channels |-> IF c = requests THEN 2 ELSE 1]

(* Over shared memory one and two readers, two writers of a name at the     *)
(* same time; over a file programs with sizes of their own.                 *)
Played(r1, r2, r3) == [c \in Clients |-> CASE c = c1 -> r1 [] c = c2 -> r2 [] c = c3 -> r3]
Casts == {Played("smem_writer", "smem_writer", "smem_reader"),
          Played("smem_writer", "smem_reader", "smem_reader"),
          Played("genints", "maptest", "maptest_size")}
=============================================================================
