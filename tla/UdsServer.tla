------------------------------ MODULE UdsServer ------------------------------
(***************************************************************************)
(* The echo server over a Unix socket,                                     *)
(* src/aula-06-09/echo_service/echo_udschannel/echo_srv.c: one thread that *)
(* accepts a connection, serves it to its end and accepts the next.        *)
(*                                                                         *)
(* A write to a Unix socket whose peer has gone raises SIGPIPE at once,    *)
(* and the server does not ignore it.                                      *)
(***************************************************************************)
EXTENDS Sockets

VARIABLE serving    \* the descriptor process_connection was called with, NULL in accept

vars == <<sockVars, serving>>

UdsOK == serving \in Fd \cup {NULL}

Init == serving = NULL

-----------------------------------------------------------------------------
run ==
    /\ serving = NULL
    /\ accept(FreeFd)
    /\ serving' = FreeFd

process_connection ==
    /\ serving \in Open
    /\ \/ /\ at[owner[serving]] # "end"
          /\ ReadAndEcho(serving)
          /\ UNCHANGED serving
       \/ /\ at[owner[serving]] = "end" /\ inbox[owner[serving]] > 0
          /\ ProcessDies
          /\ UNCHANGED serving
       \/ /\ AtEnd(serving)
          /\ Close(serving)
          /\ serving' = NULL

ServerStep == run \/ process_connection

-----------------------------------------------------------------------------
Watched == {serving} \ {NULL}
=============================================================================
