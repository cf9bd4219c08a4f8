----------------------------- MODULE LoopServer -----------------------------
(***************************************************************************)
(* The echo server over the event loop with callbacks,                     *)
(* src/aula-06-17/echo_service/echo_ip_epoll_cb: loop.c keeps a handle     *)
(* with a callback for every descriptor in the epoll set, echo_srv.c       *)
(* supplies the callbacks.  ah_close takes the handle out of the set and   *)
(* frees it; nobody closes the descriptor.                                 *)
(***************************************************************************)
EXTENDS Sockets, FiniteSetsExt

VARIABLES handles,  \* the callback of each descriptor's handle, NULL when it has none
          nclients,
          batch,    \* handles returned by epoll_wait and not processed yet
          pc        \* wait: in epoll_wait;  process: in process

loopVars == <<handles, nclients, batch, pc>>
vars == <<sockVars, loopVars>>

LoopOK ==
    /\ handles \in [Fd \cup {listenfd} -> {NULL, "on_new_connection", "on_read_request"}]
    /\ nclients \in Nat
    /\ batch \subseteq Fd \cup {listenfd}
    /\ pc \in {"wait", "process"}

Init ==
    /\ handles = [f \in Fd \cup {listenfd} |->
                    IF f = listenfd THEN "on_new_connection" ELSE NULL]
    /\ nclients = 1
    /\ batch = {}
    /\ pc = "wait"

Registered == {f \in Fd \cup {listenfd} : handles[f] # NULL}

-----------------------------------------------------------------------------
ah_loop ==
    LET ready == {f \in Registered : Ready(f)} IN
    /\ pc = "wait"
    /\ ready # {}
    /\ batch' \in IF Cardinality(ready) > nclients THEN kSubset(nclients, ready) ELSE {ready}
    /\ pc' = "process"
    /\ UNCHANGED <<sockVars, handles, nclients>>

(* The callback of a handle of the batch; the kernel chose their order. *)
Calls(f, cb) ==
    /\ pc = "process" /\ f \in batch
    /\ handles[f] = cb
    /\ batch' = batch \ {f}
    /\ UNCHANGED pc

(* ah_regist_fd and ah_read_async. *)
Regist(f) ==
    /\ handles' = [handles EXCEPT ![f] = "on_read_request"]
    /\ nclients' = nclients + 1

on_new_connection ==
    /\ Calls(listenfd, "on_new_connection")
    /\ accept(FreeFd)
    /\ Regist(FreeFd)

ah_close(f) ==
    /\ handles' = [handles EXCEPT ![f] = NULL]
    /\ nclients' = nclients - 1

on_read_request(f) ==
    /\ Calls(f, "on_read_request")
    /\ \/ /\ ReadAndEcho(f)
          /\ UNCHANGED <<handles, nclients>>
       \/ /\ AtEnd(f)
          /\ ah_close(f)
          /\ UNCHANGED sockVars

ProcessReturns ==
    /\ pc = "process" /\ batch = {}
    /\ pc' = "wait"
    /\ UNCHANGED <<sockVars, handles, nclients, batch>>

ServerStep ==
    \/ ah_loop \/ on_new_connection \/ ProcessReturns
    \/ \E f \in Fd : on_read_request(f)

-----------------------------------------------------------------------------
Watched == Registered \ {listenfd}
WatchedOnce == nclients = Cardinality(Registered)

(* A handle in the batch is still registered when its turn comes, and its   *)
(* callback finds something to read.                                        *)
DataAvailable ==
    pc = "process" =>
        \A f \in batch : f \in Registered /\ Ready(f)
=============================================================================
