------------------------------ MODULE MemEcho ------------------------------
(***************************************************************************)
(* The echo service over shared-memory channels                            *)
(* (src/aula-06-04/ipc/echo_service/echo_memchannel): the server owns the  *)
(* request channel; each client owns a response channel of one element,    *)
(* whose name carries its process id; the server opens it for every        *)
(* request.  A client may be killed at any moment outside a critical       *)
(* section: its region stays linked, its call is abandoned.                *)
(***************************************************************************)
EXTENDS MemChannel

CONSTANTS Server, Client, requests, NITERS

Request(c, n) == [sender |-> c, try |-> n]

VARIABLES
    pc,         \* where each process is in main
    try,        \* the iteration of each client
    replies,    \* history: the messages each client printed
    received    \* history: the requests taken from the request channel

Init ==
    /\ ChanInit
    /\ pc = [p \in Proc |-> "start"]
    /\ try = [c \in Client |-> 0]
    /\ replies = [c \in Client |-> <<>>]
    /\ received = <<>>

Go(p, l) == pc' = [pc EXCEPT ![p] = l]

-----------------------------------------------------------------------------
ServerStarts ==
    /\ pc[Server] = "start"
    /\ mc_create(requests)
    /\ Go(Server, "loop")
    /\ UNCHANGED <<try, replies, received>>

ServerGets ==
    /\ pc[Server] = "loop"
    /\ mc_get(Server, requests)
    /\ UNCHANGED <<pc, try, replies, received>>

(* Mutant: the server answers on a channel that need not be the sender's.   *)
ServerOpensAny ==
    /\ pc[Server] = "loop"
    /\ op[Server].do = "got"
    /\ \E c \in linked \ {requests} :
          op' = [op EXCEPT ![Server] = [@ EXCEPT !.do = "put", !.ch = c]]
    /\ UNCHANGED <<linked, iput, iget, size, buf, pc, try, replies, received>>

(* The server opens the sender's channel and puts the message in it; if the *)
(* channel is gone it leaves the loop and destroys the request channel.     *)
ServerOpens ==
    LET c == op[Server].msg.sender IN
    /\ pc[Server] = "loop"
    /\ op[Server].do = "got"
    /\ \/ /\ c \in linked
          /\ op' = [op EXCEPT ![Server] = [@ EXCEPT !.do = "put", !.ch = c]]
          /\ UNCHANGED <<linked, pc>>
       \/ /\ c \notin linked
          /\ op' = [op EXCEPT ![Server] = Idle]
          /\ linked' = linked \ {requests}
          /\ Go(Server, "done")
    /\ UNCHANGED <<iput, iget, size, buf, try, replies, received>>

(* A client that finds no request channel reports it and ends. *)
ClientStarts(c) ==
    /\ pc[c] = "start"
    /\ \/ /\ requests \in linked
          /\ mc_create(c)
          /\ Go(c, "loop")
       \/ /\ requests \notin linked
          /\ Go(c, "done")
          /\ UNCHANGED chanVars
    /\ UNCHANGED <<try, replies, received>>

ClientPuts(c) ==
    /\ pc[c] = "loop"
    /\ try[c] < NITERS
    /\ try' = [try EXCEPT ![c] = @ + 1]
    /\ mc_put(c, requests, Request(c, try[c] + 1))
    /\ Go(c, "reply")
    /\ UNCHANGED <<replies, received>>

ClientGets(c) ==
    /\ pc[c] = "reply"
    /\ mc_get(c, c)
    /\ UNCHANGED <<pc, try, replies, received>>

ClientPrints(c) ==
    /\ pc[c] = "reply"
    /\ op[c].do = "got"
    /\ replies' = [replies EXCEPT ![c] = Append(@, op[c].msg)]
    /\ op' = [op EXCEPT ![c] = Idle]
    /\ Go(c, "loop")
    /\ UNCHANGED <<linked, iput, iget, size, buf, try, received>>

(* Mutant: the client destroys its channel before the last response came. *)
ClientEndsEarly(c) ==
    /\ pc[c] \in {"loop", "reply"} /\ op[c] = Idle
    /\ try[c] = NITERS
    /\ mc_destroy(c)
    /\ Go(c, "done")
    /\ UNCHANGED <<try, replies, received>>

ClientEnds(c) ==
    /\ pc[c] = "loop"
    /\ try[c] = NITERS
    /\ mc_destroy(c)
    /\ Go(c, "done")
    /\ UNCHANGED <<try, replies, received>>

(* Between two calls (killed), or in the middle of one (cut).               *)
Killed(c) ==
    /\ pc[c] \in {"loop", "reply"}
    /\ Go(c, IF op[c] = Idle THEN "killed" ELSE "cut")
    /\ op' = [op EXCEPT ![c] = Idle]
    /\ UNCHANGED <<linked, iput, iget, size, buf, try, replies, received>>

(* A step inside mc_put or mc_get; the history of the request channel grows *)
(* where a message enters or leaves it.                                     *)
ChannelStep(p) ==
    /\ InCall(p)
    /\ received' = IF op[p].ch = requests /\ size'[requests] < size[requests]
                   THEN Append(received, op'[p].msg) ELSE received
    /\ UNCHANGED <<pc, try, replies>>

Wakes(p) == SpuriousWakeup(p) /\ UNCHANGED <<pc, try, replies, received>>

ServerStep == ServerStarts \/ ServerGets \/ ServerOpens \/ ChannelStep(Server)

ClientStep(c) ==
    ClientPuts(c) \/ ClientGets(c) \/ ClientPrints(c) \/ ClientEnds(c) \/ ChannelStep(c)

Next ==
    \/ ServerStep
    \/ \E c \in Client : ClientStarts(c) \/ ClientStep(c) \/ Killed(c)
    \/ \E p \in Proc : Wakes(p)

-----------------------------------------------------------------------------
(* A client is never answered with the request of another, with a stale one *)
(* or twice: its replies are its own requests, in order.                    *)
RepliesMatch ==
    \A c \in Client : /\ Len(replies[c]) <= try[c]
                      /\ \A n \in 1..Len(replies[c]) : replies[c][n] = Request(c, n)

(* Killing clients does not stop the service: the server never finds a      *)
(* response channel gone, which would end it, nor full, which would block   *)
(* it for ever on a client that is dead; and it never uses the mutex of a   *)
(* channel that its client has destroyed, nor a client that of the server.  *)
ServerSurvives ==
    /\ pc[Server] # "done"
    /\ \A c \in Client : Server \notin Waiting("putwait", c)
    /\ NobodyUsesADestroyedChannel
=============================================================================
