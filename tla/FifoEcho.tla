------------------------------ MODULE FifoEcho ------------------------------
(***************************************************************************)
(* The echo service over named pipes,                                      *)
(* src/aula-06-09/echo_service/echo_fifo_channel.  The server and every    *)
(* client open their own fifo for reading and writing, so that neither     *)
(* waits for the other side nor sees an end of file; the other side opens  *)
(* it for writing, which waits until somebody can read it, and a write     *)
(* that nobody can read kills.  A message is shorter than PIPE_BUF: it is  *)
(* written and read whole.  A client may be killed anywhere; its fifo      *)
(* keeps its name then.                                                    *)
(***************************************************************************)
EXTENDS Integers, Sequences, FiniteSets

CONSTANTS Server, Client,
          requests,     \* the fifo of the server; the fifo of a client is named by the client
          NITERS,
          NULL

Fifo == Client \cup {requests}

VARIABLES
    linked,     \* the fifos that have their name in the directory
    owned,      \* those that their owner has open, and so can be read
    queue,      \* the messages in each fifo
    pc,
    msg,        \* the request the server is at
    try, replies, received      \* as in MemEcho

fifoVars == <<linked, owned, queue, pc, msg, try, replies, received>>

Request(c, n) == [sender |-> c, try |-> n]

Init ==
    /\ linked = {}
    /\ owned = {}
    /\ queue = [f \in Fifo |-> <<>>]
    /\ pc = [p \in Client \cup {Server} |-> "start"]
    /\ msg = NULL
    /\ try = [c \in Client |-> 0]
    /\ replies = [c \in Client |-> <<>>]
    /\ received = <<>>

Go(p, l) == pc' = [pc EXCEPT ![p] = l]

(* create_fifo(f) by p: mkfifo, where a fifo that exists will do, and open. *)
Makes(p, f, label) ==
    /\ pc[p] = label
    /\ linked' = linked \cup {f}
    /\ Go(p, "create")
    /\ UNCHANGED <<owned, queue, msg, try, replies, received>>

Opens(p, f, next) ==
    /\ pc[p] = "create"
    /\ owned' = owned \cup {f}
    /\ Go(p, next)
    /\ UNCHANGED <<linked, queue, msg, try, replies, received>>

(* The messages in a fifo that nobody has open any more are gone. *)
Closes(f) ==
    /\ owned' = owned \ {f}
    /\ queue' = [queue EXCEPT ![f] = <<>>]

-----------------------------------------------------------------------------
ServerCreates == Makes(Server, requests, "start") \/ Opens(Server, requests, "read")

ServerReads ==
    /\ pc[Server] = "read"
    /\ queue[requests] # <<>>
    /\ msg' = Head(queue[requests])
    /\ received' = Append(received, msg')
    /\ queue' = [queue EXCEPT ![requests] = Tail(@)]
    /\ Go(Server, "open")
    /\ UNCHANGED <<linked, owned, try, replies>>

(* It waits in open while the fifo is there and nobody can read it; if the  *)
(* fifo is not there it leaves the loop and ends.                           *)
open_client_fifo ==
    /\ pc[Server] = "open"
    /\ \/ /\ msg.sender \in linked \cap owned
          /\ Go(Server, "write")
          /\ UNCHANGED <<owned, queue>>
       \/ /\ msg.sender \notin linked
          /\ Go(Server, "done")
          /\ Closes(requests)
    /\ UNCHANGED <<linked, msg, try, replies, received>>

(* write and close; the write raises SIGPIPE if the client has gone. *)
ServerWrites ==
    /\ pc[Server] = "write"
    /\ \/ /\ msg.sender \in owned
          /\ queue' = [queue EXCEPT ![msg.sender] = Append(@, msg)]
          /\ Go(Server, "read")
          /\ UNCHANGED owned
       \/ /\ msg.sender \notin owned
          /\ Go(Server, "dead")
          /\ Closes(requests)
    /\ UNCHANGED <<linked, msg, try, replies, received>>

-----------------------------------------------------------------------------
(* A client ends when the server's fifo is not there, and waits while the   *)
(* server has not opened it, or has gone and left it.                       *)
open_server_fifo(c) ==
    /\ pc[c] = "start"
    /\ \/ requests \notin linked /\ Go(c, "done")
       \/ requests \in linked \cap owned /\ Go(c, "mkfifo")
    /\ UNCHANGED <<linked, owned, queue, msg, try, replies, received>>

ClientCreates(c) == Makes(c, c, "mkfifo") \/ Opens(c, c, "loop")

ClientWrites(c) ==
    /\ pc[c] = "loop"
    /\ try[c] < NITERS
    /\ \/ /\ requests \in owned
          /\ try' = [try EXCEPT ![c] = @ + 1]
          /\ queue' = [queue EXCEPT ![requests] = Append(@, Request(c, try'[c]))]
          /\ Go(c, "reply")
          /\ UNCHANGED owned
       \/ /\ requests \notin owned
          /\ Closes(c)
          /\ Go(c, "killed")
          /\ UNCHANGED try
    /\ UNCHANGED <<linked, msg, replies, received>>

ClientReads(c) ==
    /\ pc[c] = "reply"
    /\ queue[c] # <<>>
    /\ replies' = [replies EXCEPT ![c] = Append(@, Head(queue[c]))]
    /\ queue' = [queue EXCEPT ![c] = Tail(@)]
    /\ Go(c, "loop")
    /\ UNCHANGED <<linked, owned, msg, try, received>>

ClientCloses(c) ==
    /\ pc[c] = "loop"
    /\ try[c] = NITERS
    /\ Closes(c)
    /\ Go(c, "unlink")
    /\ UNCHANGED <<linked, msg, try, replies, received>>

ClientUnlinks(c) ==
    /\ pc[c] = "unlink"
    /\ linked' = linked \ {c}
    /\ Go(c, "done")
    /\ UNCHANGED <<owned, queue, msg, try, replies, received>>

Killed(c) ==
    /\ pc[c] \notin {"done", "killed"}
    /\ Closes(c)
    /\ Go(c, "killed")
    /\ UNCHANGED <<linked, msg, try, replies, received>>

ServerStep == ServerCreates \/ ServerReads \/ open_client_fifo \/ ServerWrites

ClientStep(c) ==
    \/ open_server_fifo(c) \/ ClientCreates(c) \/ ClientWrites(c) \/ ClientReads(c)
    \/ ClientCloses(c) \/ ClientUnlinks(c)

Next == ServerStep \/ \E c \in Client : ClientStep(c) \/ Killed(c)

-----------------------------------------------------------------------------
RepliesMatch ==
    \A c \in Client : /\ Len(replies[c]) <= try[c]
                      /\ \A n \in 1..Len(replies[c]) : replies[c][n] = Request(c, n)

(* The server has ended, was killed by its own write, or waits to open the  *)
(* fifo of a client that will not open it again.                            *)
ServerStopped ==
    \/ pc[Server] \in {"done", "dead"}
    \/ pc[Server] = "open" /\ pc[msg.sender] = "killed"

(* Only the death of a client stops the server.                             *)
ServerSurvives == ServerStopped => \E c \in Client : pc[c] = "killed"
=============================================================================
