------------------------------ MODULE Sockets ------------------------------
(***************************************************************************)
(* The stream sockets the echo servers of src/aula-06-17 are built on, and *)
(* the client program they all have (echo_cli.c).  A client connects,      *)
(* sends its requests one at a time, reads the reply of each, closes; it   *)
(* may be killed at any moment.  The server's side of a connection waits   *)
(* in the backlog until it is accepted and has a descriptor from then on.  *)
(*                                                                         *)
(* A message is read whole (echo_msg_t is 256 bytes), the backlog holds    *)
(* every client, and the process has descriptors enough.  A client whose   *)
(* server answers it alone has at most one request under way; a TCP server *)
(* then writes at most once to a client that has gone, which raises no     *)
(* signal.                                                                 *)
(***************************************************************************)
EXTENDS Integers, Sequences, FiniteSets, Functions

CONSTANTS Client,   \* connections, one for each run of the client program
          Fd,       \* the descriptors the server's process has for connections
          listenfd,
          NITERS,   \* requests of a client
          NULL

ASSUME SocketAssumption ==
    /\ IsFiniteSet(Client)
    /\ NULL \notin Client \cup Fd
    /\ NULL \notin {"on_new_connection", "on_read_request"}
    /\ Fd \subseteq Nat \ {0} /\ IsFiniteSet(Fd)      \* 0 is the standard input
    /\ Cardinality(Fd) >= Cardinality(Client)
    /\ listenfd \in Nat \ (Fd \cup {0})
    /\ NITERS \in Nat

VARIABLES listening,    \* the listen socket is open
          backlog,      \* connections to accept, oldest first
          owner,        \* the connection of each descriptor, NULL when it is free
          inbox,        \* the requests in each connection that the server has not read
          replies,      \* the replies in it that the client has not read
          at, try       \* where each client is in main, and the iteration it is in

sockVars == <<listening, backlog, owner, inbox, replies, at, try>>

Open == {f \in Fd : owner[f] # NULL}

SocketsOK ==
    /\ listening \in BOOLEAN
    /\ backlog \in Seq(Client) /\ IsInjective(backlog)
    /\ owner \in [Fd -> Client \cup {NULL}]
    /\ \A f, g \in Open : owner[f] = owner[g] => f = g
    /\ inbox \in [Client -> 0..NITERS]
    /\ replies \in [Client -> 0..Cardinality(Client)]
    /\ at \in [Client -> {"connect", "write", "read", "end"}]
    /\ try \in [Client -> 0..NITERS]

(* A client that has sent a request waits for its reply. *)
OneUnderWay == \A c \in Client :
    inbox[c] + replies[c] <= IF at[c] \in {"read", "end"} THEN 1 ELSE 0

SocketsInit ==
    /\ listening = TRUE
    /\ backlog = <<>>
    /\ owner = [f \in Fd |-> NULL]
    /\ inbox = [c \in Client |-> 0]
    /\ replies = [c \in Client |-> 0]
    /\ at = [c \in Client |-> "connect"]
    /\ try = [c \in Client |-> 0]

Connected(c) == c \in Range(backlog) \cup Range(owner)

-----------------------------------------------------------------------------
Connects(c) ==
    /\ at[c] = "connect"
    /\ \/ /\ listening
          /\ backlog' = Append(backlog, c)
          /\ at' = [at EXCEPT ![c] = "write"]
       \/ /\ ~listening
          /\ at' = [at EXCEPT ![c] = "end"]
          /\ UNCHANGED backlog
    /\ UNCHANGED <<listening, owner, inbox, replies, try>>

Writes(c) ==
    /\ at[c] = "write" /\ try[c] < NITERS
    /\ try' = [try EXCEPT ![c] = @ + 1]
    /\ inbox' = IF Connected(c) THEN [inbox EXCEPT ![c] = @ + 1] ELSE inbox
    /\ at' = [at EXCEPT ![c] = "read"]
    /\ UNCHANGED <<listening, backlog, owner, replies>>

(* When the server has closed the connection the read fails, the client     *)
(* does not look at its result, and its next write kills it.                *)
Reads(c) ==
    /\ at[c] = "read"
    /\ \/ /\ replies[c] > 0
          /\ replies' = [replies EXCEPT ![c] = @ - 1]
          /\ at' = [at EXCEPT ![c] = "write"]
       \/ /\ replies[c] = 0 /\ ~Connected(c)
          /\ at' = [at EXCEPT ![c] = "end"]
          /\ UNCHANGED replies
    /\ UNCHANGED <<listening, backlog, owner, inbox, try>>

Ends(c) ==
    /\ at[c] = "write" /\ try[c] = NITERS
    /\ at' = [at EXCEPT ![c] = "end"]
    /\ UNCHANGED <<listening, backlog, owner, inbox, replies, try>>

Killed(c) ==
    /\ at[c] \in {"write", "read"}
    /\ at' = [at EXCEPT ![c] = "end"]
    /\ UNCHANGED <<listening, backlog, owner, inbox, replies, try>>

ClientStep(c) == Writes(c) \/ Reads(c) \/ Ends(c)

-----------------------------------------------------------------------------
(* What the server's process sees.  POLLIN, a bit of the set, EPOLLIN: a    *)
(* read would return, with a request or, after the last one, with the end.  *)
Readable(f) == f \in Open /\ (inbox[owner[f]] > 0 \/ at[owner[f]] = "end")

Ready(f) == IF f = listenfd THEN listening /\ backlog # <<>> ELSE Readable(f)

(* accept returns the lowest free descriptor. *)
FreeFd == CHOOSE f \in Fd \ Open : \A g \in Fd \ Open : f <= g

accept(f) ==
    /\ backlog # <<>>
    /\ backlog' = Tail(backlog)
    /\ owner' = [owner EXCEPT ![f] = Head(backlog)]
    /\ UNCHANGED <<listening, inbox, replies, at, try>>

(* The table of clients is full: the connection is accepted and closed.     *)
AcceptAndClose ==
    /\ backlog # <<>>
    /\ backlog' = Tail(backlog)
    /\ UNCHANGED <<listening, owner, inbox, replies, at, try>>

(* read returns a request and it is written back. *)
ReadAndEcho(f) ==
    LET c == owner[f] IN
    /\ f \in Open
    /\ inbox[c] > 0
    /\ inbox' = [inbox EXCEPT ![c] = @ - 1]
    /\ replies' = IF at[c] = "end" THEN replies ELSE [replies EXCEPT ![c] = @ + 1]
    /\ UNCHANGED <<listening, backlog, owner, at, try>>

(* read returns zero or an error. *)
AtEnd(f) == f \in Open /\ inbox[owner[f]] = 0 /\ at[owner[f]] = "end"

(* The server's process ends by a signal and the kernel closes everything.  *)
ProcessDies ==
    /\ listening' = FALSE
    /\ backlog' = <<>>
    /\ owner' = [f \in Fd |-> NULL]
    /\ UNCHANGED <<inbox, replies, at, try>>

Close(f) ==
    /\ owner' = [owner EXCEPT ![f] = NULL]
    /\ UNCHANGED <<listening, backlog, inbox, replies, at, try>>
=============================================================================
