---------------------------- MODULE EpollServer ----------------------------
(***************************************************************************)
(* The echo server over epoll,                                             *)
(* src/aula-06-17/echo_service/echo_ip_epollchannel/echo_srv.c.  The       *)
(* kernel keeps the set of watched descriptors and returns the ready ones  *)
(* in an order of its own, so that any event of the batch may be the next; *)
(* nclients counts them, the listen socket and the standard input          *)
(* included.  A line on the standard input closes the listen socket, and   *)
(* the server ends when its last client has gone.                          *)
(***************************************************************************)
EXTENDS Sockets, FiniteSetsExt

stdin == 0

VARIABLES interest,     \* descriptors in the epoll set
          nclients,
          batch,        \* events returned by epoll_wait and not processed yet
          typed,        \* there is a line on the standard input
          pc            \* wait: in epoll_wait;  process: in process;  end

epollVars == <<interest, nclients, batch, typed, pc>>
vars == <<sockVars, epollVars>>

EpollOK ==
    /\ interest \subseteq Fd \cup {listenfd, stdin}
    /\ nclients \in Nat
    /\ batch \subseteq Fd \cup {listenfd, stdin}
    /\ typed \in BOOLEAN
    /\ pc \in {"wait", "process", "end"}

Init ==
    /\ interest = {listenfd, stdin}
    /\ nclients = 2
    /\ batch = {}
    /\ typed = FALSE
    /\ pc = "wait"

-----------------------------------------------------------------------------
(* At most nclients events are returned, which leaves none out.             *)
loop ==
    LET ready == {f \in interest : IF f = stdin THEN typed ELSE Ready(f)} IN
    /\ pc = "wait"
    /\ nclients > 0
    /\ ready # {}
    /\ batch' \in IF Cardinality(ready) > nclients THEN kSubset(nclients, ready) ELSE {ready}
    /\ pc' = "process"
    /\ UNCHANGED <<sockVars, interest, nclients, typed>>

LoopEnds ==
    /\ pc = "wait"
    /\ nclients = 0
    /\ pc' = "end"
    /\ UNCHANGED <<sockVars, interest, nclients, batch, typed>>

Event(f) == pc = "process" /\ f \in batch

NewConnection ==
    /\ Event(listenfd)
    /\ \/ /\ listening
          /\ accept(FreeFd)
          /\ interest' = interest \cup {FreeFd}      \* add_client
          /\ nclients' = nclients + 1
          /\ batch' = batch \ {listenfd}
       \/ /\ ~listening         \* closed in this very batch: accept fails and process returns
          /\ batch' = {}
          /\ UNCHANGED <<sockVars, interest, nclients>>
    /\ UNCHANGED <<typed, pc>>

(* Closing the listen socket drops the connections of the backlog. *)
Terminate ==
    /\ Event(stdin)
    /\ interest' = interest \ {listenfd, stdin}
    /\ nclients' = nclients - 2
    /\ listening' = FALSE
    /\ backlog' = <<>>
    /\ batch' = batch \ {stdin}
    /\ UNCHANGED <<owner, inbox, replies, at, try, typed, pc>>

(* Mutant: a removed client stays counted. *)
RemUncounted(f) ==
    /\ interest' = interest \ {f}
    /\ UNCHANGED nclients

rem_client(f) ==
    /\ interest' = interest \ {f}
    /\ nclients' = nclients - 1

Request(f) ==
    /\ Event(f)
    /\ \/ /\ ReadAndEcho(f)
          /\ UNCHANGED <<interest, nclients>>
       \/ /\ AtEnd(f)
          /\ rem_client(f)
          /\ Close(f)
    /\ batch' = batch \ {f}
    /\ UNCHANGED <<typed, pc>>

ProcessReturns ==
    /\ pc = "process" /\ batch = {}
    /\ pc' = "wait"
    /\ UNCHANGED <<sockVars, interest, nclients, batch, typed>>

ServerStep ==
    \/ loop \/ LoopEnds \/ NewConnection \/ Terminate \/ ProcessReturns
    \/ \E f \in Fd : Request(f)

(* Somebody types a line. *)
Types ==
    /\ ~typed
    /\ typed' = TRUE
    /\ UNCHANGED <<sockVars, interest, nclients, batch, pc>>

-----------------------------------------------------------------------------
Watched == interest \ {listenfd, stdin}
WatchedOnce == nclients = Cardinality(interest)

(* process reads from a client only when there is something to read. *)
DataAvailable == \A f \in Fd : Event(f) => Readable(f)
=============================================================================
