----------------------------- MODULE PollServer -----------------------------
(***************************************************************************)
(* The echo server over poll,                                              *)
(* src/aula-06-17/echo_service/echo_ip_pollchannel/echo_srv.c.  The table  *)
(* given to poll has the listen socket in its first slot; removing a       *)
(* client moves the last slot into its place, and poll writes the revents  *)
(* of the first nclients slots only.  The server stops between system      *)
(* calls, so the wait, the accept and each slot are steps; a read with     *)
(* nothing to return blocks the whole server.                              *)
(***************************************************************************)
EXTENDS Sockets

CONSTANT FOPEN_MAX      \* slots of the table

VARIABLES clients,  \* the table: a descriptor and whether poll reported it
          nclients,
          nready,
          i,        \* the slot process looks at
          pc        \* wait: in poll;  process, scan: in process, before and in its loop

pollVars == <<clients, nclients, nready, i, pc>>
vars == <<sockVars, pollVars>>

Slot == 0..FOPEN_MAX-1
Used == 1..nclients-1

PollOK ==
    /\ clients \in [Slot -> [fd : Fd \cup {0, listenfd}, revents : BOOLEAN]]
    /\ nclients \in 1..FOPEN_MAX
    /\ nready \in 0..FOPEN_MAX
    /\ i \in 0..FOPEN_MAX
    /\ pc \in {"wait", "process", "scan"}

Init ==
    /\ clients = [s \in Slot |-> [fd |-> IF s = 0 THEN listenfd ELSE 0, revents |-> FALSE]]
    /\ nclients = 1
    /\ nready = 0
    /\ i = 0
    /\ pc = "wait"

-----------------------------------------------------------------------------
loop ==
    LET ready == {s \in 0..nclients-1 : Ready(clients[s].fd)} IN
    /\ pc = "wait"
    /\ ready # {}
    /\ clients' = [s \in Slot |->
          IF s < nclients THEN [clients[s] EXCEPT !.revents = s \in ready] ELSE clients[s]]
    /\ nready' = Cardinality(ready)
    /\ pc' = "process"
    /\ UNCHANGED <<sockVars, nclients, i>>

(* The descriptor and the events of the new slot are set, not its revents. *)
add_client(f) ==
    /\ nclients < FOPEN_MAX
    /\ clients' = [clients EXCEPT ![nclients].fd = f]
    /\ nclients' = nclients + 1

(* Mutant: the last slot is dropped instead of moved. *)
RemDropsLast(s) ==
    /\ Close(clients[s].fd)
    /\ nclients' = nclients - 1
    /\ UNCHANGED clients

rem_client(s) ==
    /\ Close(clients[s].fd)
    /\ clients' = [clients EXCEPT ![s] = clients[nclients-1]]
    /\ nclients' = nclients - 1

(* process goes on with its loop, or returns and has no locals any more.    *)
Scan(n, slot) == pc' = "scan" /\ nready' = n /\ i' = slot
Return == pc' = "wait" /\ nready' = 0 /\ i' = 0

ProcessListen ==
    /\ pc = "process"
    /\ \/ /\ ~clients[0].revents
          /\ Scan(nready, 1)
          /\ UNCHANGED <<sockVars, clients, nclients>>
       \/ /\ clients[0].revents
          /\ accept(FreeFd)
          /\ add_client(FreeFd)
          /\ IF nready = 1 THEN Return ELSE Scan(nready - 1, 1)
       \/ /\ clients[0].revents
          /\ nclients = FOPEN_MAX
          /\ AcceptAndClose
          /\ Return
          /\ UNCHANGED <<clients, nclients>>

Scanning == pc = "scan" /\ nready > 0 /\ i < nclients

(* process is about to read from slot i. *)
Reading == Scanning /\ clients[i].revents

ProcessSlot ==
    /\ Scanning
    /\ \/ /\ ~Reading
          /\ Scan(nready, i + 1)
          /\ UNCHANGED <<sockVars, clients, nclients>>
       \/ /\ Reading
          /\ ReadAndEcho(clients[i].fd)
          /\ Scan(nready, i + 1)
          /\ UNCHANGED <<clients, nclients>>
       \/ /\ Reading
          /\ AtEnd(clients[i].fd)
          /\ rem_client(i)
          /\ Scan(nready - 1, i + 1)

ProcessReturns ==
    /\ pc = "scan" /\ ~Scanning
    /\ Return
    /\ UNCHANGED <<sockVars, clients, nclients>>

ServerStep == loop \/ ProcessListen \/ ProcessSlot \/ ProcessReturns

-----------------------------------------------------------------------------
(* The descriptors in the table, each in one slot. *)
Watched == {clients[s].fd : s \in Used}
WatchedOnce == Cardinality(Watched) = nclients - 1

(* "data avaiable on socket": process reads from a client only when there   *)
(* is something to read.  It does not hold: a slot keeps the revents of the *)
(* client that had it before, and a new client put in it is read from       *)
(* before it has sent anything.                                             *)
DataAvailable == Reading => Readable(clients[i].fd)
=============================================================================
