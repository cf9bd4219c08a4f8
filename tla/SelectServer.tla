---------------------------- MODULE SelectServer ----------------------------
(***************************************************************************)
(* The echo server over select,                                            *)
(* src/aula-06-17/echo_service/echo_ip_selchannel/echo_srv.c.  The clients *)
(* are an array of descriptors and, once more, the bits of allset; each    *)
(* round starts from a copy of it.  select looks at the descriptors up to  *)
(* maxclient_fd.                                                           *)
(***************************************************************************)
EXTENDS Sockets

CONSTANT FD_SETSIZE     \* bits of an fd_set

maxclients == FD_SETSIZE - 4

VARIABLES clients, nclients, maxclient_fd,
          allset, rset, \* descriptors watched, descriptors reported
          nready, i, pc \* as in PollServer

selectVars == <<clients, nclients, maxclient_fd, allset, rset, nready, i, pc>>
vars == <<sockVars, selectVars>>

(* The sets have FD_SETSIZE bits; descriptors are small because the lowest  *)
(* free one is taken, and four are in use by the process itself.            *)
SelectOK ==
    /\ clients \in [0..maxclients-1 -> Fd \cup {0}]
    /\ nclients \in 0..maxclients
    /\ maxclient_fd \in Fd \cup {listenfd}
    /\ allset \subseteq 0..FD_SETSIZE-1
    /\ rset \subseteq 0..FD_SETSIZE-1
    /\ nready \in 0..maxclients+1
    /\ i \in 0..maxclients
    /\ pc \in {"wait", "process", "scan"}

Init ==
    /\ clients = [s \in 0..maxclients-1 |-> 0]
    /\ nclients = 0
    /\ maxclient_fd = listenfd
    /\ allset = {listenfd}
    /\ rset = {}
    /\ nready = 0
    /\ i = 0
    /\ pc = "wait"

-----------------------------------------------------------------------------
loop ==
    /\ pc = "wait"
    /\ rset' = {f \in allset : f <= maxclient_fd /\ Ready(f)}
    /\ rset' # {}
    /\ nready' = Cardinality(rset')
    /\ pc' = "process"
    /\ UNCHANGED <<sockVars, clients, nclients, maxclient_fd, allset, i>>

(* Mutant: the largest descriptor is not looked after. *)
AddKeepsMax(f) ==
    /\ clients' = [clients EXCEPT ![nclients] = f]
    /\ nclients' = nclients + 1
    /\ allset' = allset \cup {f}
    /\ UNCHANGED maxclient_fd

(* add_client and the FD_SET that follows it. *)
add_client(f) ==
    /\ clients' = [clients EXCEPT ![nclients] = f]
    /\ nclients' = nclients + 1
    /\ allset' = allset \cup {f}
    /\ maxclient_fd' = IF f > maxclient_fd THEN f ELSE maxclient_fd

rem_client(f) ==
    /\ Close(f)
    /\ clients' = [clients EXCEPT ![i] = clients[nclients-1]]
    /\ nclients' = nclients - 1
    /\ allset' = allset \ {f}

(* Mutant: one client too many is let in. *)
FullLate == nclients = maxclients + 1

Full == nclients = maxclients

(* process goes on with its loop, or returns and has no locals any more.    *)
Scan(n, slot) == pc' = "scan" /\ nready' = n /\ i' = slot
Return == pc' = "wait" /\ nready' = 0 /\ i' = 0

ProcessListen ==
    /\ pc = "process"
    /\ \/ /\ listenfd \notin rset
          /\ Scan(nready, 0)
          /\ UNCHANGED <<sockVars, clients, nclients, maxclient_fd, allset>>
       \/ /\ listenfd \in rset /\ ~Full
          /\ accept(FreeFd)
          /\ add_client(FreeFd)
          /\ IF nready = 1 THEN Return ELSE Scan(nready - 1, 0)
       \/ /\ listenfd \in rset /\ Full
          /\ AcceptAndClose
          /\ Return
          /\ UNCHANGED <<clients, nclients, maxclient_fd, allset>>
    /\ UNCHANGED rset

Scanning == pc = "scan" /\ nready > 0 /\ i < nclients

(* Mutant: the set of all clients is looked at. *)
ReadingAny == Scanning /\ clients[i] \in allset

(* process is about to read from clients[i]. *)
Reading == Scanning /\ clients[i] \in rset

ProcessSlot ==
    /\ Scanning
    /\ \/ /\ ~Reading
          /\ Scan(nready, i + 1)
          /\ UNCHANGED <<sockVars, clients, nclients, allset>>
       \/ /\ Reading
          /\ ReadAndEcho(clients[i])
          /\ Scan(nready, i + 1)
          /\ UNCHANGED <<clients, nclients, allset>>
       \/ /\ Reading
          /\ AtEnd(clients[i])
          /\ rem_client(clients[i])
          /\ Scan(nready - 1, i + 1)
    /\ UNCHANGED <<maxclient_fd, rset>>

ProcessReturns ==
    /\ pc = "scan" /\ ~Scanning
    /\ Return
    /\ UNCHANGED <<sockVars, clients, nclients, maxclient_fd, allset, rset>>

ServerStep == loop \/ ProcessListen \/ ProcessSlot \/ ProcessReturns

-----------------------------------------------------------------------------
(* The descriptors in the array, each once, and the same ones in the set. *)
Watched == {clients[s] : s \in 0..nclients-1}
WatchedOnce == Cardinality(Watched) = nclients /\ allset = Watched \cup {listenfd}

(* process reads from a client only when there is something to read. *)
DataAvailable == Reading => Readable(clients[i])
=============================================================================
