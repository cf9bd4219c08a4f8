---------------------------- MODULE EchoServers ----------------------------
(***************************************************************************)
(* The same clients against each of the servers over sockets: one at a     *)
(* time over a Unix socket, a worker per connection over TCP, and those    *)
(* that multiplex their connections with poll, select, epoll, the epoll    *)
(* loop with callbacks, and libuv without and with its pool.  kind is the  *)
(* server that runs; the variables of the others keep their initial value. *)
(* What a client may expect does not depend on the server, so the          *)
(* properties are stated once.                                             *)
(***************************************************************************)
EXTENDS Sockets

CONSTANTS Kind,         \* the servers to consider
          Population,   \* the clients that may start against each: a bound on the run
          FOPEN_MAX, FD_SETSIZE, Worker

ASSUME KindAssumption ==
    /\ Kind \subseteq {"uds", "tcp", "poll", "select", "epoll", "loop", "uv", "uvpool"}
    /\ Population \in [Kind -> SUBSET Client]
    /\ FOPEN_MAX \in Nat \ {0}
    /\ FD_SETSIZE \in Nat /\ FD_SETSIZE > 4 /\ listenfd < FD_SETSIZE
    /\ IsFiniteSet(Worker)

(* The server over select opens nothing but its connections: they have the *)
(* descriptors from 4 on, after the standard ones and the listen socket.   *)
ASSUME DescriptorAssumption == "select" \in Kind => \A f \in Fd : f \in Nat \ 0..3 /\ 4..f \subseteq Fd

VARIABLES kind,
          clients, nclients, nready, i, pc,     \* poll and select; the last and nclients, all
          maxclient_fd, allset, rset,           \* select
          interest, typed, batch,               \* epoll; batch, the loop too
          handles,                              \* the loop
          serving,                              \* tcp and uds
          accepted, asleep, signals,            \* tcp
          handle, closing, work, done           \* uvpool; the first two, uv too

tableVars == <<clients, nready, i>>
selectVars == <<maxclient_fd, allset, rset>>
epollVars == <<interest, typed>>
uvVars == <<handle, closing>>
poolVars == <<work, done>>
tcpVars == <<accepted, asleep, signals>>
allVars == <<sockVars, kind, nclients, pc, batch, tableVars, selectVars, epollVars, handles,
             tcpVars, serving, uvVars, poolVars>>

Uds == INSTANCE UdsServer
Tcp == INSTANCE TcpServer
Poll == INSTANCE PollServer
Select == INSTANCE SelectServer
Epoll == INSTANCE EpollServer
Loop == INSTANCE LoopServer
Uv == INSTANCE UvServer
UvPool == INSTANCE UvPoolServer

(* A variable the running server does not have. *)
None == <<>>

Init ==
    /\ SocketsInit
    /\ kind \in Kind
    /\ \/ kind = "uds" /\ Uds!Init
       \/ kind = "tcp" /\ Tcp!Init
       \/ kind = "poll" /\ Poll!Init
       \/ kind = "select" /\ Select!Init
       \/ kind = "epoll" /\ Epoll!Init
       \/ kind = "loop" /\ Loop!Init
       \/ kind = "uv" /\ Uv!Init
       \/ kind = "uvpool" /\ UvPool!PoolInit
    /\ kind \notin {"poll", "select"} => clients = None /\ nready = None /\ i = None
    /\ kind # "select" => maxclient_fd = None /\ allset = None /\ rset = None
    /\ kind # "epoll" => interest = None /\ typed = None
    /\ kind # "loop" => handles = None
    /\ kind \notin {"epoll", "loop"} => batch = None
    /\ kind \notin {"poll", "select", "epoll", "loop"} => nclients = None /\ pc = None
    /\ kind # "tcp" => accepted = None /\ asleep = None /\ signals = None
    /\ kind \notin {"uds", "tcp"} => serving = None
    /\ kind \notin {"uv", "uvpool"} => handle = None /\ closing = None
    /\ kind # "uvpool" => work = None /\ done = None

UdsStep ==
    /\ kind = "uds" /\ Uds!ServerStep
    /\ UNCHANGED <<kind, nclients, pc, batch, tableVars, selectVars, epollVars, handles,
                   tcpVars, uvVars, poolVars>>

NotOfTcp == <<kind, nclients, pc, batch, tableVars, selectVars, epollVars, handles,
              uvVars, poolVars>>

TcpStep == kind = "tcp" /\ Tcp!ServerStep /\ UNCHANGED NotOfTcp

PollStep ==
    /\ kind = "poll" /\ Poll!ServerStep
    /\ UNCHANGED <<kind, batch, selectVars, epollVars, handles, tcpVars, serving,
                   uvVars, poolVars>>

SelectStep ==
    /\ kind = "select" /\ Select!ServerStep
    /\ UNCHANGED <<kind, batch, epollVars, handles, tcpVars, serving, uvVars, poolVars>>

NotOfEpoll == <<kind, tableVars, selectVars, handles, tcpVars, serving, uvVars, poolVars>>

EpollStep == kind = "epoll" /\ Epoll!ServerStep /\ UNCHANGED NotOfEpoll

LoopStep ==
    /\ kind = "loop" /\ Loop!ServerStep
    /\ UNCHANGED <<kind, tableVars, selectVars, epollVars, tcpVars, serving, uvVars, poolVars>>

NotOfUv == <<kind, nclients, pc, batch, tableVars, selectVars, epollVars, handles, tcpVars,
             serving>>

UvStep == kind = "uv" /\ Uv!ServerStep /\ UNCHANGED <<NotOfUv, poolVars>>

UvPoolStep == kind = "uvpool" /\ UvPool!PoolServerStep /\ UNCHANGED NotOfUv

ServerStep ==
    \/ UdsStep \/ TcpStep \/ PollStep \/ SelectStep
    \/ EpollStep \/ LoopStep \/ UvStep \/ UvPoolStep

Types ==
    /\ kind = "epoll" /\ Epoll!Types
    /\ UNCHANGED NotOfEpoll

WakesSpuriously == kind = "tcp" /\ Tcp!Spurious /\ UNCHANGED NotOfTcp

serverVars == <<NotOfUv, uvVars, poolVars>>

ClientGoesOn(c) == ClientStep(c) /\ UNCHANGED serverVars
ClientAppears(c) == c \in Population[kind] /\ Connects(c) /\ UNCHANGED serverVars
ClientIsKilled(c) == Killed(c) /\ UNCHANGED serverVars

Next ==
    \/ ServerStep
    \/ Types
    \/ WakesSpuriously
    \/ \E c \in Client : ClientGoesOn(c) \/ ClientAppears(c) \/ ClientIsKilled(c)

(* The server and the clients that have started are scheduled; nobody has   *)
(* to start a client, kill one, type a line, or wake a worker spuriously.   *)
Spec ==
    /\ Init /\ [][Next]_allVars
    /\ WF_allVars(ServerStep)
    /\ \A c \in Client : WF_allVars(ClientGoesOn(c))

-----------------------------------------------------------------------------
(* Type invariant of the sockets and of the server that runs.  Descriptors  *)
(* fit into select's sets because its table has FD_SETSIZE - 4 places.  The *)
(* server over libuv's pool may answer a client with the reply of another,  *)
(* which then has more than one request under way.                          *)
TypeOK ==
    /\ SocketsOK
    /\ kind # "uvpool" => OneUnderWay
    /\ kind = "uds" => Uds!UdsOK
    /\ kind = "tcp" => Tcp!TcpOK
    /\ kind = "uv" => Uv!UvOK
    /\ kind = "uvpool" => UvPool!UvPoolOK
    /\ kind = "poll" => Poll!PollOK
    /\ kind = "select" => Select!SelectOK
    /\ kind = "epoll" => Epoll!EpollOK
    /\ kind = "loop" => Loop!LoopOK

(* The server watches each open connection exactly once, in its table, in   *)
(* the kernel's, with a worker or in the queue of the pool, and no          *)
(* descriptor that it has closed: no client is lost when another is         *)
(* removed.  The descriptors that ah_close leaves open are the exception,   *)
(* and their clients have gone.  The server over epoll ends when it watches *)
(* nobody, and not before it was told to.                                   *)
EveryConnectionIsWatched ==
    /\ kind = "uds" /\ listening => Uds!Watched = Open
    /\ kind = "tcp" => Tcp!WatchedOnce /\ Tcp!Watched = Open
    /\ kind = "uv" => Uv!WatchedOnce /\ Uv!Watched = Open
    /\ kind = "uvpool" /\ listening => UvPool!WatchedOnce /\ UvPool!Watched = Open
    /\ kind = "poll" => Poll!WatchedOnce /\ Poll!Watched = Open
    /\ kind = "select" => Select!WatchedOnce /\ Select!Watched = Open
    /\ kind = "epoll" => /\ Epoll!WatchedOnce /\ Epoll!Watched = Open
                         /\ pc = "end" => Open = {} /\ ~listening
    /\ kind = "loop" => /\ Loop!WatchedOnce
                        /\ Loop!Watched \subseteq Open
                        /\ \A f \in Open \ Loop!Watched : AtEnd(f)

(* What was ready when the wait returned still is when its turn comes: the  *)
(* servers over select, epoll and the loop never block on one client.  In   *)
(* the one over TCP, whose workers each block on their own client, none     *)
(* sleeps over a connection that nobody will take.  Nothing is said of the  *)
(* one over a Unix socket, which serves one client at a time by design, nor *)
(* of the one over poll, which may block (PollReadsWhatIsReady).            *)
NobodyBlocksTheServer ==
    /\ kind = "tcp" => Tcp!NobodySleepsOverWork
    /\ kind = "select" => Select!DataAvailable
    /\ kind = "epoll" => Epoll!DataAvailable
    /\ kind = "loop" => Loop!DataAvailable

(* The server over poll reads from a client only when poll reported it.     *)
PollReadsWhatIsReady == kind = "poll" => Poll!DataAvailable

(* The server over libuv with a pool answers each request to its sender.    *)
ResponseGoesToItsSender == kind = "uvpool" => UvPool!ToOurClient

(* A client that has sent a request gets its reply, or the end of the       *)
(* connection, whatever other clients do and whenever they die: nobody is   *)
(* forgotten in a table, skipped for ever in a round, or starved.           *)
EveryRequestIsAnswered == \A c \in Client : (at[c] = "read") ~> (at[c] # "read")

(* A server that was told to terminate ends, when its clients have gone.    *)
ToldServerEnds == (kind = "epoll" /\ ~listening) ~> (pc = "end")
=============================================================================
