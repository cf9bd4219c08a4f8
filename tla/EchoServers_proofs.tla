-------------------------- MODULE EchoServers_proofs --------------------------
(***************************************************************************)
(* What holds of the eight servers over sockets for every number of        *)
(* clients, requests, descriptors, workers and places in their tables:     *)
(* types, no connection is lost or watched twice, and the servers over     *)
(* select, epoll and the loop with callbacks never block on one client.    *)
(***************************************************************************)
EXTENDS EchoServers, SequenceTheorems, FiniteSetTheorems, WellFoundedInduction, TLAPS

(* Of the sockets, whatever the server: a connection is in the backlog or   *)
(* has a descriptor, once, and neither before its client connects.          *)
SockInv ==
    /\ listening \in BOOLEAN
    /\ backlog \in Seq(Client) /\ IsInjective(backlog)
    /\ owner \in [Fd -> Client \cup {NULL}]
    /\ \A f, g \in Open : owner[f] = owner[g] => f = g
    /\ inbox \in [Client -> Nat]
    /\ replies \in [Client -> Nat]
    /\ at \in [Client -> {"connect", "write", "read", "end"}]
    /\ try \in [Client -> 0..NITERS]
    /\ \A c \in Client : inbox[c] <= try[c]
    /\ Range(backlog) \cap Range(owner) = {}
    /\ \A c \in Client : at[c] = "connect" => ~Connected(c)
    /\ ~listening => backlog = <<>>

(* The server over a Unix socket has the connection it serves and no other. *)
UdsInv ==
    /\ serving \in Fd \cup {NULL}
    /\ Open = IF listening THEN {serving} \ {NULL} ELSE {}

(* Each descriptor of the server over TCP is in the queue or with a worker. *)
TcpInv ==
    /\ Tcp!TcpOK
    /\ \A v, w \in Worker : serving[v] = serving[w] /\ serving[v] # NULL => v = w
    /\ Range(accepted) \cap Range(serving) = {}
    /\ Open = Range(accepted) \cup (Range(serving) \ {NULL})

(* The table of poll has the open descriptors, each in one slot.            *)
PollInv ==
    /\ Poll!PollOK
    /\ \A s, t \in 1..nclients-1 : clients[s].fd = clients[t].fd => s = t
    /\ Open = {clients[s].fd : s \in 1..nclients-1}
    /\ pc = "process" => nready > 0
    /\ pc = "scan" => i > 0

(* The array of select has them, and the set has them and the listen        *)
(* socket; the clients that select reported and that process has not come   *)
(* to yet are still readable.                                               *)
SelectInv ==
    /\ Select!SelectOK
    /\ \A s, t \in 0..nclients-1 : clients[s] = clients[t] => s = t
    /\ Open = {clients[s] : s \in 0..nclients-1}
    /\ allset = Open \cup {listenfd}
    /\ pc = "process" =>
        /\ nready > 0
        /\ rset \subseteq allset
        /\ \A f \in rset \ {listenfd} : Readable(f)
    /\ pc = "scan" =>
        \A f \in rset, s \in 0..nclients-1 : s >= i /\ clients[s] = f => Readable(f)

(* The kernel's set has the open descriptors, and the listen socket and the *)
(* standard input until the server is told to terminate.                    *)
EpollInv ==
    /\ Epoll!EpollOK
    /\ interest = Open \cup IF listening THEN {listenfd, 0} ELSE {}
    /\ nclients = Cardinality(interest)
    /\ pc # "process" => batch = {}
    /\ \A f \in batch \cap Fd : Readable(f)
    /\ 0 \in batch => 0 \in interest

(* Once the server has ended. *)
NobodyIsLeft == pc = "end" => interest = {}

(* The registered handles are those of the open descriptors, except the     *)
(* descriptors ah_close left open.                                          *)
LoopInv ==
    /\ Loop!LoopOK
    /\ listening
    /\ handles[listenfd] = "on_new_connection"
    /\ \A f \in Fd : handles[f] # NULL => f \in Open
    /\ \A f \in Open : handles[f] # NULL \/ AtEnd(f)
    /\ nclients = Cardinality(Loop!Registered)
    /\ pc = "wait" => batch = {}
    /\ \A f \in batch : f \in Loop!Registered /\ Ready(f)

(* Each open descriptor has one handle that is not closing, and conversely. *)
UvInv ==
    /\ Uv!UvOK
    /\ listening =>
        /\ \A a, b \in Fd : Uv!Active(a) /\ Uv!Active(b) /\ handle[a] = handle[b] => a = b
        /\ {handle[a] : a \in {b \in Fd : Uv!Active(b)}} = {owner[f] : f \in Open}

(* A request that a client waits for is in its connection, in the pool, or  *)
(* answered: there are no more of them than clients that wait.              *)
Inboxes == {m \in Client \X (1..NITERS) : m[2] <= inbox[m[1]]}
Answers == {m \in Client \X (1..Cardinality(Client)) : m[2] <= replies[m[1]]}
Waiting == {c \in Client : at[c] \in {"read", "end"}}

FewRequests ==
    /\ work \subseteq UvPool!Request /\ IsFiniteSet(work)
    /\ done \subseteq UvPool!Request /\ IsFiniteSet(done)
    /\ \A c \in Client : replies[c] <= Cardinality(Client)
    /\ Cardinality(Inboxes) + Cardinality(Answers) + Cardinality(work) + Cardinality(done)
        <= Cardinality(Waiting)

UvPoolInv == UvInv /\ FewRequests

(* The inductive invariant. *)
Inv ==
    /\ kind \in Kind
    /\ SockInv
    /\ kind # "uvpool" => OneUnderWay
    /\ kind = "uds" => UdsInv
    /\ kind = "tcp" => TcpInv /\ Tcp!NobodySleepsOverWork
    /\ kind = "poll" => PollInv
    /\ kind = "select" => SelectInv
    /\ kind = "epoll" => EpollInv /\ NobodyIsLeft
    /\ kind = "loop" => LoopInv
    /\ kind = "uv" => UvInv /\ listening
    /\ kind = "uvpool" => UvPoolInv
-----------------------------------------------------------------------------
(* Sequences without repetitions, and cardinalities.                        *)

(* The members of a sequence after its first are those of its tail. *)
LEMMA TailOfInjective ==
    ASSUME NEW S, NEW q \in Seq(S), IsInjective(q), q # <<>>
    PROVE  /\ Tail(q) \in Seq(S) /\ IsInjective(Tail(q))
           /\ Head(q) \in Range(q) /\ Head(q) \in S
           /\ Range(Tail(q)) = Range(q) \ {Head(q)}
           /\ Len(q) = Len(Tail(q)) + 1 /\ Len(Tail(q)) \in Nat
<1>1. /\ Tail(q) \in Seq(S) /\ Len(Tail(q)) = Len(q) - 1 /\ Len(q) \in Nat \ {0}
      /\ Head(q) = q[1] /\ Head(q) \in S
      /\ \A m \in 1..Len(q)-1 : Tail(q)[m] = q[m+1]
  BY HeadTailProperties, EmptySeq
<1>2. DOMAIN q = 1..Len(q) /\ DOMAIN Tail(q) = 1..Len(q)-1
  BY <1>1, LenProperties
<1>3. IsInjective(Tail(q))
  BY <1>1, <1>2 DEF IsInjective
<1>4. Head(q) \in Range(q)
  BY <1>1, <1>2 DEF Range
<1>5. \A x \in Range(q) : x # Head(q) => x \in Range(Tail(q))
  <2> SUFFICES ASSUME NEW m \in 1..Len(q), q[m] # q[1] PROVE q[m] \in Range(Tail(q))
    BY <1>1, <1>2 DEF Range
  <2> m-1 \in 1..Len(q)-1 /\ Tail(q)[m-1] = q[m]
    BY <1>1
  <2> QED BY <1>2 DEF Range
<1>6. \A x \in Range(Tail(q)) : x \in Range(q) /\ x # Head(q)
  <2> SUFFICES ASSUME NEW m \in 1..Len(q)-1 PROVE q[m+1] \in Range(q) /\ q[m+1] # q[1]
    BY <1>1, <1>2 DEF Range
  <2> m+1 \in 1..Len(q) /\ 1 \in 1..Len(q) /\ m+1 # 1
    BY <1>1
  <2> QED BY <1>2 DEF Range, IsInjective
<1> QED BY <1>1, <1>3, <1>4, <1>5, <1>6

(* One more member at the end. *)
LEMMA AppendOfInjective ==
    ASSUME NEW S, NEW q \in Seq(S), IsInjective(q), NEW t \in S, t \notin Range(q)
    PROVE  /\ Append(q, t) \in Seq(S) /\ IsInjective(Append(q, t))
           /\ Range(Append(q, t)) = Range(q) \cup {t}
           /\ Append(q, t) # <<>>
<1>1. /\ Append(q, t) \in Seq(S) /\ Len(q) \in Nat /\ Len(Append(q, t)) = Len(q) + 1
      /\ DOMAIN q = 1..Len(q) /\ DOMAIN Append(q, t) = 1..Len(q)+1
      /\ \A m \in 1..Len(q)+1 : Append(q, t)[m] = IF m <= Len(q) THEN q[m] ELSE t
  BY LenProperties, AppendProperties
<1>2. \A m \in 1..Len(q) : q[m] # t
  BY <1>1 DEF Range
<1>3. IsInjective(Append(q, t))
  BY <1>1, <1>2 DEF IsInjective
<1>4. \A x : x \in Range(Append(q, t)) <=> x \in Range(q) \cup {t}
  <2>1. ASSUME NEW m \in 1..Len(q)+1 PROVE Append(q, t)[m] \in Range(q) \cup {t}
    BY <1>1 DEF Range
  <2>2. ASSUME NEW m \in 1..Len(q) PROVE q[m] \in Range(Append(q, t))
    <3> m \in 1..Len(q)+1 /\ Append(q, t)[m] = q[m]
      BY <1>1
    <3> QED BY <1>1 DEF Range
  <2>3. t \in Range(Append(q, t))
    <3> Len(q)+1 \in 1..Len(q)+1 /\ Append(q, t)[Len(q)+1] = t
      BY <1>1
    <3> QED BY <1>1 DEF Range
  <2> QED BY <1>1, <2>1, <2>2, <2>3 DEF Range
<1>5. Append(q, t) # <<>>
  BY <1>1, EmptySeq
<1> QED BY <1>1, <1>3, <1>4, <1>5

(* The empty sequence. *)
LEMMA Empty == IsInjective(<<>>) /\ Range(<<>>) = {} /\ \A S : <<>> \in Seq(S)
BY DEF IsInjective, Range

(* A set and its image under an injection have as many elements. *)
LEMMA SameSize ==
    ASSUME NEW S, NEW T, NEW f \in [S -> T], \A x, y \in S : f[x] = f[y] => x = y,
           \A y \in T : \E x \in S : f[x] = y, IsFiniteSet(S) \/ IsFiniteSet(T)
    PROVE  IsFiniteSet(S) /\ IsFiniteSet(T) /\ Cardinality(S) = Cardinality(T)
<1>1. f \in Injection(S, T) /\ f \in Surjection(S, T)
  BY DEF Injection, Surjection, IsInjective
<1>2. CASE IsFiniteSet(S)
  BY <1>1, <1>2, FS_Surjection
<1>3. CASE IsFiniteSet(T)
  BY <1>1, <1>3, FS_Injection
<1> QED BY <1>2, <1>3

(* A sequence without repetitions is as long as it has members. *)
LEMMA SizeOfInjective ==
    ASSUME NEW S, NEW q \in Seq(S), IsInjective(q)
    PROVE  /\ IsFiniteSet(Range(q)) /\ Cardinality(Range(q)) = Len(q) /\ Len(q) \in Nat
           /\ Range(q) \subseteq S
<1>1. Len(q) \in Nat /\ DOMAIN q = 1..Len(q) /\ q \in [1..Len(q) -> S]
  BY LenProperties
<1>2. /\ q \in [1..Len(q) -> Range(q)] /\ Range(q) \subseteq S
      /\ \A y \in Range(q) : \E x \in 1..Len(q) : q[x] = y
      /\ \A x, y \in 1..Len(q) : q[x] = q[y] => x = y
  BY <1>1 DEF Range, IsInjective
<1>3. IsFiniteSet(1..Len(q)) /\ Cardinality(1..Len(q)) = Len(q)
  BY <1>1, FS_Interval
<1>4. IsFiniteSet(Range(q)) /\ Cardinality(1..Len(q)) = Cardinality(Range(q))
  <2> DEFINE D == 1..Len(q)  R == Range(q)
  <2>1. /\ q \in [D -> R] /\ IsFiniteSet(D)
        /\ \A y \in R : \E x \in D : q[x] = y
        /\ \A x, y \in D : q[x] = q[y] => x = y
    BY <1>2, <1>3
  <2> HIDE DEF D, R
  <2>2. IsFiniteSet(R) /\ Cardinality(D) = Cardinality(R)
    BY ONLY <2>1, SameSize
  <2> QED BY <2>2 DEF D, R
<1> QED BY <1>1, <1>2, <1>3, <1>4

(* One member more, and one less. *)
LEMMA OneMore ==
    ASSUME NEW S, IsFiniteSet(S), NEW x
    PROVE  /\ IsFiniteSet(S \cup {x}) /\ Cardinality(S) \in Nat /\ Cardinality(S \cup {x}) \in Nat
           /\ Cardinality(S \cup {x}) <= Cardinality(S) + 1
           /\ x \notin S => Cardinality(S \cup {x}) = Cardinality(S) + 1
<1>1. /\ IsFiniteSet(S \cup {x}) /\ Cardinality(S) \in Nat /\ Cardinality(S \cup {x}) \in Nat
      /\ Cardinality(S \cup {x}) = IF x \in S THEN Cardinality(S) ELSE Cardinality(S) + 1
  BY FS_AddElement, FS_CardinalityType
<1> QED BY <1>1

LEMMA OneLess ==
    ASSUME NEW S, IsFiniteSet(S), NEW x \in S
    PROVE  /\ IsFiniteSet(S \ {x}) /\ Cardinality(S) \in Nat /\ Cardinality(S \ {x}) \in Nat
           /\ Cardinality(S \ {x}) = Cardinality(S) - 1
BY FS_RemoveElement, FS_CardinalityType

LessThan == {ss \in Nat \X Nat : ss[1] < ss[2]}

(* A set of natural numbers that is not empty has a smallest element. *)
LEMMA Smallest ==
    ASSUME NEW S, S \subseteq Nat, S # {}
    PROVE  \E m \in S : \A n \in S : m <= n
<1>1. IsWellFoundedOn(LessThan, Nat)
  BY NatLessThanWellFounded, Zenon DEF OpToRel, LessThan
<1>2. PICK m \in S : \A n \in S : ~(<<n, m>> \in LessThan)
  BY <1>1, WFMin
<1>3. ASSUME NEW n \in S PROVE m <= n
  <2> m \in Nat /\ n \in Nat /\ ~(<<n, m>> \in LessThan)
    BY <1>2
  <2> QED BY DEF LessThan
<1> QED BY <1>3

-----------------------------------------------------------------------------
(* What each step does to the sockets.                                      *)

(* The connections of the descriptors in S are as readable as they were. *)
Steady(S) == \A f \in S : (Readable(f) => Readable(f)') /\ (AtEnd(f) => AtEnd(f)')

ReadyStays == /\ listening' = listening /\ Open' = Open /\ owner' = owner
              /\ backlog # <<>> => backlog' # <<>>
              /\ Steady(Open)

(* What the clients do: one of them connects, goes on or is killed. *)
ClientMoves == \E c \in Client : Connects(c) \/ ClientStep(c) \/ Killed(c)

(* The open descriptors. *)
LEMMA OpenDescriptors ==
    ASSUME SockInv
    PROVE  /\ Open \subseteq Fd /\ IsFiniteSet(Open) /\ Cardinality(Open) \in Nat
           /\ \A f \in Open : owner[f] \in Client /\ owner[f] # NULL
           /\ 0 \notin Open /\ listenfd \notin Open /\ NULL \notin Open
<1>1. Open \subseteq Fd
  BY DEF Open
<1>2. IsFiniteSet(Fd) /\ NULL \notin Fd /\ 0 \notin Fd /\ listenfd \notin Fd
  BY SocketAssumption
<1>3. \A f \in Open : owner[f] \in Client /\ owner[f] # NULL
  BY DEF Open, SockInv
<1>4. IsFiniteSet(Open)
  BY <1>1, <1>2, FS_Subset
<1> QED BY <1>1, <1>2, <1>3, <1>4, FS_CardinalityType

(* While a connection waits there are fewer open descriptors than clients,  *)
(* and so one that is free: accept finds the lowest one.                    *)
LEMMA FreeFdIsFree ==
    ASSUME SockInv, backlog # <<>>
    PROVE  /\ FreeFd \in Fd /\ FreeFd \notin Open /\ FreeFd \in Nat
           /\ \A g \in Fd \ Open : FreeFd <= g
           /\ Head(backlog) \in Client /\ Head(backlog) \notin Range(owner)
<1> DEFINE h == Head(backlog)
<1>1. h \in Client /\ h \in Range(backlog) /\ h \notin Range(owner)
  BY TailOfInjective DEF SockInv
<1>2. Cardinality(Open) < Cardinality(Fd)
  <2> DEFINE rest == Client \ {h}
             f == [x \in Open |-> owner[x]]
  <2>1. IsFiniteSet(rest) /\ Cardinality(rest) = Cardinality(Client) - 1
    BY <1>1, SocketAssumption, FS_RemoveElement
  <2>2. f \in Injection(Open, rest)
    <3>1. \A x \in Open : owner[x] \in Range(owner)
      BY DEF SockInv, Open, Range
    <3>2. f \in [Open -> rest]
      BY <3>1, <1>1, OpenDescriptors
    <3>3. IsInjective(f)
      BY DEF IsInjective, SockInv
    <3> QED BY <3>2, <3>3 DEF Injection
  <2>3. Cardinality(Open) <= Cardinality(rest)
    BY <2>1, <2>2, FS_Injection
  <2> HIDE DEF rest, f
  <2>4. /\ Cardinality(Open) \in Nat /\ Cardinality(Client) \in Nat
        /\ Cardinality(Fd) \in Nat /\ Cardinality(Fd) >= Cardinality(Client)
    BY OpenDescriptors, SocketAssumption, FS_CardinalityType
  <2> QED BY <2>1, <2>3, <2>4
<1>3. Fd \ Open # {} /\ Fd \ Open \subseteq Nat
  <2>1. Cardinality(Open) \in Nat /\ Open \subseteq Fd
    BY OpenDescriptors
  <2>2. Open # Fd
    BY <1>2, <2>1
  <2> QED BY <2>1, <2>2, SocketAssumption
<1>4. \E f \in Fd \ Open : \A g \in Fd \ Open : f <= g
  BY <1>3, Smallest
<1>5. FreeFd \in Fd \ Open /\ \A g \in Fd \ Open : FreeFd <= g
  BY <1>4 DEF FreeFd
<1> QED BY <1>1, <1>3, <1>5

(* A connection is accepted. *)
LEMMA AcceptEffect ==
    ASSUME SockInv, accept(FreeFd)
    PROVE  /\ SockInv'
           /\ FreeFd \in Fd /\ FreeFd \notin Open /\ FreeFd \in Nat
           /\ Open' = Open \cup {FreeFd} /\ Steady(Open)
           /\ \A f \in Open : owner'[f] = owner[f]
           /\ owner'[FreeFd] = Head(backlog) /\ Head(backlog) \in Client
           /\ \A f \in Open : owner[f] # Head(backlog)
           /\ listening' = listening /\ listening
           /\ UNCHANGED <<inbox, replies, at, try>>
           /\ OneUnderWay => OneUnderWay'
<1> DEFINE h == Head(backlog)  d == FreeFd
<1>1. /\ backlog # <<>> /\ backlog' = Tail(backlog) /\ owner' = [owner EXCEPT ![d] = h]
      /\ UNCHANGED <<listening, inbox, replies, at, try>>
  BY DEF accept
<1>2. d \in Fd /\ d \notin Open /\ d \in Nat /\ h \in Client /\ h \notin Range(owner)
  BY <1>1, FreeFdIsFree
<1>3. /\ Tail(backlog) \in Seq(Client) /\ IsInjective(Tail(backlog))
      /\ h \in Range(backlog) /\ Range(Tail(backlog)) = Range(backlog) \ {h}
  BY <1>1, TailOfInjective DEF SockInv
<1> HIDE DEF h, d
<1>4. /\ owner \in [Fd -> Client \cup {NULL}] /\ owner' \in [Fd -> Client \cup {NULL}]
      /\ \A f \in Fd : owner'[f] = IF f = d THEN h ELSE owner[f]
      /\ owner[d] = NULL /\ h # NULL
  BY <1>1, <1>2, SocketAssumption DEF SockInv, Open
<1>5. Open' = Open \cup {d}
  BY <1>2, <1>4 DEF Open
<1>6. \A f \in Open : f \in Fd /\ owner[f] # h /\ owner'[f] = owner[f]
  BY <1>2, <1>4 DEF Open, Range
<1>7. owner'[d] = h
  BY <1>2, <1>4
<1>8. Range(owner') \subseteq Range(owner) \cup {h} /\ Range(owner) \subseteq Range(owner') \cup {NULL}
  BY <1>2, <1>4 DEF Range
<1>9. SockInv'
  <2>1. \A f, g \in Open' : owner'[f] = owner'[g] => f = g
    BY <1>5, <1>6, <1>7 DEF SockInv
  <2>2. Range(backlog') \cap Range(owner') = {}
    BY <1>1, <1>3, <1>8 DEF SockInv
  <2>3. \A c \in Client : at[c] = "connect" => c \notin Range(backlog') \cup Range(owner')
    <3> SUFFICES ASSUME NEW c \in Client, at[c] = "connect"
                 PROVE  c \notin Range(backlog') \cup Range(owner')
      OBVIOUS
    <3> c \notin Range(backlog) /\ c \notin Range(owner)
      BY DEF SockInv, Connected
    <3> QED BY <1>1, <1>3, <1>8
  <2>4. listening
    BY <1>1 DEF SockInv
  <2>5. /\ backlog' \in Seq(Client) /\ IsInjective(backlog')
        /\ listening' = TRUE /\ inbox' = inbox /\ replies' = replies /\ at' = at /\ try' = try
    BY <1>1, <1>3, <2>4
  <2>6. owner' \in [Fd -> Client \cup {NULL}]
    BY <1>4
  <2> QED BY <2>1, <2>2, <2>3, <2>5, <2>6 DEF SockInv, Connected
<1>10. Steady(Open)
  BY <1>1, <1>5, <1>6 DEF Steady, Readable, AtEnd
<1>11. listening
  BY <1>1 DEF SockInv
<1> QED BY <1>1, <1>2, <1>5, <1>6, <1>7, <1>9, <1>10, <1>11 DEF h, d, OneUnderWay

(* A connection is accepted and closed. *)
LEMMA RefuseEffect ==
    ASSUME SockInv, AcceptAndClose
    PROVE  /\ SockInv' /\ Open' = Open /\ owner' = owner /\ Steady(Open)
           /\ listening' = listening
           /\ UNCHANGED <<inbox, replies, at, try>>
           /\ OneUnderWay => OneUnderWay'
<1>1. /\ backlog # <<>> /\ backlog' = Tail(backlog)
      /\ UNCHANGED <<listening, owner, inbox, replies, at, try>>
  BY DEF AcceptAndClose
<1>2. /\ Tail(backlog) \in Seq(Client) /\ IsInjective(Tail(backlog))
      /\ Range(Tail(backlog)) = Range(backlog) \ {Head(backlog)}
  BY <1>1, TailOfInjective DEF SockInv
<1>3. Open' = Open
  BY <1>1 DEF Open
<1>4. SockInv'
  BY <1>1, <1>2, <1>3 DEF SockInv, Connected
<1> QED BY <1>1, <1>3, <1>4 DEF Steady, Readable, AtEnd, OneUnderWay

(* A request is read and answered. *)
LEMMA EchoEffect ==
    ASSUME SockInv, NEW f, ReadAndEcho(f)
    PROVE  /\ SockInv' /\ Open' = Open /\ owner' = owner /\ Steady(Open \ {f})
           /\ f \in Open /\ Readable(f) /\ ~AtEnd(f)
           /\ UNCHANGED <<listening, backlog, at, try>>
           /\ OneUnderWay => OneUnderWay'
<1> DEFINE c == owner[f]
<1>1. /\ f \in Open /\ inbox[c] > 0 /\ c \in Client
      /\ inbox' = [inbox EXCEPT ![c] = @ - 1]
      /\ replies' = IF at[c] = "end" THEN replies ELSE [replies EXCEPT ![c] = @ + 1]
      /\ UNCHANGED <<listening, backlog, owner, at, try>>
  BY OpenDescriptors DEF ReadAndEcho
<1>2. Open' = Open
  BY <1>1 DEF Open
<1> HIDE DEF c
<1>3. /\ inbox \in [Client -> Nat] /\ replies \in [Client -> Nat]
      /\ inbox' \in [Client -> Nat] /\ replies' \in [Client -> Nat]
      /\ \A x \in Client : inbox'[x] = IF x = c THEN inbox[x] - 1 ELSE inbox[x]
      /\ \A x \in Client : replies'[x] = replies[x] \/ (x = c /\ replies'[x] = replies[x] + 1)
  <2>1. inbox \in [Client -> Nat] /\ replies \in [Client -> Nat]
    BY DEF SockInv
  <2>2. inbox[c] \in Nat /\ inbox[c] - 1 \in Nat /\ replies[c] + 1 \in Nat
    BY <1>1, <2>1
  <2>3. /\ inbox' \in [Client -> Nat]
        /\ \A x \in Client : inbox'[x] = IF x = c THEN inbox[x] - 1 ELSE inbox[x]
    BY <1>1, <2>1, <2>2
  <2>4. /\ replies' \in [Client -> Nat]
        /\ \A x \in Client : replies'[x] = replies[x] \/ (x = c /\ replies'[x] = replies[x] + 1)
    BY <1>1, <2>1, <2>2
  <2> QED BY <2>1, <2>3, <2>4
<1>4. SockInv'
  <2>1. \A x \in Client : inbox[x] \in Nat /\ try[x] \in Nat /\ inbox[x] <= try[x]
    BY SocketAssumption DEF SockInv
  <2>2. \A x \in Client : inbox'[x] <= try[x]
    BY <1>3, <2>1
  <2> QED BY <1>1, <1>2, <1>3, <2>2 DEF SockInv, Connected
<1>5. \A g \in Open \ {f} : owner[g] \in Client /\ owner[g] # c
  BY <1>1, OpenDescriptors DEF SockInv, c
<1>6. Steady(Open \ {f})
  BY <1>1, <1>2, <1>3, <1>5 DEF Steady, Readable, AtEnd
<1>7. Readable(f) /\ ~AtEnd(f)
  BY <1>1, <1>3 DEF Readable, AtEnd, c
<1>8. OneUnderWay => OneUnderWay'
  BY <1>1, <1>3 DEF OneUnderWay
<1> QED BY <1>1, <1>2, <1>4, <1>6, <1>7, <1>8

(* A descriptor is closed. *)
LEMMA CloseEffect ==
    ASSUME SockInv, NEW f \in Open, Close(f)
    PROVE  /\ SockInv' /\ Open' = Open \ {f} /\ Steady(Open \ {f})
           /\ \A g \in Open \ {f} : owner'[g] = owner[g]
           /\ UNCHANGED <<listening, backlog, inbox, replies, at, try>>
           /\ OneUnderWay => OneUnderWay'
<1>1. /\ owner' = [owner EXCEPT ![f] = NULL] /\ f \in Fd
      /\ UNCHANGED <<listening, backlog, inbox, replies, at, try>>
  BY OpenDescriptors DEF Close
<1>2. /\ owner \in [Fd -> Client \cup {NULL}] /\ owner' \in [Fd -> Client \cup {NULL}]
      /\ \A g \in Fd : owner'[g] = IF g = f THEN NULL ELSE owner[g]
  BY <1>1 DEF SockInv
<1>3. Open' = Open \ {f} /\ \A g \in Open \ {f} : owner'[g] = owner[g]
  BY <1>1, <1>2 DEF Open
<1>4. Range(owner') \subseteq Range(owner) \cup {NULL}
  BY <1>2 DEF Range
<1>5. SockInv'
  <2>1. NULL \notin Range(backlog) /\ NULL \notin Client
    BY SocketAssumption, SizeOfInjective DEF SockInv
  <2>2. Range(backlog') \cap Range(owner') = {}
    BY <1>1, <1>4, <2>1 DEF SockInv
  <2>3. \A c \in Client : at[c] = "connect" => c \notin Range(backlog') \cup Range(owner')
    BY <1>1, <1>4, <2>1 DEF SockInv, Connected
  <2>4. \A g, h \in Open' : owner'[g] = owner'[h] => g = h
    BY <1>3 DEF SockInv
  <2> QED BY <1>1, <1>2, <2>2, <2>3, <2>4 DEF SockInv, Connected
<1>6. Steady(Open \ {f})
  BY <1>1, <1>3 DEF Steady, Readable, AtEnd
<1> QED BY <1>1, <1>3, <1>5, <1>6 DEF OneUnderWay

(* The process dies. *)
LEMMA DeathEffect ==
    ASSUME SockInv, ProcessDies
    PROVE  /\ SockInv' /\ Open' = {} /\ listening' = FALSE
           /\ UNCHANGED <<inbox, replies, at, try>>
           /\ (OneUnderWay => OneUnderWay')
<1>1. /\ listening' = FALSE /\ backlog' = <<>> /\ owner' = [f \in Fd |-> NULL]
      /\ UNCHANGED <<inbox, replies, at, try>>
  BY DEF ProcessDies
<1>2. Open' = {}
  BY <1>1 DEF Open
<1>3. Range(owner') \subseteq {NULL} /\ NULL \notin Client
  BY <1>1, SocketAssumption DEF Range
<1>4. SockInv'
  BY <1>1, <1>2, <1>3, Empty DEF SockInv, Connected
<1> QED BY <1>1, <1>2, <1>4 DEF OneUnderWay

(* The listen socket is closed. *)
LEMMA DeafEffect ==
    ASSUME SockInv, listening' = FALSE, backlog' = <<>>,
           UNCHANGED <<owner, inbox, replies, at, try>>
    PROVE  /\ SockInv' /\ Open' = Open /\ Steady(Open)
           /\ (OneUnderWay => OneUnderWay')
<1>1. Open' = Open
  BY DEF Open
<1>2. SockInv'
  BY <1>1, Empty DEF SockInv, Connected
<1> QED BY <1>1, <1>2 DEF Steady, Readable, AtEnd, OneUnderWay

(* Nothing happens to the sockets. *)
LEMMA StillEffect ==
    ASSUME SockInv, UNCHANGED sockVars
    PROVE  SockInv' /\ ReadyStays /\ (OneUnderWay => OneUnderWay')
<1>1. UNCHANGED <<listening, backlog, owner, inbox, replies, at, try>>
  BY DEF sockVars
<1>2. Open' = Open
  BY <1>1 DEF Open
<1>3. SockInv'
  BY <1>1, <1>2 DEF SockInv, Connected
<1> QED BY <1>1, <1>2, <1>3 DEF ReadyStays, Steady, Readable, AtEnd, OneUnderWay

(* A client connects, or finds that it cannot. *)
LEMMA ConnectEffect ==
    ASSUME SockInv, NEW c \in Client, Connects(c)
    PROVE  SockInv' /\ ReadyStays /\ (OneUnderWay => OneUnderWay')
<1>1. /\ at[c] = "connect" /\ c \notin Range(backlog) /\ c \notin Range(owner)
      /\ UNCHANGED <<listening, owner, inbox, replies, try>>
  BY DEF Connects, SockInv, Connected
<1>2. Open' = Open /\ \A f \in Open : owner[f] \in Client /\ owner[f] # c
  BY <1>1, OpenDescriptors DEF Open, SockInv, Range
<1>3. CASE backlog' = Append(backlog, c) /\ listening /\ at' = [at EXCEPT ![c] = "write"]
  <2>1. /\ backlog' \in Seq(Client) /\ IsInjective(backlog') /\ backlog' # <<>>
        /\ Range(backlog') = Range(backlog) \cup {c}
    BY <1>1, <1>3, AppendOfInjective DEF SockInv
  <2>2. /\ at' \in [Client -> {"connect", "write", "read", "end"}]
        /\ at'[c] = "write" /\ \A x \in Client \ {c} : at'[x] = at[x]
    BY <1>3 DEF SockInv
  <2>3. SockInv'
    BY <1>1, <1>2, <1>3, <2>1, <2>2 DEF SockInv, Connected
  <2>4. ReadyStays
    BY <1>1, <1>2, <2>1, <2>2 DEF ReadyStays, Steady, Readable, AtEnd
  <2>5. OneUnderWay => OneUnderWay'
    BY <1>1, <2>2 DEF OneUnderWay
  <2> QED BY <2>3, <2>4, <2>5
<1>4. CASE backlog' = backlog /\ at' = [at EXCEPT ![c] = "end"]
  <2>2. /\ at' \in [Client -> {"connect", "write", "read", "end"}]
        /\ at'[c] = "end" /\ \A x \in Client \ {c} : at'[x] = at[x]
    BY <1>4 DEF SockInv
  <2>3. SockInv'
    BY <1>1, <1>2, <1>4, <2>2 DEF SockInv, Connected
  <2>4. ReadyStays
    BY <1>1, <1>2, <1>4, <2>2 DEF ReadyStays, Steady, Readable, AtEnd
  <2>5. OneUnderWay => OneUnderWay'
    <3> inbox \in [Client -> Nat] /\ replies \in [Client -> Nat]
      BY DEF SockInv
    <3> QED BY <1>1, <2>2 DEF OneUnderWay
  <2> QED BY <2>3, <2>4, <2>5
<1> QED BY <1>3, <1>4 DEF Connects

(* A client sends a request. *)
LEMMA WriteEffect ==
    ASSUME SockInv, NEW c \in Client, Writes(c)
    PROVE  SockInv' /\ ReadyStays /\ (OneUnderWay => OneUnderWay')
<1>1. /\ at[c] = "write" /\ try[c] < NITERS /\ try' = [try EXCEPT ![c] = @ + 1]
      /\ inbox' = inbox \/ inbox' = [inbox EXCEPT ![c] = @ + 1]
      /\ at' = [at EXCEPT ![c] = "read"]
      /\ UNCHANGED <<listening, backlog, owner, replies>>
  BY DEF Writes
<1>2. Open' = Open
  BY <1>1 DEF Open
<1>3. /\ \A x \in Client : inbox[x] \in Nat /\ try[x] \in Nat /\ inbox[x] <= try[x]
      /\ NITERS \in Nat
  BY SocketAssumption DEF SockInv
<1>4. /\ at' \in [Client -> {"connect", "write", "read", "end"}]
      /\ at'[c] = "read" /\ \A x \in Client \ {c} : at'[x] = at[x]
      /\ try' \in [Client -> 0..NITERS] /\ try'[c] = try[c] + 1
      /\ \A x \in Client \ {c} : try'[x] = try[x]
      /\ inbox' \in [Client -> Nat] /\ inbox'[c] \in {inbox[c], inbox[c] + 1}
      /\ \A x \in Client \ {c} : inbox'[x] = inbox[x]
  <2>1. /\ at \in [Client -> {"connect", "write", "read", "end"}]
        /\ try \in [Client -> 0..NITERS] /\ inbox \in [Client -> Nat]
    BY DEF SockInv
  <2> QED BY <1>1, <1>3, <2>1
<1>5. \A x \in Client : inbox'[x] <= try'[x]
  BY <1>3, <1>4
<1>6. SockInv'
  <2>1. \A x \in Client : at'[x] = "connect" => x \notin Range(backlog) \cup Range(owner)
    <3> \A x \in Client : at'[x] = "connect" => at[x] = "connect"
      BY <1>1, <1>4
    <3> QED BY DEF SockInv, Connected
  <2>2. /\ listening' = listening /\ backlog' = backlog /\ owner' = owner /\ replies' = replies
        /\ Open' = Open
    BY <1>1, <1>2
  <2> QED BY <1>4, <1>5, <2>1, <2>2 DEF SockInv, Connected
<1>7. ReadyStays
  <2> \A f \in Open : owner[f] \in Client
    BY OpenDescriptors
  <2> QED BY <1>1, <1>2, <1>3, <1>4 DEF ReadyStays, Steady, Readable, AtEnd
<1>8. OneUnderWay => OneUnderWay'
  <2> replies \in [Client -> Nat]
    BY DEF SockInv
  <2> QED BY <1>1, <1>3, <1>4 DEF OneUnderWay
<1> QED BY <1>6, <1>7, <1>8

(* Any other step of a client leaves its requests alone. *)
LEMMA OtherClientEffect ==
    ASSUME SockInv, NEW c \in Client, Reads(c) \/ Ends(c) \/ Killed(c)
    PROVE  SockInv' /\ ReadyStays /\ (OneUnderWay => OneUnderWay')
<1>1. /\ at[c] \in {"read", "write"}
      /\ UNCHANGED <<listening, backlog, owner, inbox, try>>
      /\ \/ /\ at[c] = "read" /\ replies[c] > 0 /\ replies' = [replies EXCEPT ![c] = @ - 1]
            /\ at' = [at EXCEPT ![c] = "write"]
         \/ at' = [at EXCEPT ![c] = "end"] /\ replies' = replies
  BY DEF Reads, Ends, Killed
<1>2. Open' = Open
  BY <1>1 DEF Open
<1>3. /\ at' \in [Client -> {"connect", "write", "read", "end"}]
      /\ at'[c] \in {"write", "end"} /\ \A x \in Client \ {c} : at'[x] = at[x]
      /\ replies' \in [Client -> Nat]
      /\ \A x \in Client \ {c} : replies'[x] = replies[x]
      /\ replies[c] \in Nat /\ inbox[c] \in Nat
  <2>1. /\ at \in [Client -> {"connect", "write", "read", "end"}]
        /\ replies \in [Client -> Nat] /\ inbox \in [Client -> Nat]
    BY DEF SockInv
  <2>2. CASE replies[c] > 0 /\ replies' = [replies EXCEPT ![c] = @ - 1]
    BY <1>1, <2>1, <2>2
  <2>3. CASE replies' = replies
    BY <1>1, <2>1, <2>3
  <2> QED BY <1>1, <2>2, <2>3
<1>4. SockInv'
  BY <1>1, <1>2, <1>3 DEF SockInv, Connected
<1>5. ReadyStays
  <2> \A f \in Open : owner[f] \in Client
    BY OpenDescriptors
  <2> QED BY <1>1, <1>2, <1>3 DEF ReadyStays, Steady, Readable, AtEnd
<1>6. OneUnderWay => OneUnderWay'
  <2>1. CASE at[c] = "read" /\ at'[c] = "write" /\ replies'[c] = replies[c] - 1
    BY <1>1, <1>3, <2>1 DEF OneUnderWay
  <2>2. CASE at'[c] = "end" /\ replies' = replies
    BY <1>1, <1>3, <2>2 DEF OneUnderWay
  <2> QED BY <1>1, <1>3, <2>1, <2>2 DEF SockInv
<1> QED BY <1>4, <1>5, <1>6

(* Whatever a client does, what the server has found out stays so. *)
LEMMA ClientEffect ==
    ASSUME SockInv, ClientMoves
    PROVE  SockInv' /\ ReadyStays /\ (OneUnderWay => OneUnderWay')
BY ConnectEffect, WriteEffect, OtherClientEffect DEF ClientMoves, ClientStep

-----------------------------------------------------------------------------
(* The server over a Unix socket.                                            *)

(* Its sockets are those of this module. *)
LEMMA UdsSockets ==
    /\ Uds!Open = Open /\ Uds!FreeFd = FreeFd
    /\ Uds!ProcessDies <=> ProcessDies
    /\ \A f : /\ Uds!accept(f) <=> accept(f)
              /\ Uds!ReadAndEcho(f) <=> ReadAndEcho(f)
              /\ Uds!Close(f) <=> Close(f)
<1>1. Uds!Open = Open /\ Uds!FreeFd = FreeFd
  BY DEF Uds!Open, Open, Uds!FreeFd, FreeFd
<1>2. Uds!ProcessDies <=> ProcessDies
  BY DEF Uds!ProcessDies, ProcessDies
<1>3. \A f : Uds!accept(f) <=> accept(f)
  BY <1>1 DEF Uds!accept, accept
<1>4. \A f : Uds!ReadAndEcho(f) <=> ReadAndEcho(f)
  BY <1>1 DEF Uds!ReadAndEcho, ReadAndEcho
<1>5. \A f : Uds!Close(f) <=> Close(f)
  BY <1>1 DEF Uds!Close, Close
<1> QED BY <1>1, <1>2, <1>3, <1>4, <1>5

(* What run and process_connection do. *)
LEMMA UdsActs ==
    ASSUME Uds!ServerStep
    PROVE  \/ serving = NULL /\ accept(FreeFd) /\ serving' = FreeFd
           \/ serving \in Open /\ ReadAndEcho(serving) /\ serving' = serving
           \/ serving \in Open /\ ProcessDies /\ serving' = serving
           \/ serving \in Open /\ Close(serving) /\ serving' = NULL
BY UdsSockets DEF Uds!ServerStep, Uds!run, Uds!process_connection

(* A step of the server. *)
LEMMA UdsKeeps ==
    ASSUME SockInv, OneUnderWay, UdsInv, Uds!ServerStep
    PROVE  SockInv' /\ OneUnderWay' /\ UdsInv'
<1>1. NULL \notin Fd /\ Open \subseteq Fd
  BY SocketAssumption, OpenDescriptors
<1>2. serving \in Fd \cup {NULL} /\ Open = IF listening THEN {serving} \ {NULL} ELSE {}
  BY DEF UdsInv
<1>3. CASE serving = NULL /\ accept(FreeFd) /\ serving' = FreeFd
  BY <1>1, <1>2, <1>3, AcceptEffect DEF UdsInv
<1>4. CASE serving \in Open /\ ReadAndEcho(serving) /\ serving' = serving
  <2> /\ SockInv' /\ OneUnderWay' /\ Open' = Open /\ UNCHANGED <<listening, serving>>
    BY <1>4, EchoEffect
  <2> QED BY <1>2 DEF UdsInv
<1>5. CASE serving \in Open /\ ProcessDies /\ serving' = serving
  BY <1>2, <1>5, DeathEffect DEF UdsInv
<1>6. CASE serving \in Open /\ Close(serving) /\ serving' = NULL
  BY <1>1, <1>2, <1>6, CloseEffect DEF UdsInv
<1> QED BY <1>3, <1>4, <1>5, <1>6, UdsActs

(* A step of a client. *)
LEMMA UdsKept ==
    ASSUME UdsInv, ReadyStays, UNCHANGED serving
    PROVE  UdsInv'
BY DEF UdsInv, ReadyStays

-----------------------------------------------------------------------------
(* The server over TCP with a pool.                                          *)

(* Its sockets are those of this module. *)
LEMMA TcpSockets ==
    /\ Tcp!Open = Open /\ Tcp!FreeFd = FreeFd
    /\ \A f : /\ Tcp!accept(f) <=> accept(f)
              /\ Tcp!ReadAndEcho(f) <=> ReadAndEcho(f)
              /\ Tcp!AtEnd(f) <=> AtEnd(f)
              /\ Tcp!Close(f) <=> Close(f)
<1>1. Tcp!Open = Open /\ Tcp!FreeFd = FreeFd
  BY DEF Tcp!Open, Open, Tcp!FreeFd, FreeFd
<1>2. \A f : Tcp!accept(f) <=> accept(f)
  BY <1>1 DEF Tcp!accept, accept
<1>3. \A f : Tcp!ReadAndEcho(f) <=> ReadAndEcho(f)
  BY <1>1 DEF Tcp!ReadAndEcho, ReadAndEcho
<1>4. \A f : Tcp!AtEnd(f) <=> AtEnd(f)
  BY <1>1 DEF Tcp!AtEnd, AtEnd
<1>5. \A f : Tcp!Close(f) <=> Close(f)
  BY <1>1 DEF Tcp!Close, Close
<1> QED BY <1>1, <1>2, <1>3, <1>4, <1>5

(* What the types of the pool say. *)
LEMMA TcpTypes ==
    Tcp!TcpOK <=> /\ accepted \in Seq(Fd) /\ IsInjective(accepted)
                  /\ serving \in [Worker -> Fd \cup {NULL}]
                  /\ asleep \subseteq {w \in Worker : serving[w] = NULL}
                  /\ signals \in BOOLEAN
BY DEF Tcp!TcpOK, Tcp!IsInjective, IsInjective

(* What main and the workers do. *)
LEMMA TcpActs ==
    ASSUME Tcp!ServerStep \/ Tcp!Spurious, asleep \subseteq Worker
    PROVE  \/ /\ accept(FreeFd) /\ accepted' = Append(accepted, FreeFd) /\ signals' = TRUE
              /\ UNCHANGED <<serving, asleep>>
           \/ /\ asleep' \subseteq asleep /\ signals' \in {FALSE, signals}
              /\ UNCHANGED <<sockVars, accepted, serving>>
           \/ \E w \in Worker :
                /\ serving[w] = NULL /\ asleep' = asleep \cup {w}
                /\ UNCHANGED <<sockVars, accepted, serving, signals>>
           \/ \E w \in Worker :
                /\ serving[w] = NULL /\ w \notin asleep /\ accepted # <<>>
                /\ serving' = [serving EXCEPT ![w] = Head(accepted)]
                /\ accepted' = Tail(accepted)
                /\ UNCHANGED <<sockVars, asleep, signals>>
           \/ \E w \in Worker :
                /\ serving[w] # NULL /\ ReadAndEcho(serving[w])
                /\ UNCHANGED <<serving, accepted, asleep, signals>>
           \/ \E w \in Worker :
                /\ serving[w] # NULL /\ serving[w] \in Open /\ Close(serving[w])
                /\ serving' = [serving EXCEPT ![w] = NULL]
                /\ UNCHANGED <<accepted, asleep, signals>>
<1>1. CASE Tcp!run
  BY <1>1, TcpSockets DEF Tcp!run, Tcp!tp_submit
<1>2. CASE Tcp!SubmitSignals
  BY <1>2 DEF Tcp!SubmitSignals, Tcp!sockVars, sockVars
<1>3. ASSUME NEW w \in Worker, Tcp!WaitsForWork(w)
      PROVE  /\ serving[w] = NULL /\ asleep' = asleep \cup {w}
             /\ UNCHANGED <<sockVars, accepted, serving, signals>>
  BY <1>3 DEF Tcp!WaitsForWork, Tcp!sockVars, sockVars
<1>4. ASSUME NEW w \in Worker, Tcp!TakeWork(w)
      PROVE  /\ serving[w] = NULL /\ w \notin asleep /\ accepted # <<>>
             /\ serving' = [serving EXCEPT ![w] = Head(accepted)]
             /\ accepted' = Tail(accepted)
             /\ UNCHANGED <<sockVars, asleep, signals>>
  BY <1>4 DEF Tcp!TakeWork, Tcp!sockVars, sockVars
<1>5. ASSUME NEW w \in Worker, Tcp!process_connection(w)
      PROVE  /\ serving[w] # NULL /\ UNCHANGED <<accepted, asleep, signals>>
             /\ \/ ReadAndEcho(serving[w]) /\ UNCHANGED serving
                \/ /\ serving[w] \in Open /\ Close(serving[w])
                   /\ serving' = [serving EXCEPT ![w] = NULL]
  BY <1>5, TcpSockets DEF Tcp!process_connection, AtEnd
<1>6. ASSUME NEW w \in asleep, Tcp!SpuriousWakeup(w)
      PROVE  /\ asleep' \subseteq asleep /\ signals' = signals
             /\ UNCHANGED <<sockVars, accepted, serving>>
  BY <1>6 DEF Tcp!SpuriousWakeup, Tcp!sockVars, sockVars
<1> QED BY <1>1, <1>2, <1>3, <1>4, <1>5, <1>6, Zenon DEF Tcp!ServerStep, Tcp!Spurious

(* The descriptors the workers have. *)
Served == Range(serving) \ {NULL}

(* A worker gets or gives back a descriptor. *)
LEMMA WorkerTakes ==
    ASSUME serving \in [Worker -> Fd \cup {NULL}], NEW w \in Worker, NEW f \in Fd \cup {NULL},
           serving' = [serving EXCEPT ![w] = f],
           \A v, u \in Worker : serving[v] = serving[u] /\ serving[v] # NULL => v = u,
           f \notin Served
    PROVE  /\ serving' \in [Worker -> Fd \cup {NULL}]
           /\ \A v, u \in Worker : serving'[v] = serving'[u] /\ serving'[v] # NULL => v = u
           /\ Served' = (Served \ {serving[w]}) \cup ({f} \ {NULL})
           /\ \A v \in Worker \ {w} : serving'[v] = serving[v]
<1>1. /\ serving' \in [Worker -> Fd \cup {NULL}]
      /\ \A v \in Worker : serving'[v] = IF v = w THEN f ELSE serving[v]
  OBVIOUS
<1>2. \A v \in Worker : serving[v] \in Served \cup {NULL}
  BY DEF Served, Range
<1>3. \A v, u \in Worker : serving'[v] = serving'[u] /\ serving'[v] # NULL => v = u
  BY <1>1, <1>2
<1>4. \A x : x \in Served' <=> x \in (Served \ {serving[w]}) \cup ({f} \ {NULL})
  <2>1. \A x : x \in Served <=> x # NULL /\ \E v \in Worker : serving[v] = x
    BY DEF Served, Range
  <2>2. \A x : x \in Served' <=> x # NULL /\ \E v \in Worker : serving'[v] = x
    BY <1>1 DEF Served, Range
  <2>3. ASSUME NEW x PROVE x \in Served' <=> x \in (Served \ {serving[w]}) \cup ({f} \ {NULL})
    BY <1>1, <2>1, <2>2
  <2> QED BY <2>3
<1> QED BY <1>1, <1>3, <1>4

(* A step of the server. *)
LEMMA TcpKeeps ==
    ASSUME SockInv, OneUnderWay, TcpInv, Tcp!ServerStep \/ Tcp!Spurious
    PROVE  SockInv' /\ OneUnderWay' /\ TcpInv'
<1>1. NULL \notin Fd /\ Open \subseteq Fd /\ NULL \notin Open
  BY SocketAssumption, OpenDescriptors
<1>2. /\ accepted \in Seq(Fd) /\ IsInjective(accepted)
      /\ serving \in [Worker -> Fd \cup {NULL}]
      /\ asleep \subseteq {w \in Worker : serving[w] = NULL} /\ asleep \subseteq Worker
      /\ signals \in BOOLEAN
      /\ \A v, w \in Worker : serving[v] = serving[w] /\ serving[v] # NULL => v = w
      /\ Range(accepted) \cap Served = {} /\ Open = Range(accepted) \cup Served
      /\ Range(accepted) \subseteq Fd
  BY TcpTypes, SizeOfInjective DEF TcpInv, Served
<1>3. ASSUME accepted' \in Seq(Fd) /\ IsInjective(accepted'),
             serving' \in [Worker -> Fd \cup {NULL}],
             asleep' \subseteq {w \in Worker : serving'[w] = NULL}, signals' \in BOOLEAN,
             \A v, w \in Worker : serving'[v] = serving'[w] /\ serving'[v] # NULL => v = w,
             Range(accepted') \cap Served' = {}, Open' = Range(accepted') \cup Served'
      PROVE  TcpInv'
  <2>1. NULL \notin Range(accepted')
    BY <1>1, <1>3, SizeOfInjective
  <2>2. Tcp!TcpOK'
    BY <1>3 DEF Tcp!TcpOK, Tcp!IsInjective, IsInjective
  <2> QED BY <1>3, <2>1, <2>2 DEF TcpInv, Served
<1>4. CASE /\ accept(FreeFd) /\ accepted' = Append(accepted, FreeFd) /\ signals' = TRUE
           /\ UNCHANGED <<serving, asleep>>
  <2>1. /\ SockInv' /\ OneUnderWay' /\ FreeFd \in Fd /\ FreeFd \notin Open
        /\ Open' = Open \cup {FreeFd}
    BY <1>4, AcceptEffect
  <2>2. /\ accepted' \in Seq(Fd) /\ IsInjective(accepted')
        /\ Range(accepted') = Range(accepted) \cup {FreeFd}
    BY <1>2, <1>4, <2>1, AppendOfInjective
  <2>3. Served' = Served
    BY <1>4 DEF Served
  <2> QED BY <1>2, <1>3, <1>4, <2>1, <2>2, <2>3
<1>5. CASE /\ asleep' \subseteq asleep /\ signals' \in {FALSE, signals}
           /\ UNCHANGED <<sockVars, accepted, serving>>
  <2> SockInv' /\ OneUnderWay' /\ Open' = Open /\ Served' = Served
    BY <1>5, StillEffect DEF ReadyStays, Served
  <2> QED BY <1>2, <1>3, <1>5
<1>6. ASSUME NEW w \in Worker, serving[w] = NULL, asleep' = asleep \cup {w},
             UNCHANGED <<sockVars, accepted, serving, signals>>
      PROVE  SockInv' /\ OneUnderWay' /\ TcpInv'
  <2> SockInv' /\ OneUnderWay' /\ Open' = Open /\ Served' = Served
    BY <1>6, StillEffect DEF ReadyStays, Served
  <2> QED BY <1>2, <1>3, <1>6
<1>7. ASSUME NEW w \in Worker, serving[w] = NULL, w \notin asleep, accepted # <<>>,
             serving' = [serving EXCEPT ![w] = Head(accepted)], accepted' = Tail(accepted),
             UNCHANGED <<sockVars, asleep, signals>>
      PROVE  SockInv' /\ OneUnderWay' /\ TcpInv'
  <2>1. SockInv' /\ OneUnderWay' /\ Open' = Open
    BY <1>7, StillEffect DEF ReadyStays
  <2>2. /\ accepted' \in Seq(Fd) /\ IsInjective(accepted')
        /\ Head(accepted) \in Range(accepted) /\ Head(accepted) \in Fd
        /\ Range(accepted') = Range(accepted) \ {Head(accepted)}
    BY <1>2, <1>7, TailOfInjective
  <2>3. /\ serving' \in [Worker -> Fd \cup {NULL}]
        /\ \A v, u \in Worker : serving'[v] = serving'[u] /\ serving'[v] # NULL => v = u
        /\ Served' = (Served \ {serving[w]}) \cup ({Head(accepted)} \ {NULL})
        /\ \A v \in Worker \ {w} : serving'[v] = serving[v]
    BY <1>2, <1>7, <2>2, WorkerTakes
  <2>4. Served' = Served \cup {Head(accepted)}
    <3> NULL \notin Served
      BY DEF Served
    <3> QED BY <1>1, <1>7, <2>2, <2>3
  <2> QED BY <1>2, <1>3, <1>7, <2>1, <2>2, <2>3, <2>4
<1>8. ASSUME NEW w \in Worker, serving[w] # NULL, ReadAndEcho(serving[w]),
             UNCHANGED <<serving, accepted, asleep, signals>>
      PROVE  SockInv' /\ OneUnderWay' /\ TcpInv'
  <2> SockInv' /\ OneUnderWay' /\ Open' = Open /\ Served' = Served
    BY <1>8, EchoEffect DEF Served
  <2> QED BY <1>2, <1>3, <1>8
<1>9. ASSUME NEW w \in Worker, serving[w] # NULL, serving[w] \in Open, Close(serving[w]),
             serving' = [serving EXCEPT ![w] = NULL],
             UNCHANGED <<accepted, asleep, signals>>
      PROVE  SockInv' /\ OneUnderWay' /\ TcpInv'
  <2>1. SockInv' /\ OneUnderWay' /\ Open' = Open \ {serving[w]}
    BY <1>9, CloseEffect
  <2>2. NULL \notin Served /\ serving[w] \in Served
    BY <1>2, <1>9 DEF Served, Range
  <2>3. /\ serving' \in [Worker -> Fd \cup {NULL}]
        /\ \A v, u \in Worker : serving'[v] = serving'[u] /\ serving'[v] # NULL => v = u
        /\ Served' = (Served \ {serving[w]}) \cup ({NULL} \ {NULL})
        /\ \A v \in Worker \ {w} : serving'[v] = serving[v]
    BY <1>2, <1>9, <2>2, WorkerTakes
  <2>4. Served' = Served \ {serving[w]}
    BY <2>3
  <2>5. asleep' \subseteq {v \in Worker : serving'[v] = NULL}
    BY <1>2, <1>9, <2>3
  <2> QED BY <1>2, <1>3, <1>9, <2>1, <2>2, <2>3, <2>4, <2>5
<1> QED BY <1>2, <1>4, <1>5, <1>6, <1>7, <1>8, <1>9, TcpActs

(* A step of a client. *)
LEMMA TcpKept ==
    ASSUME TcpInv, ReadyStays, UNCHANGED <<accepted, serving, asleep, signals>>
    PROVE  TcpInv'
BY DEF TcpInv, ReadyStays, Tcp!TcpOK, Tcp!IsInjective


(* The workers that are awake and without work are finitely many. *)
LEMMA IdleIsFinite ==
    /\ IsFiniteSet(Tcp!Idle) /\ Cardinality(Tcp!Idle) \in Nat
    /\ IsFiniteSet(Tcp!Idle') /\ Cardinality(Tcp!Idle') \in Nat
<1>1. IsFiniteSet(Worker) /\ Tcp!Idle \subseteq Worker /\ Tcp!Idle' \subseteq Worker
  BY KindAssumption DEF Tcp!Idle
<1> QED BY <1>1, FS_Subset, FS_CardinalityType

(* A sleeping worker has somebody awake for each connection in the queue. *)
LEMMA SleepParts ==
    LET signal == IF signals THEN 1 ELSE 0 IN
    /\ Tcp!NobodySleepsOverWork
        <=> asleep = {} \/ Len(accepted) <= Cardinality(Tcp!Idle) + signal
    /\ Tcp!NobodySleepsOverWork'
        <=> asleep' = {} \/ Len(accepted') <= Cardinality(Tcp!Idle') + signal'
BY DEF Tcp!NobodySleepsOverWork, Tcp!Cardinality, Cardinality

(* No step of the pool loses a wake-up. *)
LEMMA TcpWakes ==
    ASSUME TcpInv, Tcp!NobodySleepsOverWork, Tcp!ServerStep \/ Tcp!Spurious
    PROVE  Tcp!NobodySleepsOverWork'
<1> DEFINE n == Len(accepted)  idle == Cardinality(Tcp!Idle)  signal == IF signals THEN 1 ELSE 0
<1>1. /\ accepted \in Seq(Fd) /\ n \in Nat /\ idle \in Nat /\ Cardinality(Tcp!Idle') \in Nat
      /\ serving \in [Worker -> Fd \cup {NULL}]
      /\ asleep \subseteq {w \in Worker : serving[w] = NULL} /\ signals \in BOOLEAN
      /\ NULL \notin Fd
  BY TcpTypes, IdleIsFinite, SocketAssumption, LenProperties DEF TcpInv
<1>2. asleep = {} \/ n <= idle + signal
  BY SleepParts
<1>3. \A w : /\ w \notin Tcp!Idle => Cardinality(Tcp!Idle \cup {w}) = idle + 1
             /\ w \in Tcp!Idle => Cardinality(Tcp!Idle \ {w}) = idle - 1
  BY IdleIsFinite, OneMore, OneLess
<1>4. CASE Tcp!run
  <2>1. /\ accepted' = Append(accepted, FreeFd) /\ signals' = TRUE /\ signals = FALSE
        /\ serving' = serving /\ asleep' = asleep /\ accept(FreeFd)
    BY <1>1, <1>4, TcpSockets DEF Tcp!run, Tcp!tp_submit
  <2>2. Tcp!Idle' = Tcp!Idle
    BY <2>1 DEF Tcp!Idle
  <2>3. Len(accepted') = n + 1
    BY <1>1, <2>1, AppendProperties
  <2> QED BY <1>1, <1>2, <2>1, <2>2, <2>3, SleepParts
<1>5. CASE Tcp!SubmitSignals
  <2>1. /\ signals = TRUE /\ signals' = FALSE /\ accepted' = accepted /\ serving' = serving
        /\ \/ \E w \in asleep : asleep' = asleep \ {w}
           \/ asleep' = {}
    BY <1>1, <1>5 DEF Tcp!SubmitSignals
  <2>2. ASSUME NEW w \in asleep, asleep' = asleep \ {w}
        PROVE  n <= Cardinality(Tcp!Idle')
    <3>1. Tcp!Idle' = Tcp!Idle \cup {w} /\ w \notin Tcp!Idle
      BY <1>1, <2>1, <2>2 DEF Tcp!Idle
    <3>2. Cardinality(Tcp!Idle') = idle + 1
      BY <1>3, <3>1
    <3> HIDE DEF idle, n
    <3> QED BY <1>1, <1>2, <2>1, <2>2, <3>2
  <2> QED BY <1>1, <2>1, <2>2, SleepParts
<1>6. ASSUME NEW w \in Worker, Tcp!WaitsForWork(w) PROVE Tcp!NobodySleepsOverWork'
  <2> accepted' = <<>> /\ signals' \in BOOLEAN
    BY <1>1, <1>6 DEF Tcp!WaitsForWork
  <2> Len(accepted') = 0
    OBVIOUS
  <2> QED BY <1>1, SleepParts
<1>7. ASSUME NEW w \in Worker, Tcp!TakeWork(w) PROVE Tcp!NobodySleepsOverWork'
  <2>1. /\ serving[w] = NULL /\ w \notin asleep /\ accepted # <<>>
        /\ serving' = [serving EXCEPT ![w] = Head(accepted)] /\ accepted' = Tail(accepted)
        /\ asleep' = asleep /\ signals' = signals
    BY <1>7 DEF Tcp!TakeWork
  <2>2. Len(accepted') = n - 1 /\ Head(accepted) \in Fd
    BY <1>1, <2>1, HeadTailProperties, EmptySeq
  <2>3. Tcp!Idle' = Tcp!Idle \ {w} /\ w \in Tcp!Idle
    BY <1>1, <2>1, <2>2 DEF Tcp!Idle
  <2>4. Cardinality(Tcp!Idle') = idle - 1
    BY <1>3, <2>3
  <2> HIDE DEF idle, n
  <2>5. asleep' = {} \/ Len(accepted') <= Cardinality(Tcp!Idle') + IF signals' THEN 1 ELSE 0
    BY <1>1, <1>2, <2>1, <2>2, <2>4
  <2> QED BY <2>5, SleepParts
<1>8. ASSUME NEW w \in Worker, Tcp!process_connection(w) PROVE Tcp!NobodySleepsOverWork'
  <2>1. /\ serving[w] # NULL /\ accepted' = accepted /\ asleep' = asleep /\ signals' = signals
        /\ serving' = serving \/ serving' = [serving EXCEPT ![w] = NULL]
    BY <1>8 DEF Tcp!process_connection
  <2>2. w \notin Tcp!Idle /\ (Tcp!Idle' = Tcp!Idle \/ Tcp!Idle' = Tcp!Idle \cup {w})
    BY <1>1, <2>1 DEF Tcp!Idle
  <2>3. Cardinality(Tcp!Idle') \in {idle, idle + 1}
    BY <1>3, <2>2
  <2> HIDE DEF idle, n
  <2>4. asleep' = {} \/ Len(accepted') <= Cardinality(Tcp!Idle') + IF signals' THEN 1 ELSE 0
    <3> Len(accepted') = n
      BY <2>1 DEF n
    <3> QED BY <1>1, <1>2, <2>1, <2>3
  <2> QED BY <2>4, SleepParts
<1>9. ASSUME NEW w \in asleep, Tcp!SpuriousWakeup(w) PROVE Tcp!NobodySleepsOverWork'
  <2>1. /\ asleep' = asleep \ {w}
        /\ accepted' = accepted /\ serving' = serving /\ signals' = signals
    BY <1>9 DEF Tcp!SpuriousWakeup
  <2>2. Tcp!Idle' = Tcp!Idle \cup {w} /\ w \notin Tcp!Idle
    BY <1>1, <1>9, <2>1 DEF Tcp!Idle
  <2>3. Cardinality(Tcp!Idle') = idle + 1
    BY <1>3, <2>2
  <2> HIDE DEF idle, n
  <2>4. asleep' = {} \/ Len(accepted') <= Cardinality(Tcp!Idle') + IF signals' THEN 1 ELSE 0
    <3> Len(accepted') = n
      BY <2>1 DEF n
    <3> QED BY <1>1, <1>2, <1>9, <2>1, <2>3
  <2> QED BY <2>4, SleepParts
<1> QED BY <1>4, <1>5, <1>6, <1>7, <1>8, <1>9, Zenon DEF Tcp!ServerStep, Tcp!Spurious

(* The clients have nothing to do with it. *)
LEMMA TcpSleeps ==
    ASSUME Tcp!NobodySleepsOverWork, UNCHANGED <<accepted, serving, asleep, signals>>
    PROVE  Tcp!NobodySleepsOverWork'
<1> Tcp!Idle' = Tcp!Idle
  BY DEF Tcp!Idle
<1> QED BY SleepParts

-----------------------------------------------------------------------------
(* The server over poll.                                                     *)

(* Its sockets are those of this module. *)
LEMMA PollSockets ==
    /\ Poll!Open = Open /\ Poll!FreeFd = FreeFd
    /\ Poll!AcceptAndClose <=> AcceptAndClose
    /\ \A f : /\ Poll!accept(f) <=> accept(f)
              /\ Poll!ReadAndEcho(f) <=> ReadAndEcho(f)
              /\ Poll!AtEnd(f) <=> AtEnd(f)
              /\ Poll!Close(f) <=> Close(f)
<1>1. Poll!Open = Open /\ Poll!FreeFd = FreeFd
  BY DEF Poll!Open, Open, Poll!FreeFd, FreeFd
<1>2. Poll!AcceptAndClose <=> AcceptAndClose
  BY DEF Poll!AcceptAndClose, AcceptAndClose
<1>3. \A f : Poll!accept(f) <=> accept(f)
  BY <1>1 DEF Poll!accept, accept
<1>4. \A f : Poll!ReadAndEcho(f) <=> ReadAndEcho(f)
  BY <1>1 DEF Poll!ReadAndEcho, ReadAndEcho
<1>5. \A f : Poll!AtEnd(f) <=> AtEnd(f)
  BY <1>1 DEF Poll!AtEnd, AtEnd
<1>6. \A f : Poll!Close(f) <=> Close(f)
  BY <1>1 DEF Poll!Close, Close
<1> QED BY <1>1, <1>2, <1>3, <1>4, <1>5, <1>6

PollSlot == [fd : Fd \cup {0, listenfd}, revents : BOOLEAN]

(* The two halves of the invariant: the table, and where process is in it. *)
PollTable ==
    /\ clients \in [0..FOPEN_MAX-1 -> PollSlot]
    /\ nclients \in 1..FOPEN_MAX
    /\ \A s, t \in 1..nclients-1 : clients[s].fd = clients[t].fd => s = t
    /\ Open = {clients[s].fd : s \in 1..nclients-1}

PollScan ==
    /\ nready \in 0..FOPEN_MAX
    /\ i \in 0..FOPEN_MAX
    /\ pc \in {"wait", "process", "scan"}
    /\ pc = "process" => nready > 0
    /\ pc = "scan" => i > 0

(* There is no more than these. *)
LEMMA PollHalves == (PollInv <=> PollTable /\ PollScan) /\ (PollInv' <=> PollTable' /\ PollScan')
BY Zenon DEF PollInv, PollTable, PollScan, Poll!PollOK, Poll!Slot, PollSlot

(* What poll reports. *)
PollReports(ready) ==
    /\ pc = "wait" /\ pc' = "process"
    /\ ready \subseteq 0..nclients-1 /\ ready # {}
    /\ clients' = [s \in 0..FOPEN_MAX-1 |->
          IF s < nclients THEN [clients[s] EXCEPT !.revents = s \in ready] ELSE clients[s]]
    /\ nready' = Cardinality(ready)
    /\ UNCHANGED <<sockVars, nclients, i>>

(* What loop does. *)
LEMMA PollLoops ==
    ASSUME Poll!loop
    PROVE  \E ready : PollReports(ready)
<1> DEFINE ready == {s \in 0..nclients-1 : Poll!Ready(clients[s].fd)}
<1>1. /\ pc = "wait" /\ pc' = "process" /\ ready # {}
      /\ clients' = [s \in Poll!Slot |->
            IF s < nclients THEN [clients[s] EXCEPT !.revents = s \in ready] ELSE clients[s]]
      /\ nready' = Poll!Cardinality(ready)
      /\ UNCHANGED <<sockVars, nclients, i>>
  BY DEF Poll!loop, Poll!sockVars, sockVars
<1>2. ready \subseteq 0..nclients-1
  OBVIOUS
<1>3. Poll!Cardinality(ready) = Cardinality(ready)
  BY DEF Poll!Cardinality, Cardinality
<1> HIDE DEF ready
<1>4. PollReports(ready)
  BY <1>1, <1>2, <1>3 DEF PollReports, Poll!Slot
<1> QED BY <1>4

PollAdds ==
    /\ accept(FreeFd) /\ nclients < FOPEN_MAX
    /\ clients' = [clients EXCEPT ![nclients].fd = FreeFd]
    /\ nclients' = nclients + 1

PollRemoves ==
    /\ i < nclients /\ pc = "scan"
    /\ clients[i].fd \in Open /\ Close(clients[i].fd)
    /\ clients' = [clients EXCEPT ![i] = clients[nclients-1]]
    /\ nclients' = nclients - 1

(* What process does to the table and the sockets. *)
LEMMA PollActs ==
    ASSUME Poll!ProcessListen \/ Poll!ProcessSlot \/ Poll!ProcessReturns
    PROVE  \/ PollAdds \/ PollRemoves
           \/ /\ UNCHANGED <<clients, nclients>>
              /\ UNCHANGED sockVars \/ AcceptAndClose \/ \E f : ReadAndEcho(f)
<1>1. CASE Poll!ProcessListen
  BY <1>1, PollSockets DEF Poll!ProcessListen, Poll!add_client, PollAdds, Poll!sockVars, sockVars
<1>2. CASE Poll!ProcessSlot
  BY <1>2, PollSockets
  DEF Poll!ProcessSlot, Poll!Scanning, Poll!rem_client, PollRemoves, AtEnd, Poll!sockVars, sockVars
<1>3. CASE Poll!ProcessReturns
  BY <1>3 DEF Poll!ProcessReturns, Poll!sockVars, sockVars
<1> QED BY <1>1, <1>2, <1>3

(* What it does to its own variables. *)
LEMMA PollScans ==
    ASSUME PollScan, nclients \in 1..FOPEN_MAX,
           Poll!ProcessListen \/ Poll!ProcessSlot \/ Poll!ProcessReturns
    PROVE  PollScan'
<1>1. \/ Poll!Return
      \/ \E m \in {nready, nready - 1} : Poll!Scan(m, 1) /\ (m = nready \/ nready > 0)
      \/ /\ pc = "scan" /\ nready > 0 /\ i < nclients
         /\ \E m \in {nready, nready - 1} : Poll!Scan(m, i + 1)
  <2>1. CASE Poll!ProcessListen
    <3> pc = "process" /\ nready > 0
      BY <2>1 DEF Poll!ProcessListen, PollScan
    <3> QED BY <2>1 DEF Poll!ProcessListen
  <2>2. CASE Poll!ProcessSlot
    BY <2>2 DEF Poll!ProcessSlot, Poll!Scanning
  <2>3. CASE Poll!ProcessReturns
    BY <2>3 DEF Poll!ProcessReturns
  <2> QED BY <2>1, <2>2, <2>3
<1> QED BY <1>1, KindAssumption DEF PollScan, Poll!Return, Poll!Scan

(* A new client takes the first free slot. *)
LEMMA PollAddsOne ==
    ASSUME PollTable, nclients < FOPEN_MAX, NEW f \in Fd, f \notin Open, Open' = Open \cup {f},
           clients' = [clients EXCEPT ![nclients].fd = f], nclients' = nclients + 1
    PROVE  PollTable'
<1> DEFINE n == nclients
<1>1. n \in 1..FOPEN_MAX-1 /\ FOPEN_MAX \in Nat
  BY KindAssumption DEF PollTable
<1>2. clients' \in [0..FOPEN_MAX-1 -> PollSlot]
  BY <1>1 DEF PollTable, PollSlot
<1>3. \A s \in 1..n : clients'[s].fd = IF s = n THEN f ELSE clients[s].fd
  BY <1>1 DEF PollTable, PollSlot
<1>4. \A s \in 1..n-1 : clients[s].fd \in Open
  BY DEF PollTable
<1>5. nclients' \in 1..FOPEN_MAX /\ nclients' - 1 = n
  BY <1>1
<1> HIDE DEF n
<1>6. \A s, t \in 1..n : clients'[s].fd = clients'[t].fd => s = t
  <2> SUFFICES ASSUME NEW s \in 1..n, NEW t \in 1..n, clients'[s].fd = clients'[t].fd
               PROVE  s = t
    OBVIOUS
  <2>1. s # n => s \in 1..n-1
    BY <1>1 DEF n
  <2>2. t # n => t \in 1..n-1
    BY <1>1 DEF n
  <2> QED BY <1>3, <1>4, <2>1, <2>2 DEF PollTable, n
<1>7. Open' = {clients'[s].fd : s \in 1..n}
  <2>1. \A s \in 1..n : s = n \/ s \in 1..n-1
    BY <1>1 DEF n
  <2>2. n \in 1..n /\ 1..n-1 \subseteq 1..n /\ n \notin 1..n-1
    BY <1>1 DEF n
  <2>3. Open = {clients[s].fd : s \in 1..n-1}
    BY DEF PollTable, n
  <2>4. ASSUME NEW x \in Open' PROVE \E s \in 1..n : clients'[s].fd = x
    <3>1. CASE x = f
      BY <1>3, <2>2, <3>1
    <3>2. CASE x \in Open
      <4> PICK s \in 1..n-1 : clients[s].fd = x
        BY <2>3, <3>2
      <4> QED BY <1>3, <2>2
    <3> QED BY <3>1, <3>2
  <2>5. ASSUME NEW s \in 1..n PROVE clients'[s].fd \in Open'
    BY <1>3, <1>4, <2>1
  <2> QED BY <2>4, <2>5
<1> QED BY <1>2, <1>5, <1>6, <1>7 DEF PollTable

(* The last slot takes the place of the one that is removed. *)
LEMMA PollRemovesOne ==
    ASSUME PollTable, NEW k \in 1..nclients-1, Open' = Open \ {clients[k].fd},
           clients' = [clients EXCEPT ![k] = clients[nclients-1]], nclients' = nclients - 1
    PROVE  PollTable'
<1> DEFINE n == nclients
<1>1. /\ n \in 1..FOPEN_MAX /\ FOPEN_MAX \in Nat /\ k \in 1..n-1 /\ n-1 \in 1..n-1
      /\ n-1 \in 0..FOPEN_MAX-1 /\ k \in 0..FOPEN_MAX-1
  BY KindAssumption DEF PollTable
<1>2. clients' \in [0..FOPEN_MAX-1 -> PollSlot]
  BY <1>1 DEF PollTable
<1>3. \A s \in 1..n-2 : clients'[s].fd = IF s = k THEN clients[n-1].fd ELSE clients[s].fd
  BY <1>1 DEF PollTable
<1>4. nclients' \in 1..FOPEN_MAX /\ nclients' - 1 = n-2
  BY <1>1
<1>5. /\ 1..n-2 \subseteq 1..n-1 /\ \A s \in 1..n-2 : s # n-1
      /\ \A s \in 1..n-1 : s # n-1 => s \in 1..n-2
  BY <1>1
<1>6. /\ \A s, t \in 1..n-1 : clients[s].fd = clients[t].fd => s = t
      /\ Open = {clients[s].fd : s \in 1..n-1}
  BY DEF PollTable
<1> HIDE DEF n
<1>7. \A s, t \in 1..n-2 : clients'[s].fd = clients'[t].fd => s = t
  BY <1>1, <1>3, <1>5, <1>6
<1>8. Open' = {clients'[s].fd : s \in 1..n-2}
  <2>1. ASSUME NEW x \in Open' PROVE \E s \in 1..n-2 : clients'[s].fd = x
    <3> PICK s \in 1..n-1 : clients[s].fd = x /\ s # k
      BY <1>6
    <3>1. CASE s = n-1
      <4> k \in 1..n-2
        BY <1>1, <1>5, <3>1
      <4> QED BY <1>3, <3>1
    <3>2. CASE s # n-1
      BY <1>3, <1>5, <3>2
    <3> QED BY <3>1, <3>2
  <2>2. ASSUME NEW s \in 1..n-2 PROVE clients'[s].fd \in Open'
    BY <1>1, <1>3, <1>5, <1>6
  <2> QED BY <2>1, <2>2
<1> QED BY <1>2, <1>4, <1>7, <1>8 DEF PollTable

(* A step of the server. *)
LEMMA PollKeeps ==
    ASSUME SockInv, OneUnderWay, PollInv, Poll!ServerStep
    PROVE  SockInv' /\ OneUnderWay' /\ PollInv'
<1>1. PollTable /\ PollScan
  BY PollHalves
<1>2. CASE Poll!loop
  <2>1. PICK ready : PollReports(ready)
    BY <1>2, PollLoops
  <2>2. SockInv' /\ OneUnderWay' /\ Open' = Open
    BY <2>1, StillEffect DEF PollReports, ReadyStays
  <2>3. /\ clients \in [0..FOPEN_MAX-1 -> PollSlot]
        /\ nclients \in 1..FOPEN_MAX /\ nclients' = nclients /\ FOPEN_MAX \in Nat
    BY <1>1, <2>1, KindAssumption DEF PollTable, PollReports
  <2>4. /\ clients' \in [0..FOPEN_MAX-1 -> PollSlot]
        /\ \A s \in 0..FOPEN_MAX-1 : clients'[s].fd = clients[s].fd
    <3> DEFINE slot(s) == IF s < nclients THEN [clients[s] EXCEPT !.revents = s \in ready]
                                          ELSE clients[s]
    <3>1. clients' = [s \in 0..FOPEN_MAX-1 |-> slot(s)]
      BY <2>1 DEF PollReports
    <3>2. ASSUME NEW s \in 0..FOPEN_MAX-1 PROVE slot(s) \in PollSlot /\ slot(s).fd = clients[s].fd
      <4>1. clients[s] \in PollSlot /\ (s \in ready) \in BOOLEAN
        BY <2>3
      <4>2. ASSUME NEW b \in BOOLEAN, NEW x \in PollSlot
            PROVE  [x EXCEPT !.revents = b] \in PollSlot /\ [x EXCEPT !.revents = b].fd = x.fd
        BY DEF PollSlot
      <4> QED BY <4>1, <4>2
    <3> HIDE DEF slot
    <3> QED BY <3>1, <3>2
  <2>5. PollTable'
    <3>1. \A s \in 1..nclients-1 : s \in 0..FOPEN_MAX-1
      BY <2>3
    <3>2. \A s \in 1..nclients-1 : clients'[s].fd = clients[s].fd
      BY <2>4, <3>1
    <3> QED BY <1>1, <2>2, <2>3, <2>4, <3>2 DEF PollTable
  <2>6. nready' \in 1..FOPEN_MAX
    <3>1. IsFiniteSet(0..nclients-1) /\ Cardinality(0..nclients-1) = nclients
      BY <2>3, FS_Interval
    <3>2. ready \subseteq 0..nclients-1 /\ ready # {} /\ nready' = Cardinality(ready)
      BY <2>1 DEF PollReports
    <3>3. IsFiniteSet(ready) /\ Cardinality(ready) <= nclients /\ Cardinality(ready) \in Nat
      <4> DEFINE S == 0..nclients-1
      <4> IsFiniteSet(S) /\ Cardinality(S) = nclients /\ ready \subseteq S
        BY <3>1, <3>2
      <4> HIDE DEF S
      <4> QED BY FS_Subset, FS_CardinalityType
    <3>4. Cardinality(ready) # 0
      BY <3>2, <3>3, FS_EmptySet
    <3> QED BY <2>3, <3>2, <3>3, <3>4
  <2>7. PollScan'
    <3> pc' = "process" /\ i' = i
      BY <2>1 DEF PollReports
    <3> QED BY <1>1, <2>6 DEF PollScan
  <2> QED BY <2>2, <2>5, <2>7, PollHalves
<1>3. CASE Poll!ProcessListen \/ Poll!ProcessSlot \/ Poll!ProcessReturns
  <2>1. PollScan'
    BY <1>1, <1>3, PollScans DEF PollTable
  <2>2. CASE PollAdds
    <3>1. /\ SockInv' /\ OneUnderWay' /\ FreeFd \in Fd /\ FreeFd \notin Open
          /\ Open' = Open \cup {FreeFd}
      BY <2>2, AcceptEffect DEF PollAdds
    <3>2. PollTable'
      BY <1>1, <2>2, <3>1, PollAddsOne DEF PollAdds
    <3> QED BY <2>1, <3>1, <3>2, PollHalves
  <2>3. CASE PollRemoves
    <3>1. i \in 1..nclients-1
      <4> i \in Nat /\ i > 0 /\ nclients \in Nat /\ i < nclients
        BY <1>1, <2>3, KindAssumption DEF PollScan, PollTable, PollRemoves
      <4> QED OBVIOUS
    <3>2. SockInv' /\ OneUnderWay' /\ Open' = Open \ {clients[i].fd}
      BY <2>3, CloseEffect DEF PollRemoves
    <3>3. PollTable'
      BY <1>1, <2>3, <3>1, <3>2, PollRemovesOne DEF PollRemoves
    <3> QED BY <2>1, <3>2, <3>3, PollHalves
  <2>4. CASE /\ UNCHANGED <<clients, nclients>>
             /\ UNCHANGED sockVars \/ AcceptAndClose \/ \E f : ReadAndEcho(f)
    <3>1. SockInv' /\ OneUnderWay' /\ Open' = Open
      BY <2>4, StillEffect, RefuseEffect, EchoEffect DEF ReadyStays
    <3>2. PollTable'
      BY <1>1, <2>4, <3>1 DEF PollTable
    <3> QED BY <2>1, <3>1, <3>2, PollHalves
  <2> QED BY <1>3, <2>2, <2>3, <2>4, PollActs
<1> QED BY <1>2, <1>3 DEF Poll!ServerStep

(* A step of a client. *)
LEMMA PollKept ==
    ASSUME PollInv, ReadyStays, UNCHANGED <<clients, nclients, nready, i, pc>>
    PROVE  PollInv'
<1> PollTable' /\ PollScan'
  BY PollHalves DEF PollTable, PollScan, ReadyStays
<1> QED BY PollHalves

-----------------------------------------------------------------------------
(* The server over select.                                                   *)

(* Its sockets are those of this module. *)
LEMMA SelectSockets ==
    /\ Select!Open = Open /\ Select!FreeFd = FreeFd
    /\ Select!AcceptAndClose <=> AcceptAndClose
    /\ \A f : /\ Select!accept(f) <=> accept(f)
              /\ Select!ReadAndEcho(f) <=> ReadAndEcho(f)
              /\ Select!AtEnd(f) <=> AtEnd(f)
              /\ Select!Close(f) <=> Close(f)
              /\ Select!Readable(f) <=> Readable(f)
              /\ Select!Ready(f) <=> Ready(f)
<1>1. Select!Open = Open /\ Select!FreeFd = FreeFd
  BY DEF Select!Open, Open, Select!FreeFd, FreeFd
<1>2. Select!AcceptAndClose <=> AcceptAndClose
  BY DEF Select!AcceptAndClose, AcceptAndClose
<1>3. \A f : Select!accept(f) <=> accept(f)
  BY <1>1 DEF Select!accept, accept
<1>4. \A f : Select!ReadAndEcho(f) <=> ReadAndEcho(f)
  BY <1>1 DEF Select!ReadAndEcho, ReadAndEcho
<1>5. \A f : Select!AtEnd(f) <=> AtEnd(f)
  BY <1>1 DEF Select!AtEnd, AtEnd
<1>6. \A f : Select!Close(f) <=> Close(f)
  BY <1>1 DEF Select!Close, Close
<1>7. \A f : Select!Readable(f) <=> Readable(f)
  BY <1>1 DEF Select!Readable, Readable
<1>8. \A f : Select!Ready(f) <=> Ready(f)
  BY <1>7 DEF Select!Ready, Ready
<1> QED BY <1>1, <1>2, <1>3, <1>4, <1>5, <1>6, <1>7, <1>8

Places == FD_SETSIZE - 4
Bits == 0..FD_SETSIZE-1

(* The three parts of the invariant: the array and the set, where process   *)
(* is in it, and what select reported that process has not come to.         *)
SelectTable ==
    /\ clients \in [0..Places-1 -> Fd \cup {0}]
    /\ nclients \in 0..Places
    /\ maxclient_fd \in Fd \cup {listenfd}
    /\ allset \subseteq Bits
    /\ \A s, t \in 0..nclients-1 : clients[s] = clients[t] => s = t
    /\ Open = {clients[s] : s \in 0..nclients-1}
    /\ allset = Open \cup {listenfd}

SelectScan ==
    /\ nready \in 0..Places+1
    /\ i \in 0..Places
    /\ pc \in {"wait", "process", "scan"}
    /\ pc = "process" => nready > 0

SelectReported ==
    /\ rset \subseteq Bits
    /\ pc = "process" =>
        /\ rset \subseteq allset
        /\ \A f \in rset \ {listenfd} : Readable(f)
    /\ pc = "scan" =>
        \A f \in rset, s \in 0..nclients-1 : s >= i /\ clients[s] = f => Readable(f)

(* There is no more than these. *)
LEMMA SelectParts ==
    /\ SelectInv <=> SelectTable /\ SelectScan /\ SelectReported
    /\ SelectInv' <=> SelectTable' /\ SelectScan' /\ SelectReported'
BY Zenon DEF SelectInv, SelectTable, SelectScan, SelectReported, Places, Bits, Select!SelectOK,
             Select!maxclients

(* There are as many places in use as open descriptors. *)
LEMMA SelectSizes ==
    ASSUME SockInv, SelectTable
    PROVE  /\ FD_SETSIZE \in Nat /\ Places \in Nat \ {0} /\ nclients \in 0..Places
           /\ IsFiniteSet(Open) /\ Cardinality(Open) = nclients
           /\ IsFiniteSet(allset) /\ Cardinality(allset) = nclients + 1
<1>1. FD_SETSIZE \in Nat /\ Places \in Nat \ {0} /\ nclients \in 0..Places
  BY KindAssumption DEF Places, SelectTable
<1>2. IsFiniteSet(0..nclients-1) /\ Cardinality(0..nclients-1) = nclients
  BY <1>1, FS_Interval
<1>3. IsFiniteSet(Open) /\ Cardinality(Open) = nclients
  <2> DEFINE D == 0..nclients-1  f == [s \in D |-> clients[s]]
  <2>1. /\ f \in [D -> Open] /\ IsFiniteSet(D)
        /\ \A y \in Open : \E x \in D : f[x] = y
        /\ \A x, y \in D : f[x] = f[y] => x = y
    BY <1>2 DEF SelectTable
  <2>2. Cardinality(D) = nclients
    BY <1>2
  <2> HIDE DEF D, f
  <2>3. IsFiniteSet(Open) /\ Cardinality(D) = Cardinality(Open)
    BY ONLY <2>1, SameSize
  <2> QED BY <2>2, <2>3
<1>4. allset = Open \cup {listenfd} /\ listenfd \notin Open
  BY OpenDescriptors DEF SelectTable
<1> QED BY <1>1, <1>3, <1>4, FS_AddElement

(* The lowest free descriptor fits into a set: those below it are open, and *)
(* there are fewer of them than places.                                     *)
LEMMA FreeFdFits ==
    ASSUME SockInv, SelectTable, "select" \in Kind, backlog # <<>>, nclients < Places
    PROVE  FreeFd \in Bits
<1>1. /\ FreeFd \in Fd /\ FreeFd \notin Open /\ FreeFd \in Nat
      /\ \A g \in Fd \ Open : FreeFd <= g
  BY FreeFdIsFree
<1>2. FreeFd \in Nat \ 0..3 /\ 4..FreeFd \subseteq Fd
  BY <1>1, DescriptorAssumption
<1>3. 4..FreeFd-1 \subseteq Open
  <2> SUFFICES ASSUME NEW g \in 4..FreeFd-1, g \notin Open PROVE FALSE
    OBVIOUS
  <2>1. g \in 4..FreeFd /\ g \in Int /\ g < FreeFd
    BY <1>1
  <2>2. g \in Fd \ Open
    BY <1>2, <2>1
  <2>3. FreeFd <= g
    BY <1>1, <2>2
  <2> QED BY <1>1, <2>1, <2>3
<1>4. Cardinality(4..FreeFd-1) = FreeFd - 4
  BY <1>2, FS_Interval
<1>5. Cardinality(4..FreeFd-1) <= nclients
  BY <1>3, SelectSizes, FS_Subset
<1> QED BY <1>1, <1>2, <1>4, <1>5, SelectSizes DEF Places, Bits

SelectReturns == pc' = "wait" /\ nready' = 0 /\ i' = 0
SelectGoesOn(k) == pc' = "scan" /\ i' = k

SelectReports ==
    /\ pc = "wait" /\ pc' = "process"
    /\ rset' \subseteq allset /\ rset' # {}
    /\ \A f \in rset' \ {listenfd} : Readable(f)
    /\ nready' = Cardinality(rset')
    /\ UNCHANGED <<sockVars, clients, nclients, maxclient_fd, allset, i>>

SelectAdds ==
    /\ pc = "process"
    /\ accept(FreeFd) /\ nclients # Places
    /\ clients' = [clients EXCEPT ![nclients] = FreeFd]
    /\ nclients' = nclients + 1
    /\ allset' = allset \cup {FreeFd}
    /\ maxclient_fd' \in {maxclient_fd, FreeFd}
    /\ SelectReturns \/ SelectGoesOn(0)
    /\ UNCHANGED rset

SelectRemoves ==
    /\ pc = "scan" /\ i < nclients
    /\ clients[i] \in Open /\ Close(clients[i])
    /\ clients' = [clients EXCEPT ![i] = clients[nclients-1]]
    /\ nclients' = nclients - 1
    /\ allset' = allset \ {clients[i]}
    /\ SelectGoesOn(i + 1)
    /\ UNCHANGED <<maxclient_fd, rset>>

SelectPasses ==
    /\ \/ UNCHANGED sockVars /\ pc = "process" /\ SelectGoesOn(0)
       \/ UNCHANGED sockVars /\ pc = "scan" /\ SelectGoesOn(i + 1)
       \/ UNCHANGED sockVars /\ SelectReturns
       \/ AcceptAndClose /\ SelectReturns
       \/ ReadAndEcho(clients[i]) /\ pc = "scan" /\ i < nclients /\ SelectGoesOn(i + 1)
    /\ UNCHANGED <<clients, nclients, maxclient_fd, allset, rset>>

(* What loop does. *)
LEMMA SelectLoops ==
    ASSUME Select!loop
    PROVE  SelectReports
<1>1. Select!Cardinality(rset') = Cardinality(rset')
  BY DEF Select!Cardinality, Cardinality
<1>2. /\ pc = "wait" /\ pc' = "process"
      /\ rset' = {f \in allset : f <= maxclient_fd /\ Ready(f)} /\ rset' # {}
      /\ nready' = Select!Cardinality(rset')
      /\ UNCHANGED <<sockVars, clients, nclients, maxclient_fd, allset, i>>
  BY SelectSockets DEF Select!loop, Select!sockVars, sockVars
<1>3. \A f \in rset' \ {listenfd} : Readable(f)
  BY <1>2 DEF Ready
<1> QED BY <1>1, <1>2, <1>3 DEF SelectReports

(* What process does. *)
LEMMA SelectActs ==
    ASSUME Select!ProcessListen \/ Select!ProcessSlot \/ Select!ProcessReturns
    PROVE  SelectAdds \/ SelectRemoves \/ SelectPasses
<1>1. CASE Select!ProcessListen
  BY <1>1, SelectSockets
  DEF Select!ProcessListen, Select!add_client, Select!Full, Select!maxclients, Places,
      SelectAdds, SelectPasses, Select!Scan, Select!Return, SelectGoesOn, SelectReturns,
      Select!sockVars, sockVars
<1>2. CASE Select!ProcessSlot
  BY <1>2, SelectSockets
  DEF Select!ProcessSlot, Select!Scanning, Select!rem_client, SelectRemoves, SelectPasses, AtEnd,
      Select!Scan, SelectGoesOn, Select!sockVars, sockVars
<1>3. CASE Select!ProcessReturns
  BY <1>3 DEF Select!ProcessReturns, SelectPasses, Select!Return, SelectReturns, Select!sockVars, sockVars
<1> QED BY <1>1, <1>2, <1>3

(* What it does to its own variables. *)
LEMMA SelectScans ==
    ASSUME SelectScan, nclients \in 0..Places,
           Select!ProcessListen \/ Select!ProcessSlot \/ Select!ProcessReturns
    PROVE  SelectScan'
<1>1. \/ Select!Return
      \/ \E m \in {nready, nready - 1} : Select!Scan(m, 0) /\ (m = nready \/ nready > 0)
      \/ /\ pc = "scan" /\ nready > 0 /\ i < nclients
         /\ \E m \in {nready, nready - 1} : Select!Scan(m, i + 1)
  <2>1. CASE Select!ProcessListen
    <3> pc = "process" /\ nready > 0
      BY <2>1 DEF Select!ProcessListen, SelectScan
    <3> QED BY <2>1 DEF Select!ProcessListen
  <2>2. CASE Select!ProcessSlot
    BY <2>2 DEF Select!ProcessSlot, Select!Scanning
  <2>3. CASE Select!ProcessReturns
    BY <2>3 DEF Select!ProcessReturns
  <2> QED BY <2>1, <2>2, <2>3
<1>2. Places \in Nat \ {0}
  BY KindAssumption DEF Places
<1> QED BY <1>1, <1>2 DEF SelectScan, Select!Return, Select!Scan

(* A new client takes the first free place. *)
LEMMA SelectAddsOne ==
    ASSUME SockInv, SelectTable, SelectReported, "select" \in Kind, SelectAdds
    PROVE  /\ SockInv' /\ (OneUnderWay => OneUnderWay')
           /\ SelectTable' /\ SelectReported'
<1> DEFINE n == nclients  d == FreeFd
<1>1. /\ SockInv' /\ (OneUnderWay => OneUnderWay')
      /\ d \in Fd /\ d \notin Open /\ Open' = Open \cup {d} /\ Steady(Open)
  BY AcceptEffect DEF SelectAdds
<1>2. /\ Places \in Nat \ {0} /\ n \in 0..Places-1 /\ nclients' = n + 1
  BY SelectSizes DEF SelectAdds
<1>3. d \in Bits
  <2> backlog # <<>>
    BY DEF SelectAdds, accept
  <2> QED BY <1>2, FreeFdFits
<1> HIDE DEF d
<1>4. /\ clients' \in [0..Places-1 -> Fd \cup {0}]
      /\ \A s \in 0..n : clients'[s] = IF s = n THEN d ELSE clients[s]
  <2> clients \in [0..Places-1 -> Fd \cup {0}] /\ clients' = [clients EXCEPT ![n] = d]
    BY DEF SelectTable, SelectAdds, d
  <2> QED BY <1>1, <1>2
<1>5. /\ \A s, t \in 0..n-1 : clients[s] = clients[t] => s = t
      /\ Open = {clients[s] : s \in 0..n-1}
  BY DEF SelectTable
<1>6. /\ n \in 0..n /\ 0..n-1 \subseteq 0..n /\ nclients' - 1 = n /\ nclients' \in 0..Places
      /\ \A s \in 0..n : s # n => s \in 0..n-1
  BY <1>2
<1> HIDE DEF n
<1>7. \A s, t \in 0..n : clients'[s] = clients'[t] => s = t
  BY <1>1, <1>4, <1>5, <1>6
<1>8. Open' = {clients'[s] : s \in 0..n}
  <2>1. ASSUME NEW x \in Open' PROVE \E s \in 0..n : clients'[s] = x
    <3>1. CASE x = d
      BY <1>4, <1>6, <3>1
    <3>2. CASE x \in Open
      <4> PICK s \in 0..n-1 : clients[s] = x
        BY <1>5, <3>2
      <4> QED BY <1>1, <1>4, <1>6, <3>2
    <3> QED BY <1>1, <3>1, <3>2
  <2>2. ASSUME NEW s \in 0..n PROVE clients'[s] \in Open'
    BY <1>1, <1>4, <1>5, <1>6
  <2> QED BY <2>1, <2>2
<1>9. SelectTable'
  <2>1. maxclient_fd' \in Fd \cup {listenfd} /\ allset' \subseteq Bits
    BY <1>1, <1>3 DEF SelectTable, SelectAdds, d
  <2>2. allset' = Open' \cup {listenfd}
    BY <1>1 DEF SelectTable, SelectAdds, d
  <2> QED BY <1>4, <1>6, <1>7, <1>8, <2>1, <2>2 DEF SelectTable
<1>10. SelectReported'
  <2>1. /\ rset' = rset /\ rset \subseteq Bits
        /\ rset \subseteq Open \cup {listenfd}
        /\ \A f \in rset \ {listenfd} : Readable(f)
        /\ pc' = "wait" \/ (pc' = "scan" /\ i' = 0)
    BY DEF SelectReported, SelectAdds, SelectTable, SelectReturns, SelectGoesOn
  <2>2. d \notin rset
    <3> listenfd \notin Fd
      BY SocketAssumption
    <3> QED BY <1>1, <2>1
  <2>3. ASSUME NEW f \in rset, NEW s \in 0..n, clients'[s] = f PROVE Readable(f)'
    <3>1. f \in Open
      BY <1>4, <1>5, <1>6, <2>2, <2>3
    <3>2. f # listenfd /\ Readable(f)
      BY <2>1, <3>1, OpenDescriptors
    <3> QED BY <1>1, <3>1, <3>2 DEF Steady
  <2> QED BY <1>6, <2>1, <2>3 DEF SelectReported
<1> QED BY <1>1, <1>9, <1>10

(* The last place takes that of the one that is removed. *)
LEMMA SelectRemovesOne ==
    ASSUME SockInv, SelectTable, SelectScan, SelectReported, SelectRemoves
    PROVE  /\ SockInv' /\ (OneUnderWay => OneUnderWay')
           /\ SelectTable' /\ SelectReported'
<1> DEFINE n == nclients  k == i  d == clients[i]
<1>1. /\ SockInv' /\ (OneUnderWay => OneUnderWay')
      /\ d \in Open /\ Open' = Open \ {d} /\ Steady(Open \ {d})
  BY CloseEffect DEF SelectRemoves
<1>2. /\ Places \in Nat \ {0} /\ n \in 0..Places /\ nclients' = n - 1
      /\ k \in 0..n-1 /\ n-1 \in 0..n-1
  <2> i \in Nat /\ i < nclients
    BY SelectSizes DEF SelectScan, SelectRemoves
  <2> QED BY SelectSizes DEF SelectRemoves
<1>3. /\ clients' \in [0..Places-1 -> Fd \cup {0}]
      /\ \A s \in 0..n-2 : clients'[s] = IF s = k THEN clients[n-1] ELSE clients[s]
  <2>1. clients \in [0..Places-1 -> Fd \cup {0}] /\ clients' = [clients EXCEPT ![k] = clients[n-1]]
    BY DEF SelectTable, SelectRemoves
  <2>2. k \in 0..Places-1 /\ n-1 \in 0..Places-1 /\ 0..n-2 \subseteq 0..Places-1
    BY <1>2
  <2> HIDE DEF n, k
  <2> QED BY <2>1, <2>2
<1>4. /\ \A s, t \in 0..n-1 : clients[s] = clients[t] => s = t
      /\ Open = {clients[s] : s \in 0..n-1}
  BY DEF SelectTable
<1>5. /\ 0..n-2 \subseteq 0..n-1 /\ nclients' - 1 = n-2 /\ nclients' \in 0..Places
      /\ \A s \in 0..n-2 : s # n-1
      /\ \A s \in 0..n-1 : s # n-1 => s \in 0..n-2
  BY <1>2
<1>6. d = clients[k]
  OBVIOUS
<1> HIDE DEF n, d, k
<1>7. \A s, t \in 0..n-2 : clients'[s] = clients'[t] => s = t
  BY <1>2, <1>3, <1>4, <1>5
<1>8. Open' = {clients'[s] : s \in 0..n-2}
  <2>1. ASSUME NEW x \in Open' PROVE \E s \in 0..n-2 : clients'[s] = x
    <3> PICK s \in 0..n-1 : clients[s] = x /\ s # k
      BY <1>1, <1>4, <1>6
    <3>1. CASE s = n-1
      <4> k \in 0..n-2
        BY <1>2, <1>5, <3>1
      <4> QED BY <1>3, <3>1
    <3>2. CASE s # n-1
      BY <1>3, <1>5, <3>2
    <3> QED BY <3>1, <3>2
  <2>2. ASSUME NEW s \in 0..n-2 PROVE clients'[s] \in Open'
    BY <1>1, <1>2, <1>3, <1>4, <1>5, <1>6
  <2> QED BY <2>1, <2>2
<1>9. SelectTable'
  <2>1. maxclient_fd' \in Fd \cup {listenfd} /\ allset' \subseteq Bits
    BY DEF SelectTable, SelectRemoves
  <2>2. allset' = Open' \cup {listenfd}
    <3> listenfd # d
      BY <1>1, OpenDescriptors
    <3> QED BY <1>1 DEF SelectTable, SelectRemoves, d
  <2> QED BY <1>3, <1>5, <1>7, <1>8, <2>1, <2>2 DEF SelectTable
<1>10. SelectReported'
  <2>1. /\ rset' = rset /\ rset \subseteq Bits
        /\ \A f \in rset, s \in 0..n-1 : s >= k /\ clients[s] = f => Readable(f)
        /\ pc' = "scan" /\ i' = k + 1
    BY DEF SelectReported, SelectRemoves, SelectGoesOn, n, k
  <2>2. ASSUME NEW f \in rset, NEW s \in 0..n-2, s >= k + 1, clients'[s] = f
        PROVE  Readable(f)'
    <3>1. s # k /\ s >= k /\ s \in 0..n-1
      BY <1>2, <1>5, <2>2
    <3>2. clients[s] = f /\ f \in Open \ {d}
      BY <1>2, <1>3, <1>4, <1>6, <2>2, <3>1
    <3>3. Readable(f)
      BY <2>1, <3>1, <3>2
    <3> QED BY <1>1, <3>2, <3>3 DEF Steady
  <2> QED BY <1>5, <2>1, <2>2 DEF SelectReported
<1> QED BY <1>1, <1>9, <1>10

(* The table stays as it is. *)
LEMMA SelectPassesOn ==
    ASSUME SockInv, SelectTable, SelectScan, SelectReported, SelectPasses
    PROVE  /\ SockInv' /\ (OneUnderWay => OneUnderWay')
           /\ SelectTable' /\ SelectReported'
<1>1. SockInv' /\ (OneUnderWay => OneUnderWay') /\ Open' = Open
  BY StillEffect, RefuseEffect, EchoEffect DEF ReadyStays, SelectPasses
<1>2. UNCHANGED <<clients, nclients, maxclient_fd, allset, rset>>
  BY DEF SelectPasses
<1>3. SelectTable'
  BY <1>1, <1>2 DEF SelectTable
<1>4. rset' \subseteq Bits
  BY <1>2 DEF SelectReported
<1>5. ASSUME pc' = "wait" PROVE SelectReported'
  BY <1>4, <1>5 DEF SelectReported
<1>6. ASSUME pc' = "scan" /\ i' = 0 /\ pc = "process" /\ UNCHANGED sockVars
      PROVE  SelectReported'
  <2>1. ASSUME NEW f \in rset, NEW s \in 0..nclients-1, clients[s] = f
        PROVE  Readable(f)'
    <3>1. f \in Open /\ f # listenfd
      BY <2>1, OpenDescriptors DEF SelectTable
    <3>2. Readable(f)
      BY <1>6, <3>1 DEF SelectReported
    <3> QED BY <1>6, <3>1, <3>2, StillEffect DEF ReadyStays, Steady
  <2> QED BY <1>2, <1>4, <1>6, <2>1 DEF SelectReported
<1>7. ASSUME pc' = "scan" /\ i' = i + 1 /\ pc = "scan",
             UNCHANGED sockVars \/ (ReadAndEcho(clients[i]) /\ i < nclients)
      PROVE  SelectReported'
  <2>1. ASSUME NEW f \in rset, NEW s \in 0..nclients-1, s >= i + 1, clients[s] = f
        PROVE  Readable(f)'
    <3>1. i \in Nat /\ nclients \in Nat
      BY SelectSizes DEF SelectScan
    <3>2. Readable(f) /\ f \in Open
      BY <1>7, <2>1, <3>1 DEF SelectReported, SelectTable
    <3>3. CASE UNCHANGED sockVars
      BY <3>2, <3>3, StillEffect DEF ReadyStays, Steady
    <3>4. CASE ReadAndEcho(clients[i]) /\ i < nclients
      <4>1. Steady(Open \ {clients[i]})
        BY <3>4, EchoEffect
      <4>2. f # clients[i]
        <5> i \in 0..nclients-1 /\ s # i
          BY <2>1, <3>1, <3>4
        <5> QED BY <2>1 DEF SelectTable
      <4> QED BY <3>2, <4>1, <4>2 DEF Steady
    <3> QED BY <1>7, <3>3, <3>4
  <2> QED BY <1>2, <1>4, <1>7, <2>1 DEF SelectReported
<1>8. SelectReported'
  BY <1>5, <1>6, <1>7 DEF SelectPasses, SelectGoesOn, SelectReturns
<1> QED BY <1>1, <1>3, <1>8

(* A step of the server. *)
LEMMA SelectKeeps ==
    ASSUME SockInv, OneUnderWay, SelectInv, Select!ServerStep, "select" \in Kind
    PROVE  SockInv' /\ OneUnderWay' /\ SelectInv'
<1>1. SelectTable /\ SelectScan /\ SelectReported
  BY SelectParts
<1>2. CASE Select!loop
  <2>1. SelectReports
    BY <1>2, SelectLoops
  <2>2. SockInv' /\ OneUnderWay' /\ Open' = Open /\ Steady(Open)
    BY <2>1, StillEffect DEF SelectReports, ReadyStays
  <2>3. SelectTable'
    BY <1>1, <2>1, <2>2 DEF SelectTable, SelectReports
  <2>4. SelectScan'
    <3>1. rset' \subseteq allset /\ rset' # {} /\ nready' = Cardinality(rset')
      BY <2>1 DEF SelectReports
    <3>2. IsFiniteSet(rset') /\ Cardinality(rset') <= nclients + 1 /\ Cardinality(rset') \in Nat
      BY <1>1, <3>1, SelectSizes, FS_Subset, FS_CardinalityType
    <3>3. Cardinality(rset') # 0
      BY <3>1, <3>2, FS_EmptySet
    <3>4. pc' = "process" /\ i' = i
      BY <2>1 DEF SelectReports
    <3> QED BY <1>1, <3>1, <3>2, <3>3, <3>4, SelectSizes DEF SelectScan
  <2>5. SelectReported'
    <3>1. /\ pc' = "process" /\ rset' \subseteq allset /\ allset' = allset
          /\ \A f \in rset' \ {listenfd} : Readable(f)
      BY <2>1 DEF SelectReports
    <3>2. \A f \in rset' \ {listenfd} : Readable(f)'
      BY <2>2, <3>1 DEF Steady, Readable
    <3>3. rset' \subseteq Bits
      BY <1>1, <3>1 DEF SelectTable
    <3> QED BY <3>1, <3>2, <3>3 DEF SelectReported
  <2> QED BY <2>2, <2>3, <2>4, <2>5, SelectParts
<1>3. CASE Select!ProcessListen \/ Select!ProcessSlot \/ Select!ProcessReturns
  <2>1. SelectScan'
    BY <1>1, <1>3, SelectScans DEF SelectTable
  <2>2. SockInv' /\ OneUnderWay' /\ SelectTable' /\ SelectReported'
    BY <1>1, <1>3, SelectActs, SelectAddsOne, SelectRemovesOne, SelectPassesOn
  <2> QED BY <2>1, <2>2, SelectParts
<1> QED BY <1>2, <1>3 DEF Select!ServerStep

(* A step of a client. *)
LEMMA SelectKept ==
    ASSUME SockInv, SelectInv, ReadyStays,
           UNCHANGED <<clients, nclients, maxclient_fd, allset, rset, nready, i, pc>>
    PROVE  SelectInv'
<1>1. SelectTable /\ SelectScan /\ SelectReported
  BY SelectParts
<1>2. Open' = Open /\ Steady(Open)
  BY DEF ReadyStays
<1>3. SelectTable' /\ SelectScan'
  BY <1>1, <1>2 DEF SelectTable, SelectScan
<1>4. \A f : Readable(f) => Readable(f)'
  BY <1>2 DEF Steady, Readable
<1>5. SelectReported'
  BY <1>1, <1>4 DEF SelectReported
<1> QED BY <1>3, <1>5, SelectParts

-----------------------------------------------------------------------------
(* The server over epoll.                                                    *)

(* Its sockets are those of this module. *)
LEMMA EpollSockets ==
    /\ Epoll!Open = Open /\ Epoll!FreeFd = FreeFd
    /\ \A f : /\ Epoll!accept(f) <=> accept(f)
              /\ Epoll!ReadAndEcho(f) <=> ReadAndEcho(f)
              /\ Epoll!AtEnd(f) <=> AtEnd(f)
              /\ Epoll!Close(f) <=> Close(f)
              /\ Epoll!Readable(f) <=> Readable(f)
              /\ Epoll!Ready(f) <=> Ready(f)
<1>1. Epoll!Open = Open /\ Epoll!FreeFd = FreeFd
  BY DEF Epoll!Open, Open, Epoll!FreeFd, FreeFd
<1>2. \A f : Epoll!accept(f) <=> accept(f)
  BY <1>1 DEF Epoll!accept, accept
<1>3. \A f : Epoll!ReadAndEcho(f) <=> ReadAndEcho(f)
  BY <1>1 DEF Epoll!ReadAndEcho, ReadAndEcho
<1>4. \A f : Epoll!AtEnd(f) <=> AtEnd(f)
  BY <1>1 DEF Epoll!AtEnd, AtEnd
<1>5. \A f : Epoll!Close(f) <=> Close(f)
  BY <1>1 DEF Epoll!Close, Close
<1>6. \A f : Epoll!Readable(f) <=> Readable(f)
  BY <1>1 DEF Epoll!Readable, Readable
<1>7. \A f : Epoll!Ready(f) <=> Ready(f)
  BY <1>6 DEF Epoll!Ready, Ready
<1> QED BY <1>1, <1>2, <1>3, <1>4, <1>5, <1>6, <1>7

(* What does not depend on the sockets. *)
EpollTypes ==
    /\ batch \subseteq Fd \cup {listenfd, 0}
    /\ typed \in BOOLEAN
    /\ pc \in {"wait", "process", "end"}
    /\ pc # "process" => batch = {}
    /\ 0 \in batch => 0 \in interest

EpollSet ==
    /\ interest = Open \cup IF listening THEN {listenfd, 0} ELSE {}
    /\ nclients = Cardinality(interest)

EpollReady == \A f \in batch \cap Fd : Readable(f)

(* The invariant says no less. *)
LEMMA EpollParts ==
    /\ EpollInv => EpollTypes /\ EpollSet /\ EpollReady
    /\ SockInv /\ EpollTypes /\ EpollSet /\ EpollReady => EpollInv
    /\ SockInv' /\ EpollTypes' /\ EpollSet' /\ EpollReady' => EpollInv'
<1>1. EpollInv => EpollTypes /\ EpollSet /\ EpollReady
  BY DEF EpollInv, EpollTypes, EpollSet, EpollReady, Epoll!EpollOK, Epoll!stdin
<1>2. ASSUME SockInv, EpollSet
      PROVE  interest \subseteq Fd \cup {listenfd, 0} /\ nclients \in Nat
  <2>1. Open \subseteq Fd /\ IsFiniteSet(Open)
    BY <1>2, OpenDescriptors
  <2>2. IsFiniteSet(IF listening THEN {listenfd, 0} ELSE {})
    <3> IsFiniteSet({}) /\ IsFiniteSet({listenfd} \cup {0}) /\ {listenfd} \cup {0} = {listenfd, 0}
      BY FS_EmptySet, FS_Singleton, FS_AddElement
    <3> QED OBVIOUS
  <2>3. IsFiniteSet(interest)
    BY <1>2, <2>1, <2>2, FS_Union DEF EpollSet
  <2> QED BY <1>2, <2>1, <2>3, FS_CardinalityType DEF EpollSet
<1>3. SockInv /\ EpollTypes /\ EpollSet /\ EpollReady => EpollInv
  BY <1>2 DEF EpollInv, EpollTypes, EpollSet, EpollReady, Epoll!EpollOK, Epoll!stdin
<1>4. (SockInv /\ EpollTypes /\ EpollSet /\ EpollReady => EpollInv)'
  BY <1>3, PTL
<1> QED BY <1>1, <1>3, <1>4

(* The set the kernel keeps is finite. *)
LEMMA EpollSetIsFinite ==
    ASSUME SockInv, EpollSet
    PROVE  IsFiniteSet(interest) /\ listenfd \notin Fd /\ 0 \notin Fd /\ listenfd # 0
<1>1. IsFiniteSet(Open)
  BY OpenDescriptors
<1>2. IsFiniteSet({}) /\ IsFiniteSet({listenfd} \cup {0}) /\ {listenfd} \cup {0} = {listenfd, 0}
  BY FS_EmptySet, FS_Singleton, FS_AddElement
<1>3. IsFiniteSet(IF listening THEN {listenfd, 0} ELSE {})
  BY <1>2
<1> QED BY <1>1, <1>3, FS_Union, SocketAssumption DEF EpollSet

EpollReports ==
    /\ pc = "wait" /\ pc' = "process"
    /\ batch' \subseteq interest
    /\ \A f \in batch' \cap Fd : Readable(f)
    /\ UNCHANGED <<sockVars, interest, nclients, typed>>

EpollAccepts ==
    /\ pc = "process" /\ accept(FreeFd)
    /\ interest' = interest \cup {FreeFd} /\ nclients' = nclients + 1
    /\ batch' = batch \ {listenfd}
    /\ UNCHANGED <<typed, pc>>

EpollTerminates ==
    /\ pc = "process" /\ 0 \in batch
    /\ interest' = interest \ {listenfd, 0} /\ nclients' = nclients - 2
    /\ listening' = FALSE /\ backlog' = <<>>
    /\ batch' = batch \ {0}
    /\ UNCHANGED <<owner, inbox, replies, at, try, typed, pc>>

EpollEchoes(f) ==
    /\ pc = "process" /\ ReadAndEcho(f)
    /\ batch' = batch \ {f}
    /\ UNCHANGED <<interest, nclients, typed, pc>>

EpollRemoves(f) ==
    /\ pc = "process" /\ f \in Open /\ Close(f)
    /\ interest' = interest \ {f} /\ nclients' = nclients - 1
    /\ batch' = batch \ {f}
    /\ UNCHANGED <<typed, pc>>

EpollPasses ==
    /\ UNCHANGED <<sockVars, interest, nclients>>
    /\ batch' \in {batch, {}}
    /\ typed' \in {typed, TRUE}
    /\ \/ UNCHANGED pc
       \/ pc' \in {"wait", "end"} /\ batch = {}

(* What loop and process do. *)
LEMMA EpollActs ==
    ASSUME EpollTypes, Epoll!ServerStep \/ Epoll!Types
    PROVE  \/ EpollReports \/ EpollAccepts \/ EpollTerminates \/ EpollPasses
           \/ \E f \in Fd : EpollEchoes(f) \/ EpollRemoves(f)
<1>1. CASE Epoll!loop
  <2> DEFINE ready == {f \in interest : IF f = 0 THEN typed ELSE Ready(f)}
  <2>1. /\ pc = "wait" /\ pc' = "process"
        /\ batch' \in IF Epoll!Cardinality(ready) > nclients THEN Epoll!kSubset(nclients, ready)
                                                             ELSE {ready}
        /\ UNCHANGED <<sockVars, interest, nclients, typed>>
    BY <1>1, EpollSockets DEF Epoll!loop, Epoll!stdin, Epoll!sockVars, sockVars
  <2>2. batch' \subseteq ready
    <3> HIDE DEF ready
    <3> QED BY <2>1 DEF Epoll!kSubset
  <2>3. \A f \in Fd : f # listenfd /\ f # 0
    BY SocketAssumption
  <2>4. \A f \in ready \cap Fd : Readable(f)
    BY <2>3 DEF Ready
  <2> QED BY <2>1, <2>2, <2>4 DEF EpollReports
<1>2. CASE Epoll!LoopEnds
  BY <1>2 DEF Epoll!LoopEnds, EpollPasses, EpollTypes, Epoll!sockVars, sockVars
<1>3. CASE Epoll!NewConnection
  BY <1>3, EpollSockets
  DEF Epoll!NewConnection, Epoll!Event, EpollAccepts, EpollPasses, Epoll!sockVars, sockVars
<1>4. CASE Epoll!Terminate
  BY <1>4 DEF Epoll!Terminate, Epoll!Event, Epoll!stdin, EpollTerminates
<1>5. CASE Epoll!ProcessReturns
  BY <1>5 DEF Epoll!ProcessReturns, EpollPasses, Epoll!sockVars, sockVars
<1>6. ASSUME NEW f \in Fd, Epoll!Request(f) PROVE EpollEchoes(f) \/ EpollRemoves(f)
  BY <1>6, EpollSockets
  DEF Epoll!Request, Epoll!Event, Epoll!rem_client, EpollEchoes, EpollRemoves, AtEnd
<1>7. CASE Epoll!Types
  BY <1>7 DEF Epoll!Types, EpollPasses, Epoll!sockVars, sockVars
<1> QED BY <1>1, <1>2, <1>3, <1>4, <1>5, <1>6, <1>7 DEF Epoll!ServerStep

(* What was ready stays so, except the descriptor that is dealt with. *)
LEMMA EpollReadyStays ==
    ASSUME EpollReady, NEW S, Steady(Open \cap S), batch' \cap Fd \subseteq batch \cap S
    PROVE  EpollReady'
<1> SUFFICES ASSUME NEW f \in batch', f \in Fd PROVE Readable(f)'
  BY DEF EpollReady
<1>1. Readable(f) /\ f \in S
  BY DEF EpollReady
<1> QED BY <1>1 DEF Steady, Readable

(* A step of the server, or somebody types. *)
LEMMA EpollKeeps ==
    ASSUME SockInv, OneUnderWay, EpollInv, Epoll!ServerStep \/ Epoll!Types
    PROVE  SockInv' /\ OneUnderWay' /\ EpollInv'
<1>1. EpollTypes /\ EpollSet /\ EpollReady
  BY EpollParts
<1>2. /\ interest = Open \cup (IF listening THEN {listenfd, 0} ELSE {})
      /\ nclients = Cardinality(interest) /\ nclients \in Nat
      /\ IsFiniteSet(interest) /\ listenfd \notin Fd /\ 0 \notin Fd /\ listenfd # 0
      /\ Open \subseteq Fd
  BY <1>1, EpollSetIsFinite, OpenDescriptors, FS_CardinalityType DEF EpollSet
<1>3. CASE EpollReports
  <2>1. SockInv' /\ OneUnderWay' /\ Open' = Open /\ Steady(Open) /\ listening' = listening
    BY <1>3, StillEffect DEF EpollReports, ReadyStays
  <2>2. EpollSet'
    BY <1>1, <1>3, <2>1 DEF EpollSet, EpollReports
  <2>3. EpollTypes'
    BY <1>1, <1>2, <1>3 DEF EpollTypes, EpollReports
  <2>4. EpollReady'
    BY <1>3, <2>1 DEF EpollReady, EpollReports, Steady, Readable
  <2> QED BY <2>1, <2>2, <2>3, <2>4, EpollParts
<1>4. CASE EpollAccepts
  <2>1. /\ SockInv' /\ OneUnderWay' /\ Steady(Open) /\ Open' = Open \cup {FreeFd}
        /\ FreeFd \in Fd /\ FreeFd \notin Open /\ listening' = listening
    BY <1>4, AcceptEffect DEF EpollAccepts
  <2>2. /\ interest' = interest \cup {FreeFd} /\ nclients' = nclients + 1
        /\ batch' = batch \ {listenfd}
        /\ typed' = typed /\ pc' = "process"
    BY <1>4 DEF EpollAccepts
  <2> HIDE DEF FreeFd
  <2>3. FreeFd \notin interest
    BY <1>2, <2>1
  <2>4. Cardinality(interest') = nclients + 1
    BY <1>2, <2>2, <2>3, FS_AddElement
  <2>5. EpollSet'
    BY <1>2, <2>1, <2>2, <2>4 DEF EpollSet
  <2>6. EpollTypes'
    BY <1>1, <2>2 DEF EpollTypes
  <2>7. EpollReady'
    <3> Steady(Open \cap Fd) /\ batch' \cap Fd \subseteq batch \cap Fd
      BY <1>2, <2>1, <2>2 DEF Steady
    <3> QED BY <1>1, EpollReadyStays
  <2> QED BY <2>1, <2>5, <2>6, <2>7, EpollParts
<1>5. CASE EpollTerminates
  <2>1. SockInv' /\ OneUnderWay' /\ Open' = Open /\ Steady(Open) /\ listening' = FALSE
    BY <1>5, DeafEffect DEF EpollTerminates
  <2>2. /\ interest' = interest \ {listenfd, 0} /\ nclients' = nclients - 2
        /\ batch' = batch \ {0} /\ 0 \in batch /\ typed' = typed /\ pc' = "process"
    BY <1>5 DEF EpollTerminates
  <2>3. listening /\ 0 \in interest /\ listenfd \in interest
    <3> 0 \in interest
      BY <1>1, <2>2 DEF EpollTypes
    <3> QED BY <1>2
  <2>4. Cardinality(interest') = nclients - 2
    <3> DEFINE less == interest \ {listenfd}
    <3>1. IsFiniteSet(less) /\ Cardinality(less) = nclients - 1 /\ 0 \in less
      BY <1>2, <2>3, FS_RemoveElement
    <3>2. interest' = less \ {0}
      BY <2>2
    <3> HIDE DEF less
    <3>3. Cardinality(less \ {0}) = Cardinality(less) - 1
      BY <3>1, FS_RemoveElement
    <3> QED BY <1>2, <3>1, <3>2, <3>3
  <2>5. interest' = Open
    BY <1>2, <2>2, <2>3
  <2>6. EpollSet'
    BY <2>1, <2>2, <2>4, <2>5 DEF EpollSet
  <2>7. EpollTypes'
    BY <1>1, <2>2 DEF EpollTypes
  <2>8. EpollReady'
    <3> Steady(Open \cap Fd) /\ batch' \cap Fd \subseteq batch \cap Fd
      BY <1>2, <2>1, <2>2 DEF Steady
    <3> QED BY <1>1, EpollReadyStays
  <2> QED BY <2>1, <2>6, <2>7, <2>8, EpollParts
<1>6. ASSUME NEW f \in Fd, EpollEchoes(f)
      PROVE  SockInv' /\ OneUnderWay' /\ EpollInv'
  <2>1. SockInv' /\ OneUnderWay' /\ Open' = Open /\ Steady(Open \ {f}) /\ listening' = listening
    BY <1>6, EchoEffect DEF EpollEchoes
  <2>2. batch' = batch \ {f} /\ pc = "process" /\ UNCHANGED <<interest, nclients, typed, pc>>
    BY <1>6 DEF EpollEchoes
  <2>3. EpollSet'
    BY <1>1, <2>1, <2>2 DEF EpollSet
  <2>4. EpollTypes'
    BY <1>1, <2>2 DEF EpollTypes
  <2>5. EpollReady'
    <3> Steady(Open \cap (Fd \ {f})) /\ batch' \cap Fd \subseteq batch \cap (Fd \ {f})
      BY <1>2, <2>1, <2>2 DEF Steady
    <3> QED BY <1>1, EpollReadyStays
  <2> QED BY <2>1, <2>3, <2>4, <2>5, EpollParts
<1>7. ASSUME NEW f \in Fd, EpollRemoves(f)
      PROVE  SockInv' /\ OneUnderWay' /\ EpollInv'
  <2>1. /\ SockInv' /\ OneUnderWay' /\ f \in Open /\ Open' = Open \ {f} /\ Steady(Open \ {f})
        /\ listening' = listening
    BY <1>7, CloseEffect DEF EpollRemoves
  <2>2. /\ interest' = interest \ {f} /\ nclients' = nclients - 1
        /\ batch' = batch \ {f} /\ pc = "process" /\ UNCHANGED <<typed, pc>>
    BY <1>7 DEF EpollRemoves
  <2>3. Cardinality(interest') = nclients - 1
    BY <1>2, <2>1, <2>2, FS_RemoveElement
  <2>4. EpollSet'
    BY <1>2, <2>1, <2>2, <2>3 DEF EpollSet
  <2>5. EpollTypes'
    BY <1>1, <1>2, <2>2 DEF EpollTypes
  <2>6. EpollReady'
    <3> Steady(Open \cap (Fd \ {f})) /\ batch' \cap Fd \subseteq batch \cap (Fd \ {f})
      BY <1>2, <2>1, <2>2 DEF Steady
    <3> QED BY <1>1, EpollReadyStays
  <2> QED BY <2>1, <2>4, <2>5, <2>6, EpollParts
<1>8. CASE EpollPasses
  <2>1. SockInv' /\ OneUnderWay' /\ Open' = Open /\ Steady(Open) /\ listening' = listening
    BY <1>8, StillEffect DEF EpollPasses, ReadyStays
  <2>2. UNCHANGED <<interest, nclients>> /\ batch' \subseteq batch
    BY <1>8 DEF EpollPasses
  <2>3. EpollSet'
    BY <1>1, <2>1, <2>2 DEF EpollSet
  <2>4. EpollTypes'
    BY <1>1, <1>8 DEF EpollTypes, EpollPasses
  <2>5. EpollReady'
    <3> Steady(Open \cap Fd) /\ batch' \cap Fd \subseteq batch \cap Fd
      BY <1>2, <2>1, <2>2 DEF Steady
    <3> QED BY <1>1, EpollReadyStays
  <2> QED BY <2>1, <2>3, <2>4, <2>5, EpollParts
<1> QED BY <1>1, <1>3, <1>4, <1>5, <1>6, <1>7, <1>8, EpollActs

(* A step of a client. *)
LEMMA EpollKept ==
    ASSUME SockInv, SockInv', EpollInv, ReadyStays,
           UNCHANGED <<interest, nclients, typed, batch, pc>>
    PROVE  EpollInv'
<1>1. EpollTypes /\ EpollSet /\ EpollReady
  BY EpollParts
<1>2. EpollTypes' /\ EpollSet'
  BY <1>1 DEF EpollTypes, EpollSet, ReadyStays
<1>3. Steady(Open \cap Fd) /\ batch' \cap Fd \subseteq batch \cap Fd
  BY DEF ReadyStays, Steady
<1> QED BY <1>1, <1>2, <1>3, EpollReadyStays, EpollParts


(* The server ends when its set is empty. *)
LEMMA EpollEnds ==
    ASSUME SockInv, EpollInv, NobodyIsLeft, Epoll!ServerStep \/ Epoll!Types
    PROVE  NobodyIsLeft'
<1>1. EpollSet
  BY EpollParts
<1>2. CASE Epoll!LoopEnds
  <2>1. nclients = 0 /\ interest' = interest
    BY <1>2 DEF Epoll!LoopEnds
  <2>2. interest = {}
    BY <1>1, <2>1, EpollSetIsFinite, FS_EmptySet DEF EpollSet
  <2> QED BY <2>1, <2>2 DEF NobodyIsLeft
<1>3. CASE Epoll!loop \/ Epoll!ProcessReturns
  BY <1>3 DEF Epoll!loop, Epoll!ProcessReturns, NobodyIsLeft
<1>4. CASE Epoll!NewConnection \/ Epoll!Terminate
  BY <1>4 DEF Epoll!NewConnection, Epoll!Terminate, Epoll!Event, NobodyIsLeft
<1>5. ASSUME NEW f \in Fd, Epoll!Request(f) PROVE NobodyIsLeft'
  BY <1>5 DEF Epoll!Request, Epoll!Event, NobodyIsLeft
<1>6. CASE Epoll!Types
  BY <1>6 DEF Epoll!Types, NobodyIsLeft
<1> QED BY <1>2, <1>3, <1>4, <1>5, <1>6, Zenon DEF Epoll!ServerStep

-----------------------------------------------------------------------------
(* The server over the loop with callbacks.                                  *)

(* Its sockets are those of this module. *)
LEMMA LoopSockets ==
    /\ Loop!Open = Open /\ Loop!FreeFd = FreeFd
    /\ \A f : /\ Loop!accept(f) <=> accept(f)
              /\ Loop!ReadAndEcho(f) <=> ReadAndEcho(f)
              /\ Loop!AtEnd(f) <=> AtEnd(f)
              /\ Loop!Readable(f) <=> Readable(f)
              /\ Loop!Ready(f) <=> Ready(f)
<1>1. Loop!Open = Open /\ Loop!FreeFd = FreeFd
  BY DEF Loop!Open, Open, Loop!FreeFd, FreeFd
<1>2. \A f : Loop!accept(f) <=> accept(f)
  BY <1>1 DEF Loop!accept, accept
<1>3. \A f : Loop!ReadAndEcho(f) <=> ReadAndEcho(f)
  BY <1>1 DEF Loop!ReadAndEcho, ReadAndEcho
<1>4. \A f : Loop!AtEnd(f) <=> AtEnd(f)
  BY <1>1 DEF Loop!AtEnd, AtEnd
<1>5. \A f : Loop!Readable(f) <=> Readable(f)
  BY <1>1 DEF Loop!Readable, Readable
<1>6. \A f : Loop!Ready(f) <=> Ready(f)
  BY <1>5 DEF Loop!Ready, Ready
<1> QED BY <1>1, <1>2, <1>3, <1>4, <1>5, <1>6

Callback == {NULL, "on_new_connection", "on_read_request"}
Registered == {f \in Fd \cup {listenfd} : handles[f] # NULL}

(* The handles, and the batch. *)
LoopHandles ==
    /\ handles \in [Fd \cup {listenfd} -> Callback]
    /\ listening
    /\ handles[listenfd] = "on_new_connection"
    /\ \A f \in Fd : handles[f] # NULL => f \in Open
    /\ \A f \in Open : handles[f] # NULL \/ AtEnd(f)
    /\ nclients = Cardinality(Registered)

LoopBatch ==
    /\ batch \subseteq Registered
    /\ pc \in {"wait", "process"}
    /\ pc = "wait" => batch = {}
    /\ \A f \in batch : Ready(f)

(* What is registered is finite. *)
LEMMA RegisteredIsFinite ==
    /\ IsFiniteSet(Registered) /\ Cardinality(Registered) \in Nat
    /\ Loop!Registered = Registered
<1>1. IsFiniteSet(Fd \cup {listenfd})
  BY SocketAssumption, FS_AddElement
<1>2. Registered \subseteq Fd \cup {listenfd}
  BY DEF Registered
<1> QED BY <1>1, <1>2, FS_Subset, FS_CardinalityType DEF Loop!Registered, Registered

(* The invariant says no more and no less. *)
LEMMA LoopParts ==
    (LoopInv <=> LoopHandles /\ LoopBatch) /\ (LoopInv' <=> LoopHandles' /\ LoopBatch')
<1>1. LoopInv <=> LoopHandles /\ LoopBatch
  BY RegisteredIsFinite, Zenon
  DEF LoopInv, LoopHandles, LoopBatch, Loop!LoopOK, Callback, Registered
<1>2. (LoopInv <=> LoopHandles /\ LoopBatch)'
  BY <1>1, PTL
<1> QED BY <1>1, <1>2

LoopReports ==
    /\ pc = "wait" /\ pc' = "process"
    /\ batch' \subseteq Registered /\ \A f \in batch' : Ready(f)
    /\ UNCHANGED <<sockVars, handles, nclients>>

LoopAccepts ==
    /\ pc = "process" /\ accept(FreeFd)
    /\ handles' = [handles EXCEPT ![FreeFd] = "on_read_request"]
    /\ nclients' = nclients + 1
    /\ batch' = batch \ {listenfd}
    /\ UNCHANGED pc

LoopEchoes(f) ==
    /\ pc = "process" /\ handles[f] # NULL /\ ReadAndEcho(f)
    /\ batch' = batch \ {f}
    /\ UNCHANGED <<handles, nclients, pc>>

LoopCloses(f) ==
    /\ pc = "process" /\ f \in batch /\ AtEnd(f)
    /\ handles' = [handles EXCEPT ![f] = NULL]
    /\ nclients' = nclients - 1
    /\ batch' = batch \ {f}
    /\ UNCHANGED <<sockVars, pc>>

LoopReturns ==
    /\ batch = {} /\ pc' = "wait"
    /\ UNCHANGED <<sockVars, handles, nclients, batch>>

(* What ah_loop and the callbacks do. *)
LEMMA LoopActs ==
    ASSUME Loop!ServerStep
    PROVE  \/ LoopReports \/ LoopAccepts \/ LoopReturns
           \/ \E f \in Fd : LoopEchoes(f) \/ LoopCloses(f)
<1>1. CASE Loop!ah_loop
  <2> DEFINE ready == {f \in Registered : Ready(f)}
  <2>1. /\ pc = "wait" /\ pc' = "process"
        /\ batch' \in IF Loop!Cardinality(ready) > nclients THEN Loop!kSubset(nclients, ready)
                                                            ELSE {ready}
        /\ UNCHANGED <<sockVars, handles, nclients>>
    BY <1>1, LoopSockets, RegisteredIsFinite DEF Loop!ah_loop, Loop!sockVars, sockVars
  <2>2. batch' \subseteq ready
    <3> HIDE DEF ready
    <3> QED BY <2>1 DEF Loop!kSubset
  <2> QED BY <2>1, <2>2 DEF LoopReports
<1>2. CASE Loop!on_new_connection
  BY <1>2, LoopSockets DEF Loop!on_new_connection, Loop!Calls, Loop!Regist, LoopAccepts
<1>3. CASE Loop!ProcessReturns
  BY <1>3 DEF Loop!ProcessReturns, LoopReturns, Loop!sockVars, sockVars
<1>4. ASSUME NEW f \in Fd, Loop!on_read_request(f) PROVE LoopEchoes(f) \/ LoopCloses(f)
  BY <1>4, LoopSockets, SocketAssumption
  DEF Loop!on_read_request, Loop!Calls, Loop!ah_close, LoopEchoes, LoopCloses,
      Loop!sockVars, sockVars
<1> QED BY <1>1, <1>2, <1>3, <1>4 DEF Loop!ServerStep

(* What was ready stays so. *)
LEMMA LoopReadyStays ==
    ASSUME LoopHandles, LoopBatch, batch' \subseteq batch, Steady(Open \cap batch'),
           listenfd \in batch' => (backlog # <<>> => backlog' # <<>>) /\ listening' = listening
    PROVE  \A f \in batch' : Ready(f)'
<1> SUFFICES ASSUME NEW f \in batch' PROVE Ready(f)'
  OBVIOUS
<1>1. Ready(f)
  BY DEF LoopBatch
<1>2. CASE f = listenfd
  BY <1>1, <1>2 DEF Ready
<1>3. CASE f # listenfd
  <2> Readable(f) /\ f \in Open
    BY <1>1, <1>3 DEF Ready, Readable
  <2> Readable(f)'
    BY DEF Steady
  <2> QED BY <1>3 DEF Ready
<1> QED BY <1>2, <1>3

(* A step of the server. *)
LEMMA LoopKeeps ==
    ASSUME SockInv, OneUnderWay, LoopInv, Loop!ServerStep
    PROVE  SockInv' /\ OneUnderWay' /\ LoopInv'
<1>1. LoopHandles /\ LoopBatch
  BY LoopParts
<1>2. /\ handles \in [Fd \cup {listenfd} -> Callback]
      /\ listening /\ handles[listenfd] = "on_new_connection"
      /\ \A f \in Fd : handles[f] # NULL => f \in Open
      /\ \A f \in Open : handles[f] # NULL \/ AtEnd(f)
      /\ nclients = Cardinality(Registered) /\ IsFiniteSet(Registered) /\ nclients \in Nat
      /\ batch \subseteq Registered /\ pc \in {"wait", "process"}
  BY <1>1, RegisteredIsFinite DEF LoopHandles, LoopBatch
<1>3. listenfd \notin Fd /\ NULL \notin {"on_new_connection", "on_read_request"} /\ Open \subseteq Fd
  BY SocketAssumption, OpenDescriptors
<1>4. CASE LoopReports
  <2>1. /\ SockInv' /\ OneUnderWay' /\ Open' = Open /\ Steady(Open) /\ listening' = listening
        /\ backlog' = backlog
    BY <1>4, StillEffect DEF LoopReports, ReadyStays, sockVars
  <2>2. UNCHANGED <<handles, nclients>> /\ Registered' = Registered
    BY <1>4 DEF LoopReports, Registered
  <2>3. LoopHandles'
    BY <1>1, <2>1, <2>2 DEF LoopHandles, Steady
  <2>4. \A f \in batch' : Ready(f)'
    <3> SUFFICES ASSUME NEW f \in batch' PROVE Ready(f)'
      OBVIOUS
    <3>1. Ready(f)
      BY <1>4 DEF LoopReports
    <3> QED BY <2>1, <3>1 DEF Ready, Readable, Steady
  <2>5. LoopBatch'
    BY <1>4, <2>2, <2>4 DEF LoopBatch, LoopReports
  <2> QED BY <2>1, <2>3, <2>5, LoopParts
<1>5. CASE LoopAccepts
  <2>1. /\ SockInv' /\ OneUnderWay' /\ Steady(Open) /\ Open' = Open \cup {FreeFd}
        /\ FreeFd \in Fd /\ FreeFd \notin Open /\ listening' = listening
    BY <1>5, AcceptEffect DEF LoopAccepts
  <2>2. /\ handles' = [handles EXCEPT ![FreeFd] = "on_read_request"]
        /\ nclients' = nclients + 1 /\ batch' = batch \ {listenfd} /\ pc' = "process"
    BY <1>5 DEF LoopAccepts
  <2> HIDE DEF FreeFd
  <2>3. /\ handles' \in [Fd \cup {listenfd} -> Callback]
        /\ \A f \in Fd \cup {listenfd} :
              handles'[f] = IF f = FreeFd THEN "on_read_request" ELSE handles[f]
    BY <1>2, <2>1, <2>2 DEF Callback
  <2>4. Registered' = Registered \cup {FreeFd} /\ FreeFd \notin Registered
    BY <1>2, <1>3, <2>1, <2>3 DEF Registered
  <2>5. nclients' = Cardinality(Registered')
    BY <1>2, <2>2, <2>4, FS_AddElement
  <2>6. LoopHandles'
    <3>1. \A f \in Fd : handles'[f] # NULL => f \in Open'
      BY <1>2, <2>1, <2>3
    <3>2. \A f \in Open' : handles'[f] # NULL \/ AtEnd(f)'
      BY <1>2, <1>3, <2>1, <2>3 DEF Steady
    <3>3. listening' /\ handles'[listenfd] = "on_new_connection"
      BY <1>2, <1>3, <2>1, <2>3
    <3> QED BY <2>3, <2>5, <3>1, <3>2, <3>3 DEF LoopHandles
  <2>7. \A f \in batch' : Ready(f)'
    <3> Steady(Open \cap batch') /\ listenfd \notin batch' /\ batch' \subseteq batch
      BY <2>1, <2>2 DEF Steady
    <3> QED BY <1>1, LoopReadyStays
  <2>8. LoopBatch'
    BY <1>2, <2>2, <2>4, <2>7 DEF LoopBatch
  <2> QED BY <2>1, <2>6, <2>8, LoopParts
<1>6. ASSUME NEW f \in Fd, LoopEchoes(f)
      PROVE  SockInv' /\ OneUnderWay' /\ LoopInv'
  <2>1. /\ SockInv' /\ OneUnderWay' /\ Open' = Open /\ Steady(Open \ {f})
        /\ listening' = listening /\ backlog' = backlog
    BY <1>6, EchoEffect DEF LoopEchoes
  <2>2. /\ UNCHANGED <<handles, nclients>> /\ Registered' = Registered
        /\ batch' = batch \ {f} /\ pc' = "process" /\ handles[f] # NULL
    BY <1>6 DEF LoopEchoes, Registered
  <2>3. LoopHandles'
    BY <1>1, <2>1, <2>2 DEF LoopHandles, Steady
  <2>4. \A g \in batch' : Ready(g)'
    <3> Steady(Open \cap batch') /\ batch' \subseteq batch
      BY <2>1, <2>2 DEF Steady
    <3> QED BY <1>1, <2>1, LoopReadyStays
  <2>5. LoopBatch'
    BY <1>2, <2>2, <2>4 DEF LoopBatch
  <2> QED BY <2>1, <2>3, <2>5, LoopParts
<1>7. ASSUME NEW f \in Fd, LoopCloses(f)
      PROVE  SockInv' /\ OneUnderWay' /\ LoopInv'
  <2>1. /\ SockInv' /\ OneUnderWay' /\ Open' = Open /\ Steady(Open)
        /\ listening' = listening /\ backlog' = backlog
    BY <1>7, StillEffect DEF LoopCloses, ReadyStays, sockVars
  <2>2. /\ handles' = [handles EXCEPT ![f] = NULL] /\ nclients' = nclients - 1
        /\ batch' = batch \ {f} /\ f \in batch /\ AtEnd(f) /\ pc' = "process"
    BY <1>7 DEF LoopCloses
  <2>3. /\ handles' \in [Fd \cup {listenfd} -> Callback]
        /\ \A g \in Fd \cup {listenfd} : handles'[g] = IF g = f THEN NULL ELSE handles[g]
    BY <1>2, <2>2 DEF Callback
  <2>4. Registered' = Registered \ {f} /\ f \in Registered
    BY <1>2, <2>2, <2>3 DEF Registered
  <2>5. nclients' = Cardinality(Registered')
    BY <1>2, <2>2, <2>4, FS_RemoveElement
  <2>6. LoopHandles'
    <3>1. \A g \in Fd : handles'[g] # NULL => g \in Open'
      BY <1>2, <2>1, <2>3
    <3>2. f \in Open /\ AtEnd(f)'
      BY <2>1, <2>2 DEF Steady, AtEnd
    <3>3. \A g \in Open' : handles'[g] # NULL \/ AtEnd(g)'
      BY <1>2, <1>3, <2>1, <2>3, <3>2 DEF Steady
    <3>4. listening' /\ handles'[listenfd] = "on_new_connection"
      BY <1>2, <1>3, <2>1, <2>3
    <3> QED BY <2>3, <2>5, <3>1, <3>3, <3>4 DEF LoopHandles
  <2>7. \A g \in batch' : Ready(g)'
    <3> Steady(Open \cap batch') /\ batch' \subseteq batch
      BY <2>1, <2>2 DEF Steady
    <3> QED BY <1>1, <2>1, LoopReadyStays
  <2>8. LoopBatch'
    BY <1>2, <2>2, <2>4, <2>7 DEF LoopBatch
  <2> QED BY <2>1, <2>6, <2>8, LoopParts
<1>8. CASE LoopReturns
  <2>1. /\ SockInv' /\ OneUnderWay' /\ Open' = Open /\ Steady(Open) /\ listening' = listening
    BY <1>8, StillEffect DEF LoopReturns, ReadyStays
  <2>2. UNCHANGED <<handles, nclients>> /\ Registered' = Registered /\ batch' = {} /\ pc' = "wait"
    BY <1>8 DEF LoopReturns, Registered
  <2>3. LoopHandles'
    BY <1>1, <2>1, <2>2 DEF LoopHandles, Steady
  <2>4. LoopBatch'
    BY <2>2 DEF LoopBatch
  <2> QED BY <2>1, <2>3, <2>4, LoopParts
<1> QED BY <1>4, <1>5, <1>6, <1>7, <1>8, LoopActs

(* A step of a client. *)
LEMMA LoopKept ==
    ASSUME LoopInv, ReadyStays, UNCHANGED <<handles, nclients, batch, pc>>
    PROVE  LoopInv'
<1>1. LoopHandles /\ LoopBatch
  BY LoopParts
<1>2. Registered' = Registered /\ Open' = Open /\ Steady(Open) /\ listening' = listening
  BY DEF Registered, ReadyStays
<1>3. LoopHandles'
  BY <1>1, <1>2 DEF LoopHandles, Steady
<1>4. \A f \in batch' : Ready(f)'
  BY <1>1, LoopReadyStays DEF ReadyStays, Steady
<1>5. LoopBatch'
  BY <1>1, <1>2, <1>4 DEF LoopBatch
<1> QED BY <1>3, <1>5, LoopParts

-----------------------------------------------------------------------------
(* The servers over libuv.                                                   *)

(* Its sockets are those of this module. *)
LEMMA UvSockets ==
    /\ Uv!Open = Open /\ Uv!FreeFd = FreeFd
    /\ \A f : /\ Uv!accept(f) <=> accept(f)
              /\ Uv!ReadAndEcho(f) <=> ReadAndEcho(f)
              /\ Uv!AtEnd(f) <=> AtEnd(f)
              /\ Uv!Close(f) <=> Close(f)
<1>1. Uv!Open = Open /\ Uv!FreeFd = FreeFd
  BY DEF Uv!Open, Open, Uv!FreeFd, FreeFd
<1>2. \A f : Uv!accept(f) <=> accept(f)
  BY <1>1 DEF Uv!accept, accept
<1>3. \A f : Uv!ReadAndEcho(f) <=> ReadAndEcho(f)
  BY <1>1 DEF Uv!ReadAndEcho, ReadAndEcho
<1>4. \A f : Uv!AtEnd(f) <=> AtEnd(f)
  BY <1>1 DEF Uv!AtEnd, AtEnd
<1>5. \A f : Uv!Close(f) <=> Close(f)
  BY <1>1 DEF Uv!Close, Close
<1> QED BY <1>1, <1>2, <1>3, <1>4, <1>5

(* So are those of the server with a pool. *)
LEMMA UvPoolSockets ==
    /\ UvPool!Open = Open /\ UvPool!FreeFd = FreeFd
    /\ UvPool!ProcessDies <=> ProcessDies
    /\ \A f : /\ UvPool!accept(f) <=> accept(f)
              /\ UvPool!AtEnd(f) <=> AtEnd(f)
              /\ UvPool!Close(f) <=> Close(f)
<1>1. UvPool!Open = Open /\ UvPool!FreeFd = FreeFd
  BY DEF UvPool!Open, Open, UvPool!FreeFd, FreeFd
<1>2. UvPool!ProcessDies <=> ProcessDies
  BY DEF UvPool!ProcessDies, ProcessDies
<1>3. \A f : UvPool!accept(f) <=> accept(f)
  BY <1>1 DEF UvPool!accept, accept
<1>4. \A f : UvPool!AtEnd(f) <=> AtEnd(f)
  BY <1>1 DEF UvPool!AtEnd, AtEnd
<1>5. \A f : UvPool!Close(f) <=> Close(f)
  BY <1>1 DEF UvPool!Close, Close
<1> QED BY <1>1, <1>2, <1>3, <1>4, <1>5

(* The handle at address a is in use, and the descriptor it has. *)
InUse(a) == handle[a] # NULL /\ a \notin closing
HandleFd(a) == CHOOSE f \in Open : owner[f] = handle[a]

UvTable ==
    /\ handle \in [Fd -> Client \cup {NULL}]
    /\ closing \subseteq {a \in Fd : handle[a] # NULL}

UvOnce ==
    /\ \A a, b \in Fd : InUse(a) /\ InUse(b) /\ handle[a] = handle[b] => a = b
    /\ \A a \in Fd : InUse(a) => \E f \in Open : owner[f] = handle[a]
    /\ \A f \in Open : \E a \in Fd : InUse(a) /\ owner[f] = handle[a]

(* The two servers over libuv have the same table. *)
LEMMA UvNames ==
    /\ \A a : /\ Uv!Active(a) <=> InUse(a)
              /\ UvPool!Active(a) <=> InUse(a)
              /\ Uv!FdOf(a) = HandleFd(a)
              /\ UvPool!FdOf(a) = HandleFd(a)
    /\ Uv!Addr = Fd /\ UvPool!Addr = Fd
    /\ Uv!UvOK <=> UvTable
    /\ UvPool!UvOK <=> UvTable
<1>1. Uv!Addr = Fd /\ UvPool!Addr = Fd
  BY DEF Uv!Addr, UvPool!Addr
<1>2. \A a : (Uv!Active(a) <=> InUse(a)) /\ (UvPool!Active(a) <=> InUse(a))
  BY DEF Uv!Active, UvPool!Active, InUse
<1>3. \A a : Uv!FdOf(a) = HandleFd(a) /\ UvPool!FdOf(a) = HandleFd(a)
  BY UvSockets, UvPoolSockets DEF Uv!FdOf, UvPool!FdOf, HandleFd
<1>4. (Uv!UvOK <=> UvTable) /\ (UvPool!UvOK <=> UvTable)
  BY <1>1 DEF Uv!UvOK, UvPool!UvOK, UvTable
<1> QED BY <1>1, <1>2, <1>3, <1>4

(* The invariant says no more and no less. *)
LEMMA UvParts ==
    /\ UvInv <=> UvTable /\ (listening => UvOnce)
    /\ UvInv' <=> UvTable' /\ (listening' => UvOnce')
<1>1. /\ (\A a, b \in Fd : Uv!Active(a) /\ Uv!Active(b) /\ handle[a] = handle[b] => a = b)
            <=> (\A a, b \in Fd : InUse(a) /\ InUse(b) /\ handle[a] = handle[b] => a = b)
      /\ {handle[a] : a \in {b \in Fd : Uv!Active(b)}} = {handle[a] : a \in {b \in Fd : InUse(b)}}
  BY UvNames
<1>2. ({handle[a] : a \in {b \in Fd : InUse(b)}} = {owner[f] : f \in Open})
        <=> /\ \A a \in Fd : InUse(a) => \E f \in Open : owner[f] = handle[a]
            /\ \A f \in Open : \E a \in Fd : InUse(a) /\ owner[f] = handle[a]
  <2> DEFINE H == {handle[a] : a \in {b \in Fd : InUse(b)}}
             O == {owner[f] : f \in Open}
             U == {b \in Fd : InUse(b)}
  <2>1. \A x : (x \in H <=> \E a \in U : x = handle[a]) /\ (x \in O <=> \E f \in Open : x = owner[f])
    OBVIOUS
  <2>2. \A a : a \in U <=> a \in Fd /\ InUse(a)
    OBVIOUS
  <2>3. (H = O) <=> \A x : x \in H <=> x \in O
    OBVIOUS
  <2> HIDE DEF H, O, U
  <2>4. (H = O) <=> /\ \A a \in U : \E f \in Open : owner[f] = handle[a]
                    /\ \A f \in Open : \E a \in U : owner[f] = handle[a]
    BY <2>1, <2>3
  <2> QED BY <2>2, <2>4 DEF H, O
<1>3. UvInv <=> UvTable /\ (listening => UvOnce)
  BY <1>1, <1>2, UvNames DEF UvInv, UvOnce
<1>4. (UvInv <=> UvTable /\ (listening => UvOnce))'
  BY <1>3, PTL
<1> QED BY <1>3, <1>4

UvAccepts(a) ==
    /\ handle[a] = NULL /\ accept(FreeFd)
    /\ handle' = [handle EXCEPT ![a] = Head(backlog)]
    /\ UNCHANGED closing

UvCloses(a) ==
    /\ listening /\ InUse(a) /\ Close(HandleFd(a))
    /\ closing' = closing \cup {a}
    /\ UNCHANGED handle

UvFrees(a) ==
    /\ a \in closing
    /\ handle' = [handle EXCEPT ![a] = NULL]
    /\ closing' = closing \ {a}
    /\ UNCHANGED sockVars

(* A handle in use has the one descriptor of its connection. *)
LEMMA HandleHasFd ==
    ASSUME SockInv, UvOnce, NEW a \in Fd, InUse(a)
    PROVE  /\ HandleFd(a) \in Open /\ owner[HandleFd(a)] = handle[a]
           /\ \A f \in Open : owner[f] = handle[a] => f = HandleFd(a)
<1>1. \E f \in Open : owner[f] = handle[a]
  BY DEF UvOnce
<1>2. HandleFd(a) \in Open /\ owner[HandleFd(a)] = handle[a]
  BY <1>1 DEF HandleFd
<1> QED BY <1>2 DEF SockInv

(* Nothing happens to the handles or the descriptors, or the process ends. *)
LEMMA UvStays ==
    ASSUME UvInv, UNCHANGED <<handle, closing>>,
           listening' = FALSE \/ UNCHANGED <<owner, listening>>
    PROVE  UvInv'
<1>1. UvTable'
  BY UvParts DEF UvTable
<1>2. CASE listening' = FALSE
  BY <1>1, <1>2, UvParts
<1>3. CASE UNCHANGED <<owner, listening>>
  <2>1. Open' = Open
    BY <1>3 DEF Open
  <2>2. UvOnce => UvOnce'
    BY <1>3, <2>1 DEF UvOnce, InUse
  <2> QED BY <1>1, <1>3, <2>2, UvParts
<1> QED BY <1>2, <1>3

(* A connection is accepted: its handle is put at a free address. *)
LEMMA UvAccepted ==
    ASSUME SockInv, UvInv, NEW a \in Fd, UvAccepts(a)
    PROVE  UvInv' /\ listening' = listening
<1> DEFINE h == Head(backlog)  d == FreeFd
<1>1. /\ Open' = Open \cup {d} /\ d \notin Open
      /\ \A f \in Open : owner'[f] = owner[f] /\ owner[f] # h
      /\ owner'[d] = h /\ h \in Client /\ listening /\ listening' = listening
  BY AcceptEffect DEF UvAccepts
<1>2. handle[a] = NULL /\ handle' = [handle EXCEPT ![a] = h] /\ closing' = closing
  BY DEF UvAccepts
<1>3. UvTable /\ UvOnce /\ NULL \notin Client
  BY <1>1, UvParts, SocketAssumption
<1> HIDE DEF h, d
<1>4. /\ handle' \in [Fd -> Client \cup {NULL}] /\ handle'[a] = h
      /\ \A b \in Fd : b # a => handle'[b] = handle[b]
      /\ a \notin closing /\ h # NULL
  BY <1>1, <1>2, <1>3 DEF UvTable
<1>5. UvTable'
  BY <1>2, <1>3, <1>4 DEF UvTable
<1>6. \A b \in Fd : InUse(b)' <=> b = a \/ InUse(b)
  BY <1>2, <1>4 DEF InUse
<1>7. \A b \in Fd : InUse(b) => b # a /\ handle'[b] = handle[b] /\ handle[b] # h
  BY <1>1, <1>2, <1>3, <1>4 DEF UvOnce, InUse
<1>8. UvOnce'
  <2>1. \A b, c \in Fd : InUse(b)' /\ InUse(c)' /\ handle'[b] = handle'[c] => b = c
    BY <1>3, <1>4, <1>6, <1>7 DEF UvOnce
  <2>2. \A b \in Fd : InUse(b)' => \E f \in Open' : owner'[f] = handle'[b]
    BY <1>1, <1>3, <1>4, <1>6, <1>7 DEF UvOnce
  <2>3. \A f \in Open' : \E b \in Fd : InUse(b)' /\ owner'[f] = handle'[b]
    <3>1. \A f \in Open : \E b \in Fd : InUse(b)' /\ owner'[f] = handle'[b]
      BY <1>1, <1>3, <1>6, <1>7 DEF UvOnce
    <3>2. InUse(a)' /\ owner'[d] = handle'[a]
      BY <1>1, <1>4, <1>6
    <3> QED BY <1>1, <3>1, <3>2
  <2> QED BY <2>1, <2>2, <2>3 DEF UvOnce
<1> QED BY <1>1, <1>5, <1>8, UvParts

(* A connection is closed: its handle waits to be freed. *)
LEMMA UvClosed ==
    ASSUME SockInv, UvInv, NEW a \in Fd, UvCloses(a)
    PROVE  SockInv' /\ UvInv' /\ listening' = listening /\ (OneUnderWay => OneUnderWay')
           /\ UNCHANGED <<inbox, replies, at>>
<1> DEFINE d == HandleFd(a)
<1>1. UvTable /\ UvOnce /\ InUse(a) /\ Close(d) /\ closing' = closing \cup {a} /\ handle' = handle
  BY UvParts DEF UvCloses
<1>2. d \in Open /\ owner[d] = handle[a] /\ \A f \in Open : owner[f] = handle[a] => f = d
  BY <1>1, HandleHasFd
<1>3. /\ SockInv' /\ Open' = Open \ {d} /\ \A f \in Open \ {d} : owner'[f] = owner[f]
      /\ listening' = listening /\ (OneUnderWay => OneUnderWay')
      /\ UNCHANGED <<inbox, replies, at>>
  BY <1>1, <1>2, CloseEffect
<1> HIDE DEF d
<1>4. UvTable'
  BY <1>1 DEF UvTable, InUse
<1>5. \A b \in Fd : InUse(b)' <=> InUse(b) /\ b # a
  BY <1>1 DEF InUse
<1>6. UvOnce'
  <2>1. \A b, c \in Fd : InUse(b)' /\ InUse(c)' /\ handle'[b] = handle'[c] => b = c
    BY <1>1, <1>5 DEF UvOnce
  <2>2. \A b \in Fd : InUse(b)' => \E f \in Open' : owner'[f] = handle'[b]
    <3> SUFFICES ASSUME NEW b \in Fd, InUse(b), b # a
                 PROVE  \E f \in Open' : owner'[f] = handle'[b]
      BY <1>5
    <3>1. PICK f \in Open : owner[f] = handle[b]
      BY <1>1 DEF UvOnce
    <3>2. f # d
      BY <3>1, <1>1, <1>2 DEF UvOnce
    <3> QED BY <1>1, <1>3, <3>1, <3>2
  <2>3. \A f \in Open' : \E b \in Fd : InUse(b)' /\ owner'[f] = handle'[b]
    <3> SUFFICES ASSUME NEW f \in Open, f # d
                 PROVE  \E b \in Fd : InUse(b)' /\ owner'[f] = handle'[b]
      BY <1>3
    <3>1. PICK b \in Fd : InUse(b) /\ owner[f] = handle[b]
      BY <1>1 DEF UvOnce
    <3>2. b # a
      BY <3>1, <1>2
    <3> QED BY <1>1, <1>3, <1>5, <3>1, <3>2
  <2> QED BY <2>1, <2>2, <2>3 DEF UvOnce
<1> QED BY <1>3, <1>4, <1>6, UvParts

(* A handle is freed. *)
LEMMA UvFreed ==
    ASSUME UvInv, NEW a \in Fd, UvFrees(a)
    PROVE  UvInv' /\ listening' = listening
<1>1. /\ a \in closing /\ handle' = [handle EXCEPT ![a] = NULL] /\ closing' = closing \ {a}
      /\ listening' = listening /\ owner' = owner
  BY DEF UvFrees, sockVars
<1>2. UvTable /\ (listening => UvOnce)
  BY UvParts
<1>3. Open' = Open
  BY <1>1 DEF Open
<1>4. UvTable' /\ handle'[a] = NULL /\ \A b \in Fd : b # a => handle'[b] = handle[b]
  BY <1>1, <1>2 DEF UvTable
<1>5. \A b \in Fd : (InUse(b)' <=> InUse(b)) /\ (InUse(b) => handle'[b] = handle[b])
  BY <1>1, <1>4 DEF InUse
<1>6. UvOnce => UvOnce'
  BY <1>1, <1>3, <1>5 DEF UvOnce
<1> QED BY <1>1, <1>2, <1>4, <1>6, UvParts

(* What the callbacks do. *)
LEMMA UvActs ==
    ASSUME Uv!ServerStep
    PROVE  \/ \E a \in Fd : UvAccepts(a) \/ UvCloses(a) \/ UvFrees(a)
           \/ \E f : ReadAndEcho(f) /\ UNCHANGED <<handle, closing>>
<1>1. CASE Uv!on_new_connection
  BY <1>1, UvSockets, UvNames DEF Uv!on_new_connection, UvAccepts
<1>2. ASSUME NEW a \in Fd, Uv!echo_read(a)
      PROVE  \/ UvCloses(a)
             \/ \E f : ReadAndEcho(f) /\ UNCHANGED <<handle, closing>>
  BY <1>2, UvSockets, UvNames DEF Uv!echo_read, Uv!uv_close, UvCloses, Uv!uvVars
<1>3. ASSUME NEW a \in Fd, Uv!on_close(a) PROVE UvFrees(a)
  BY <1>3, UvNames DEF Uv!on_close, UvFrees, Uv!sockVars, sockVars
<1> QED BY <1>1, <1>2, <1>3, UvNames DEF Uv!ServerStep

(* Each step of the server keeps its invariant. *)
LEMMA UvKeeps ==
    ASSUME SockInv, OneUnderWay, UvInv, listening, Uv!ServerStep
    PROVE  SockInv' /\ OneUnderWay' /\ UvInv' /\ listening'
<1>1. ASSUME NEW a \in Fd, UvAccepts(a) PROVE SockInv' /\ OneUnderWay' /\ UvInv' /\ listening'
  BY <1>1, AcceptEffect, UvAccepted DEF UvAccepts
<1>2. ASSUME NEW a \in Fd, UvCloses(a) PROVE SockInv' /\ OneUnderWay' /\ UvInv' /\ listening'
  BY <1>2, UvClosed
<1>3. ASSUME NEW a \in Fd, UvFrees(a) PROVE SockInv' /\ OneUnderWay' /\ UvInv' /\ listening'
  BY <1>3, UvFreed, StillEffect DEF UvFrees
<1>4. ASSUME NEW f, ReadAndEcho(f), UNCHANGED <<handle, closing>>
      PROVE  SockInv' /\ OneUnderWay' /\ UvInv' /\ listening'
  BY <1>4, EchoEffect, UvStays
<1> QED BY <1>1, <1>2, <1>3, <1>4, UvActs

(* And so does each step of a client. *)
LEMMA UvKept ==
    ASSUME UvInv, ReadyStays, UNCHANGED <<handle, closing>>
    PROVE  UvInv' /\ listening' = listening
BY UvStays DEF ReadyStays

-----------------------------------------------------------------------------
(* Its pool.                                                                 *)

(* What is counted is finite. *)
LEMMA CountsAreFinite ==
    /\ IsFiniteSet(Inboxes) /\ Cardinality(Inboxes) \in Nat
    /\ IsFiniteSet(Answers) /\ Cardinality(Answers) \in Nat
    /\ IsFiniteSet(Waiting) /\ Cardinality(Waiting) \in Nat
    /\ Cardinality(Waiting) <= Cardinality(Client)
    /\ Cardinality(Client) \in Nat
<1>1. /\ IsFiniteSet(Client) /\ Cardinality(Client) \in Nat /\ NITERS \in Nat
      /\ IsFiniteSet(1..NITERS) /\ IsFiniteSet(1..Cardinality(Client))
  BY SocketAssumption, FS_CardinalityType, FS_Interval
<1>2. IsFiniteSet(Client \X (1..NITERS)) /\ IsFiniteSet(Client \X (1..Cardinality(Client)))
  BY <1>1, FS_Product
<1>3. /\ Inboxes \subseteq Client \X (1..NITERS)
      /\ Answers \subseteq Client \X (1..Cardinality(Client))
      /\ Waiting \subseteq Client
  BY DEF Inboxes, Answers, Waiting
<1> QED BY <1>1, <1>2, <1>3, FS_Subset, FS_CardinalityType

(* After a step too. *)
LEMMA CountsStayFinite ==
    /\ IsFiniteSet(Inboxes') /\ Cardinality(Inboxes') \in Nat
    /\ IsFiniteSet(Answers') /\ Cardinality(Answers') \in Nat
    /\ IsFiniteSet(Waiting') /\ Cardinality(Waiting') \in Nat
<1>1. (/\ IsFiniteSet(Inboxes) /\ Cardinality(Inboxes) \in Nat
       /\ IsFiniteSet(Answers) /\ Cardinality(Answers) \in Nat
       /\ IsFiniteSet(Waiting) /\ Cardinality(Waiting) \in Nat)'
  BY CountsAreFinite, PTL
<1> QED BY <1>1

(* The same requests, and at least the same clients that wait. *)
LEMMA FewStay ==
    ASSUME FewRequests, UNCHANGED <<inbox, replies, work, done>>, Waiting \subseteq Waiting'
    PROVE  FewRequests'
<1>1. Inboxes' = Inboxes /\ Answers' = Answers
  BY DEF Inboxes, Answers
<1>2. Cardinality(Waiting) <= Cardinality(Waiting') /\ Cardinality(Waiting') \in Nat
  BY CountsAreFinite, CountsStayFinite, FS_Subset
<1>3. Cardinality(work) \in Nat /\ Cardinality(done) \in Nat
  BY FS_CardinalityType DEF FewRequests
<1> QED BY <1>1, <1>2, <1>3, CountsAreFinite DEF FewRequests

(* The steps of the server that do more than those of the server without a pool. *)
Dispatches(a) ==
    /\ InUse(a) /\ inbox[handle[a]] > 0
    /\ inbox' = [inbox EXCEPT ![handle[a]] = @ - 1]
    /\ work' = work \cup {[sender |-> handle[a], try |-> try[handle[a]] - inbox[handle[a]] + 1,
                           client |-> a]}
    /\ UNCHANGED <<listening, backlog, owner, replies, at, try, handle, closing, done>>

Works(w) ==
    /\ work' = work \ {w} /\ done' = done \cup {w}
    /\ UNCHANGED <<sockVars, handle, closing>>

Replies(a) ==
    /\ InUse(a)
    /\ replies' = [replies EXCEPT ![handle[a]] = @ + 1]
    /\ UNCHANGED <<listening, backlog, owner, inbox, at, try>>

Responds(w) ==
    /\ done' = done \ {w}
    /\ UNCHANGED <<work, handle, closing>>
    /\ \/ Replies(w.client)
       \/ ProcessDies
       \/ UNCHANGED sockVars

(* What the callbacks and the threads of the pool do. *)
LEMMA UvPoolActs ==
    ASSUME UvPool!PoolServerStep
    PROVE  \/ /\ \E a \in Fd : UvAccepts(a) \/ UvCloses(a) \/ UvFrees(a)
              /\ UNCHANGED <<work, done>>
           \/ \E a \in Fd : Dispatches(a)
           \/ \E w \in work : Works(w)
           \/ \E w \in done : Responds(w)
<1>1. CASE UvPool!NewConnection
  BY <1>1, UvPoolSockets, UvNames
  DEF UvPool!NewConnection, UvPool!on_new_connection, UvPool!poolVars, UvAccepts
<1>2. ASSUME NEW a \in Fd, UvPool!DispatchWork(a) PROVE Dispatches(a)
  BY <1>2, UvNames DEF UvPool!DispatchWork, UvPool!uvVars, Dispatches
<1>3. ASSUME NEW a \in Fd, UvPool!ReadsEnd(a)
      PROVE  UvCloses(a) /\ UNCHANGED <<work, done>>
  BY <1>3, UvPoolSockets, UvNames DEF UvPool!ReadsEnd, UvPool!uv_close, UvPool!poolVars, UvCloses
<1>4. ASSUME NEW a \in Fd, UvPool!HandleFreed(a)
      PROVE  UvFrees(a) /\ UNCHANGED <<work, done>>
  BY <1>4 DEF UvPool!HandleFreed, UvPool!on_close, UvPool!poolVars, UvFrees, UvPool!sockVars, sockVars
<1>5. ASSUME NEW w \in work, UvPool!do_work(w) PROVE Works(w)
  BY <1>5 DEF UvPool!do_work, UvPool!uvVars, Works, UvPool!sockVars, sockVars
<1>6. ASSUME NEW w \in done, UvPool!send_resp(w) PROVE Responds(w)
  BY <1>6, UvPoolSockets, UvNames
  DEF UvPool!send_resp, UvPool!uvVars, Responds, Replies, UvPool!sockVars, sockVars
<1> QED BY <1>1, <1>2, <1>3, <1>4, <1>5, <1>6, UvNames DEF UvPool!PoolServerStep

(* The connection of a handle in use is a client's. *)
LEMMA HandleIsOfClient ==
    ASSUME UvInv, NEW a \in Fd, InUse(a)
    PROVE  handle[a] \in Client
BY UvParts DEF UvTable, InUse

(* A request goes from its connection to the pool. *)
LEMMA Dispatched ==
    ASSUME SockInv, UvPoolInv, NEW a \in Fd, Dispatches(a)
    PROVE  SockInv' /\ UvPoolInv'
<1> DEFINE c == handle[a]
           r == [sender |-> c, try |-> try[c] - inbox[c] + 1, client |-> a]
<1>1. /\ inbox[c] > 0 /\ inbox' = [inbox EXCEPT ![c] = @ - 1] /\ work' = work \cup {r}
      /\ UNCHANGED <<listening, backlog, owner, replies, at, try, handle, closing, done>>
  BY DEF Dispatches
<1>2. c \in Client
  BY HandleIsOfClient DEF Dispatches, UvPoolInv
<1>3. /\ inbox \in [Client -> Nat] /\ inbox' \in [Client -> Nat] /\ inbox'[c] = inbox[c] - 1
      /\ \A x \in Client \ {c} : inbox'[x] = inbox[x]
      /\ try \in [Client -> 0..NITERS] /\ NITERS \in Nat
      /\ \A x \in Client : inbox[x] <= try[x]
  <2>1. /\ inbox \in [Client -> Nat] /\ try \in [Client -> 0..NITERS] /\ NITERS \in Nat
        /\ \A x \in Client : inbox[x] <= try[x]
    BY SocketAssumption DEF SockInv
  <2>2. inbox[c] \in Nat /\ inbox[c] - 1 \in Nat
    BY <1>1, <1>2, <2>1
  <2> HIDE DEF c
  <2> QED BY <1>1, <1>2, <2>1, <2>2
<1>4. inbox[c] \in 1..NITERS /\ try[c] - inbox[c] + 1 \in 1..NITERS
  BY <1>1, <1>2, <1>3
<1>5. r \in UvPool!Request
  BY <1>2, <1>4, UvNames DEF UvPool!Request
<1> HIDE DEF c, r
<1>6. SockInv'
  <2>1. Open' = Open
    BY <1>1 DEF Open
  <2>2. \A x \in Client : inbox'[x] <= try[x]
    BY <1>2, <1>3
  <2> QED BY <1>1, <1>3, <2>1, <2>2 DEF SockInv, Connected
<1>7. /\ <<c, inbox[c]>> \in Inboxes /\ Inboxes' = Inboxes \ {<<c, inbox[c]>>}
  <2>1. <<c, inbox[c]>> \in Inboxes
    BY <1>2, <1>4 DEF Inboxes
  <2>2. \A m \in Client \X (1..NITERS) :
            m[2] <= inbox'[m[1]] <=> m[2] <= inbox[m[1]] /\ m # <<c, inbox[c]>>
    <3> SUFFICES ASSUME NEW x \in Client, NEW n \in 1..NITERS
                 PROVE  n <= inbox'[x] <=> n <= inbox[x] /\ ~(x = c /\ n = inbox[c])
      OBVIOUS
    <3>1. CASE x = c
      BY <1>2, <1>3, <3>1
    <3>2. CASE x # c
      BY <1>3, <3>2
    <3> QED BY <3>1, <3>2
  <2> QED BY <2>1, <2>2 DEF Inboxes
<1>8. /\ Cardinality(Inboxes') = Cardinality(Inboxes) - 1
      /\ IsFiniteSet(work') /\ Cardinality(work') <= Cardinality(work) + 1
      /\ Cardinality(work') \in Nat /\ Cardinality(work) \in Nat /\ Cardinality(done) \in Nat
  <2>1. IsFiniteSet(work) /\ IsFiniteSet(done)
    BY DEF UvPoolInv, FewRequests
  <2>2. Cardinality(Inboxes') = Cardinality(Inboxes) - 1
    BY <1>7, CountsAreFinite, OneLess
  <2>3. /\ IsFiniteSet(work') /\ Cardinality(work') <= Cardinality(work) + 1
        /\ Cardinality(work') \in Nat /\ Cardinality(work) \in Nat
    BY <1>1, <2>1, OneMore
  <2> QED BY <2>1, <2>2, <2>3, FS_CardinalityType
<1>9. Answers' = Answers /\ Waiting' = Waiting
  BY <1>1 DEF Answers, Waiting
<1>10. FewRequests'
  <2>1. FewRequests
    BY DEF UvPoolInv
  <2>2. /\ work' \subseteq UvPool!Request /\ done' = done /\ replies' = replies
    BY <1>1, <1>5, <2>1 DEF FewRequests
  <2>3. Cardinality(Inboxes') + Cardinality(Answers') + Cardinality(work') + Cardinality(done')
            <= Cardinality(Waiting')
    BY <1>8, <1>9, <2>1, <2>2, CountsAreFinite DEF FewRequests
  <2> QED BY <1>8, <2>1, <2>2, <2>3 DEF FewRequests
<1>11. UvInv'
  BY <1>1, UvStays DEF UvPoolInv
<1> QED BY <1>6, <1>10, <1>11 DEF UvPoolInv

(* A thread of the pool does the work of a request. *)
LEMMA Worked ==
    ASSUME SockInv, UvPoolInv, NEW w \in work, Works(w)
    PROVE  SockInv' /\ UvPoolInv'
<1>1. /\ work' = work \ {w} /\ done' = done \cup {w}
      /\ UNCHANGED sockVars /\ UNCHANGED <<handle, closing>>
  BY DEF Works
<1>2. UNCHANGED <<listening, owner, inbox, replies, at>>
  BY <1>1 DEF sockVars
<1>3. FewRequests
  BY DEF UvPoolInv
<1>4. /\ IsFiniteSet(work') /\ Cardinality(work') = Cardinality(work) - 1
      /\ IsFiniteSet(done') /\ Cardinality(done') <= Cardinality(done) + 1
      /\ Cardinality(work) \in Nat /\ Cardinality(work') \in Nat
      /\ Cardinality(done) \in Nat /\ Cardinality(done') \in Nat
  <2>1. IsFiniteSet(work) /\ IsFiniteSet(done)
    BY <1>3 DEF FewRequests
  <2>2. /\ IsFiniteSet(work') /\ Cardinality(work') = Cardinality(work) - 1
        /\ Cardinality(work) \in Nat /\ Cardinality(work') \in Nat
    BY <1>1, <2>1, OneLess
  <2>3. /\ IsFiniteSet(done') /\ Cardinality(done') <= Cardinality(done) + 1
        /\ Cardinality(done) \in Nat /\ Cardinality(done') \in Nat
    BY <1>1, <2>1, OneMore
  <2> QED BY <2>2, <2>3
<1>5. Inboxes' = Inboxes /\ Answers' = Answers /\ Waiting' = Waiting
  BY <1>2 DEF Inboxes, Answers, Waiting
<1>6. FewRequests'
  <2>1. work' \subseteq UvPool!Request /\ done' \subseteq UvPool!Request
    BY <1>1, <1>3 DEF FewRequests
  <2>2. Cardinality(Inboxes') + Cardinality(Answers') + Cardinality(work') + Cardinality(done')
            <= Cardinality(Waiting')
    BY <1>3, <1>4, <1>5, CountsAreFinite DEF FewRequests
  <2> QED BY <1>2, <1>3, <1>4, <2>1, <2>2 DEF FewRequests
<1>7. UvInv'
  BY <1>1, <1>2, UvStays DEF UvPoolInv
<1> QED BY <1>1, <1>6, <1>7, StillEffect DEF UvPoolInv

(* A request less to answer. *)
LEMMA DoneLess ==
    ASSUME FewRequests, NEW w \in done, done' = done \ {w}
    PROVE  /\ IsFiniteSet(done') /\ Cardinality(done') = Cardinality(done) - 1
           /\ done' \subseteq UvPool!Request
           /\ Cardinality(done) \in Nat /\ Cardinality(done') \in Nat /\ Cardinality(work) \in Nat
           /\ w \in UvPool!Request
BY FS_RemoveElement, FS_CardinalityType DEF FewRequests

(* A reply is written to the client whose handle is at the address. *)
LEMMA Replied ==
    ASSUME SockInv, UvPoolInv, NEW w \in done, Responds(w), Replies(w.client)
    PROVE  SockInv' /\ UvPoolInv'
<1> DEFINE c == handle[w.client]
<1>1. /\ done' = done \ {w} /\ UNCHANGED <<work, handle, closing>>
      /\ replies' = [replies EXCEPT ![c] = @ + 1]
      /\ UNCHANGED <<listening, backlog, owner, inbox, at, try>>
  BY DEF Responds, Replies
<1>2. FewRequests
  BY DEF UvPoolInv
<1>3. /\ IsFiniteSet(done') /\ Cardinality(done') = Cardinality(done) - 1
      /\ done' \subseteq UvPool!Request
      /\ Cardinality(done) \in Nat /\ Cardinality(done') \in Nat /\ Cardinality(work) \in Nat
      /\ w \in UvPool!Request
  BY <1>1, <1>2, DoneLess
<1>4. c \in Client
  <2> w.client \in Fd
    BY <1>3, UvNames DEF UvPool!Request
  <2> QED BY HandleIsOfClient DEF Replies, UvPoolInv
<1> HIDE DEF c
<1>5. /\ replies \in [Client -> Nat] /\ replies' \in [Client -> Nat] /\ replies'[c] = replies[c] + 1
      /\ \A x \in Client \ {c} : replies'[x] = replies[x]
      /\ \A x \in Client : replies[x] <= Cardinality(Client)
  BY <1>1, <1>2, <1>4 DEF SockInv, FewRequests
<1>6. replies[c] + 1 <= Cardinality(Client)
  <2> DEFINE n == replies[c]
             S == {<<c, k>> : k \in 1..n}
             f == [k \in 1..n |-> <<c, k>>]
  <2>1. n \in Nat /\ n <= Cardinality(Client)
    BY <1>4, <1>5
  <2>2. Cardinality(1..n) = n /\ IsFiniteSet(1..n)
    <3> HIDE DEF n
    <3> QED BY <2>1, FS_Interval
  <2>3. \A k \in 1..n : <<c, k>> \in Answers
    BY <1>4, <2>1, CountsAreFinite DEF Answers
  <2>4. f \in Injection(1..n, Answers)
    BY <2>3 DEF Injection, IsInjective
  <2>5. n <= Cardinality(Answers)
    <3> HIDE DEF f, n
    <3> QED BY <2>2, <2>4, CountsAreFinite, FS_Injection
  <2> HIDE DEF n
  <2>6. replies[c] = n
    BY DEF n
  <2> QED BY <1>2, <1>3, <2>1, <2>5, <2>6, CountsAreFinite DEF FewRequests
<1>7. SockInv'
  <2> Open' = Open
    BY <1>1 DEF Open
  <2> QED BY <1>1, <1>5 DEF SockInv, Connected
<1>8. Answers' = Answers \cup {<<c, replies[c] + 1>>}
  <2>1. <<c, replies[c] + 1>> \in Client \X (1..Cardinality(Client))
    BY <1>4, <1>5, <1>6, CountsAreFinite
  <2>2. \A m \in Client \X (1..Cardinality(Client)) :
            m[2] <= replies'[m[1]] <=> m[2] <= replies[m[1]] \/ m = <<c, replies[c] + 1>>
    <3> SUFFICES ASSUME NEW x \in Client, NEW n \in 1..Cardinality(Client)
                 PROVE  n <= replies'[x] <=> n <= replies[x] \/ (x = c /\ n = replies[c] + 1)
      OBVIOUS
    <3>1. CASE x = c
      BY <1>4, <1>5, <3>1, CountsAreFinite
    <3>2. CASE x # c
      BY <1>5, <3>2
    <3> QED BY <3>1, <3>2
  <2> QED BY <2>1, <2>2 DEF Answers
<1>9. Cardinality(Answers') <= Cardinality(Answers) + 1 /\ Cardinality(Answers') \in Nat
  BY <1>8, CountsAreFinite, OneMore
<1>10. Inboxes' = Inboxes /\ Waiting' = Waiting
  BY <1>1 DEF Inboxes, Waiting
<1>11. FewRequests'
  <2>1. \A x \in Client : replies'[x] <= Cardinality(Client)
    BY <1>5, <1>6
  <2>2. Cardinality(Inboxes') + Cardinality(Answers') + Cardinality(work') + Cardinality(done')
            <= Cardinality(Waiting')
    BY <1>1, <1>2, <1>3, <1>9, <1>10, CountsAreFinite DEF FewRequests
  <2> QED BY <1>1, <1>2, <1>3, <2>1, <2>2 DEF FewRequests
<1>12. UvInv'
  BY <1>1, UvStays DEF UvPoolInv
<1> QED BY <1>7, <1>11, <1>12 DEF UvPoolInv

(* The reply goes nowhere, or the process dies of it. *)
LEMMA NotReplied ==
    ASSUME SockInv, UvPoolInv, NEW w \in done, Responds(w), ProcessDies \/ UNCHANGED sockVars
    PROVE  SockInv' /\ UvPoolInv'
<1>1. done' = done \ {w} /\ UNCHANGED <<work, handle, closing>>
  BY DEF Responds
<1>2. /\ SockInv' /\ UNCHANGED <<inbox, replies, at>>
      /\ listening' = FALSE \/ UNCHANGED <<owner, listening>>
  BY DeathEffect, StillEffect DEF ProcessDies, sockVars
<1>3. FewRequests
  BY DEF UvPoolInv
<1>4. /\ IsFiniteSet(done') /\ Cardinality(done') = Cardinality(done) - 1
      /\ done' \subseteq UvPool!Request
      /\ Cardinality(done) \in Nat /\ Cardinality(done') \in Nat /\ Cardinality(work) \in Nat
  BY <1>1, <1>3, DoneLess
<1>5. Inboxes' = Inboxes /\ Answers' = Answers /\ Waiting' = Waiting
  BY <1>2 DEF Inboxes, Answers, Waiting
<1>6. FewRequests'
  <2> Cardinality(Inboxes') + Cardinality(Answers') + Cardinality(work') + Cardinality(done')
            <= Cardinality(Waiting')
    BY <1>1, <1>3, <1>4, <1>5, CountsAreFinite DEF FewRequests
  <2> QED BY <1>1, <1>2, <1>3, <1>4 DEF FewRequests
<1>7. UvInv'
  BY <1>1, <1>2, UvStays DEF UvPoolInv
<1> QED BY <1>2, <1>6, <1>7 DEF UvPoolInv

(* Each step of the server keeps its invariant. *)
LEMMA UvPoolKeeps ==
    ASSUME SockInv, UvPoolInv, UvPool!PoolServerStep
    PROVE  SockInv' /\ UvPoolInv'
<1>1. ASSUME NEW a \in Fd, UvAccepts(a) \/ UvCloses(a) \/ UvFrees(a), UNCHANGED <<work, done>>
      PROVE  SockInv' /\ UvPoolInv'
  <2>1. /\ SockInv' /\ UvInv' /\ UNCHANGED <<inbox, replies, at>>
    <3>1. CASE UvAccepts(a)
      BY <3>1, AcceptEffect, UvAccepted DEF UvAccepts, UvPoolInv
    <3>2. CASE UvCloses(a)
      BY <3>2, UvClosed DEF UvPoolInv
    <3>3. CASE UvFrees(a)
      BY <3>3, UvFreed, StillEffect DEF UvFrees, UvPoolInv, sockVars
    <3> QED BY <1>1, <3>1, <3>2, <3>3
  <2>2. Waiting' = Waiting
    BY <2>1 DEF Waiting
  <2> QED BY <1>1, <2>1, <2>2, FewStay DEF UvPoolInv
<1>2. ASSUME NEW w \in done, Responds(w) PROVE SockInv' /\ UvPoolInv'
  BY <1>2, Replied, NotReplied DEF Responds
<1> QED BY <1>1, <1>2, Dispatched, Worked, UvPoolActs

(* A client that sends a request waits for its reply from then on. *)
LEMMA Written ==
    ASSUME SockInv, FewRequests, NEW c \in Client, Writes(c), UNCHANGED <<work, done>>
    PROVE  FewRequests'
<1>1. /\ at[c] = "write" /\ try[c] < NITERS /\ at' = [at EXCEPT ![c] = "read"]
      /\ inbox' = inbox \/ inbox' = [inbox EXCEPT ![c] = @ + 1]
      /\ replies' = replies
  BY DEF Writes
<1>2. /\ inbox \in [Client -> Nat] /\ try \in [Client -> 0..NITERS] /\ NITERS \in Nat
      /\ inbox[c] <= try[c] /\ at \in [Client -> {"connect", "write", "read", "end"}]
  BY SocketAssumption DEF SockInv
<1>3. Waiting' = Waiting \cup {c} /\ c \notin Waiting
  BY <1>1, <1>2 DEF Waiting
<1>4. Inboxes' = Inboxes \/ Inboxes' = Inboxes \cup {<<c, inbox[c] + 1>>}
  <2>1. CASE inbox' = inbox
    BY <2>1 DEF Inboxes
  <2>2. CASE inbox' = [inbox EXCEPT ![c] = @ + 1]
    <3>1. <<c, inbox[c] + 1>> \in Client \X (1..NITERS)
      BY <1>1, <1>2
    <3>2. \A m \in Client \X (1..NITERS) :
              m[2] <= inbox'[m[1]] <=> m[2] <= inbox[m[1]] \/ m = <<c, inbox[c] + 1>>
      <4> SUFFICES ASSUME NEW x \in Client, NEW n \in 1..NITERS
                   PROVE  n <= inbox'[x] <=> n <= inbox[x] \/ (x = c /\ n = inbox[c] + 1)
        OBVIOUS
      <4>1. CASE x = c
        BY <1>2, <2>2, <4>1
      <4>2. CASE x # c
        BY <1>2, <2>2, <4>2
      <4> QED BY <4>1, <4>2
    <3> QED BY <3>1, <3>2 DEF Inboxes
  <2> QED BY <1>1, <2>1, <2>2
<1>5. /\ Cardinality(Waiting') = Cardinality(Waiting) + 1
      /\ Cardinality(Inboxes') <= Cardinality(Inboxes) + 1
  <2>1. Cardinality(Waiting') = Cardinality(Waiting) + 1
    BY <1>3, CountsAreFinite, OneMore
  <2>2. Cardinality(Inboxes') <= Cardinality(Inboxes) + 1
    <3>1. Cardinality(Inboxes \cup {<<c, inbox[c] + 1>>}) <= Cardinality(Inboxes) + 1
      BY CountsAreFinite, OneMore
    <3>2. Cardinality(Inboxes) <= Cardinality(Inboxes) + 1
      BY CountsAreFinite
    <3> QED BY <1>4, <3>1, <3>2
  <2> QED BY <2>1, <2>2
<1>6. Answers' = Answers /\ Cardinality(work) \in Nat /\ Cardinality(done) \in Nat
  BY <1>1, FS_CardinalityType DEF Answers, FewRequests
<1>7. Cardinality(Inboxes') + Cardinality(Answers') + Cardinality(work') + Cardinality(done')
        <= Cardinality(Waiting')
  BY <1>5, <1>6, CountsAreFinite, CountsStayFinite DEF FewRequests
<1> QED BY <1>1, <1>7 DEF FewRequests

(* A client that reads a reply waits no longer. *)
LEMMA Read ==
    ASSUME SockInv, FewRequests, NEW c \in Client, UNCHANGED <<inbox, work, done>>,
           at[c] = "read", replies[c] > 0,
           replies' = [replies EXCEPT ![c] = @ - 1], at' = [at EXCEPT ![c] = "write"]
    PROVE  FewRequests'
<1>1. /\ replies \in [Client -> Nat] /\ at \in [Client -> {"connect", "write", "read", "end"}]
      /\ \A x \in Client : replies[x] <= Cardinality(Client)
      /\ Cardinality(Client) \in Nat
  BY CountsAreFinite DEF SockInv, FewRequests
<1>2. Waiting' = Waiting \ {c} /\ c \in Waiting
  BY <1>1 DEF Waiting
<1>3. <<c, replies[c]>> \in Answers /\ Answers' = Answers \ {<<c, replies[c]>>}
  <2>1. <<c, replies[c]>> \in Answers
    BY <1>1 DEF Answers
  <2>2. \A m \in Client \X (1..Cardinality(Client)) :
            m[2] <= replies'[m[1]] <=> m[2] <= replies[m[1]] /\ m # <<c, replies[c]>>
    <3> SUFFICES ASSUME NEW x \in Client, NEW n \in 1..Cardinality(Client)
                 PROVE  n <= replies'[x] <=> n <= replies[x] /\ ~(x = c /\ n = replies[c])
      OBVIOUS
    <3>1. CASE x = c
      BY <1>1, <3>1
    <3>2. CASE x # c
      BY <1>1, <3>2
    <3> QED BY <3>1, <3>2
  <2> QED BY <2>1, <2>2 DEF Answers
<1>4. /\ Cardinality(Waiting') = Cardinality(Waiting) - 1
      /\ Cardinality(Answers') = Cardinality(Answers) - 1
  BY <1>2, <1>3, CountsAreFinite, FS_RemoveElement
<1>5. Inboxes' = Inboxes /\ Cardinality(work) \in Nat /\ Cardinality(done) \in Nat
  BY FS_CardinalityType DEF Inboxes, FewRequests
<1>6. \A x \in Client : replies'[x] <= Cardinality(Client)
  BY <1>1
<1>7. Cardinality(Inboxes') + Cardinality(Answers') + Cardinality(work') + Cardinality(done')
        <= Cardinality(Waiting')
  BY <1>4, <1>5, CountsAreFinite DEF FewRequests
<1> QED BY <1>6, <1>7 DEF FewRequests

(* Each step of a client keeps the invariant of the server. *)
LEMMA UvPoolKept ==
    ASSUME SockInv, UvPoolInv, ClientMoves, UNCHANGED <<handle, closing, work, done>>
    PROVE  UvPoolInv'
<1>1. UvInv'
  BY ClientEffect, UvKept DEF UvPoolInv
<1>2. FewRequests
  BY DEF UvPoolInv
<1>3. PICK c \in Client : Connects(c) \/ ClientStep(c) \/ Killed(c)
  BY DEF ClientMoves
<1>4. CASE Writes(c)
  BY <1>1, <1>2, <1>4, Written DEF UvPoolInv
<1>5. CASE Reads(c) /\ replies[c] > 0
  <2> /\ at[c] = "read" /\ replies' = [replies EXCEPT ![c] = @ - 1]
      /\ at' = [at EXCEPT ![c] = "write"] /\ inbox' = inbox
    BY <1>5 DEF Reads
  <2> QED BY <1>1, <1>2, <1>5, Read DEF UvPoolInv
<1>6. CASE Connects(c) \/ (Reads(c) /\ ~(replies[c] > 0)) \/ Ends(c) \/ Killed(c)
  <2>1. /\ UNCHANGED <<inbox, replies>>
        /\ \/ at[c] = "connect"
           \/ at' = [at EXCEPT ![c] = "end"]
        /\ at' \in {[at EXCEPT ![c] = "write"], [at EXCEPT ![c] = "end"]}
    BY <1>6 DEF Connects, Reads, Ends, Killed
  <2>2. at \in [Client -> {"connect", "write", "read", "end"}]
    BY DEF SockInv
  <2>3. Waiting \subseteq Waiting'
    BY <2>1, <2>2 DEF Waiting
  <2> QED BY <1>1, <1>2, <2>1, <2>3, FewStay DEF UvPoolInv
<1> QED BY <1>3, <1>4, <1>5, <1>6 DEF ClientStep

-----------------------------------------------------------------------------
(* The initial states.                                                      *)

(* There are no connections yet. *)
LEMMA SocketsStart ==
    ASSUME SocketsInit
    PROVE  SockInv /\ OneUnderWay /\ Open = {} /\ listening
<1>1. /\ listening = TRUE /\ backlog = <<>> /\ owner = [f \in Fd |-> NULL]
      /\ inbox = [c \in Client |-> 0] /\ replies = [c \in Client |-> 0]
      /\ at = [c \in Client |-> "connect"] /\ try = [c \in Client |-> 0] /\ NITERS \in Nat
  BY SocketAssumption DEF SocketsInit
<1>2. Open = {}
  BY <1>1 DEF Open
<1>3. Range(owner) \subseteq {NULL} /\ NULL \notin Client
  BY <1>1, SocketAssumption DEF Range
<1>4. SockInv
  BY <1>1, <1>2, <1>3, Empty DEF SockInv, Connected
<1> QED BY <1>1, <1>2, <1>4 DEF OneUnderWay

(* Nothing is counted. *)
LEMMA NothingUnderWay ==
    ASSUME SocketsInit, work = {}, done = {}
    PROVE  FewRequests
<1>1. /\ inbox = [c \in Client |-> 0] /\ replies = [c \in Client |-> 0]
      /\ at = [c \in Client |-> "connect"]
  BY DEF SocketsInit
<1>2. Inboxes = {}
  BY <1>1 DEF Inboxes
<1>3. Answers = {}
  BY <1>1 DEF Answers
<1>4. IsFiniteSet({}) /\ Cardinality({}) = 0
  BY FS_EmptySet
<1> QED BY <1>1, <1>2, <1>3, <1>4, CountsAreFinite DEF FewRequests

(* The loop with callbacks has the handle of the listen socket. *)
LEMMA LoopStarts ==
    ASSUME Loop!Init, Open = {}, listening
    PROVE  LoopInv
<1>1. /\ handles = [f \in Fd \cup {listenfd} |->
                        IF f = listenfd THEN "on_new_connection" ELSE NULL]
      /\ nclients = 1 /\ batch = {} /\ pc = "wait"
  BY DEF Loop!Init
<1>2. listenfd \notin Fd /\ NULL # "on_new_connection"
  BY SocketAssumption
<1>3. handles[listenfd] = "on_new_connection" /\ \A f \in Fd : handles[f] = NULL
  BY <1>1, <1>2
<1>4. Registered = {listenfd} /\ Cardinality({listenfd}) = 1
  BY <1>2, <1>3, FS_Singleton DEF Registered
<1>5. LoopHandles
  BY <1>1, <1>3, <1>4 DEF LoopHandles, Callback
<1>6. LoopBatch
  BY <1>1 DEF LoopBatch
<1> QED BY <1>5, <1>6, LoopParts

(* And so has the kernel's set, with the standard input. *)
LEMMA EpollStarts ==
    ASSUME Epoll!Init, SockInv, Open = {}, listening
    PROVE  EpollInv
<1>1. interest = {listenfd, 0} /\ nclients = 2 /\ batch = {} /\ typed = FALSE /\ pc = "wait"
  BY DEF Epoll!Init, Epoll!stdin
<1>2. Cardinality({listenfd, 0}) = 2
  <2>1. /\ IsFiniteSet({listenfd}) /\ Cardinality({listenfd}) = 1
        /\ 0 \notin {listenfd} /\ {listenfd} \cup {0} = {listenfd, 0}
    BY SocketAssumption, FS_Singleton
  <2> QED BY <2>1, FS_AddElement
<1>3. EpollTypes /\ EpollSet /\ EpollReady
  BY <1>1, <1>2 DEF EpollTypes, EpollSet, EpollReady
<1> QED BY <1>3, EpollParts

(* The initial states satisfy the invariant. *)
LEMMA InvStarts == Init => Inv
<1> SUFFICES ASSUME Init PROVE Inv
  OBVIOUS
<1>1. /\ SocketsInit /\ kind \in Kind /\ SockInv /\ OneUnderWay /\ Open = {} /\ listening
  BY SocketsStart DEF Init
<1>2. ASSUME kind = "uds" PROVE UdsInv
  <2> serving = NULL
    BY <1>2 DEF Init, Uds!Init
  <2> QED BY <1>1 DEF UdsInv
<1>3. ASSUME kind = "tcp" PROVE TcpInv /\ Tcp!NobodySleepsOverWork
  <2>1. accepted = <<>> /\ serving = [w \in Worker |-> NULL] /\ asleep = {} /\ signals = FALSE
    BY <1>3 DEF Init, Tcp!Init, Tcp!tp_init
  <2>2. Range(serving) \subseteq {NULL}
    BY <2>1 DEF Range
  <2>3. TcpInv
    BY <1>1, <2>1, <2>2, Empty, TcpTypes DEF TcpInv
  <2> QED BY <2>1, <2>3 DEF Tcp!NobodySleepsOverWork
<1>4. ASSUME kind = "poll" PROVE PollInv
  <2>1. /\ clients = [s \in 0..FOPEN_MAX-1 |->
                         [fd |-> IF s = 0 THEN listenfd ELSE 0, revents |-> FALSE]]
        /\ nclients = 1 /\ nready = 0 /\ i = 0 /\ pc = "wait"
    BY <1>4 DEF Init, Poll!Init, Poll!Slot
  <2>2. FOPEN_MAX \in Nat \ {0}
    BY KindAssumption
  <2>3. PollTable
    BY <1>1, <2>1, <2>2 DEF PollTable, PollSlot
  <2>4. PollScan
    BY <2>1, <2>2 DEF PollScan
  <2> QED BY <2>3, <2>4, PollHalves
<1>5. ASSUME kind = "select" PROVE SelectInv
  <2>1. /\ clients = [s \in 0..Places-1 |-> 0] /\ nclients = 0 /\ maxclient_fd = listenfd
        /\ allset = {listenfd} /\ rset = {} /\ nready = 0 /\ i = 0 /\ pc = "wait"
    BY <1>5 DEF Init, Select!Init, Select!maxclients, Places
  <2>2. Places \in Nat \ {0} /\ listenfd \in Bits
    BY KindAssumption, SocketAssumption DEF Places, Bits
  <2>3. SelectTable
    BY <1>1, <2>1, <2>2 DEF SelectTable
  <2>4. SelectScan /\ SelectReported
    BY <2>1, <2>2 DEF SelectScan, SelectReported
  <2> QED BY <2>3, <2>4, SelectParts
<1>6. ASSUME kind = "epoll" PROVE EpollInv /\ NobodyIsLeft
  <2> Epoll!Init
    BY <1>6 DEF Init
  <2> pc = "wait"
    BY DEF Epoll!Init
  <2> QED BY <1>1, EpollStarts DEF NobodyIsLeft
<1>7. ASSUME kind = "loop" PROVE LoopInv
  BY <1>1, <1>7, LoopStarts DEF Init
<1>8. ASSUME kind \in {"uv", "uvpool"} PROVE UvInv
  <2>1. handle = [a \in Fd |-> NULL] /\ closing = {}
    BY <1>8 DEF Init, Uv!Init, Uv!Addr, UvPool!PoolInit, UvPool!Init, UvPool!Addr
  <2>2. UvTable /\ UvOnce
    BY <1>1, <2>1 DEF UvTable, UvOnce, InUse
  <2> QED BY <2>2, UvParts
<1>9. ASSUME kind = "uvpool" PROVE UvPoolInv
  <2> work = {} /\ done = {}
    BY <1>9 DEF Init, UvPool!PoolInit
  <2> QED BY <1>1, <1>8, <1>9, NothingUnderWay DEF UvPoolInv
<1> QED BY <1>1, <1>2, <1>3, <1>4, <1>5, <1>6, <1>7, <1>8, <1>9 DEF Inv

-----------------------------------------------------------------------------
(* The steps.                                                               *)

(* A step that leaves the variables of the servers alone and what the       *)
(* server has found out true.                                               *)
LEMMA InvKept ==
    ASSUME Inv, SockInv', ReadyStays, OneUnderWay => OneUnderWay',
           UvPoolInv => UvPoolInv' \/ kind # "uvpool", UNCHANGED serverVars
    PROVE  Inv'
<1>1. /\ UNCHANGED <<kind, nclients, pc, batch, handles, serving>>
      /\ UNCHANGED <<clients, nready, i>> /\ UNCHANGED <<maxclient_fd, allset, rset>>
      /\ UNCHANGED <<interest, typed>> /\ UNCHANGED <<accepted, asleep, signals>>
      /\ UNCHANGED <<handle, closing, work, done>>
  BY DEF serverVars, NotOfUv, tableVars, selectVars, epollVars, tcpVars, uvVars, poolVars
<1>2. /\ kind \in Kind /\ SockInv /\ (kind # "uvpool" => OneUnderWay')
  BY DEF Inv
<1>3. kind = "uds" => UdsInv'
  BY <1>1, UdsKept DEF Inv
<1>4. kind = "tcp" => TcpInv' /\ Tcp!NobodySleepsOverWork'
  BY <1>1, TcpKept, TcpSleeps DEF Inv
<1>5. kind = "poll" => PollInv'
  BY <1>1, PollKept DEF Inv
<1>6. kind = "select" => SelectInv'
  BY <1>1, <1>2, SelectKept DEF Inv
<1>7. kind = "epoll" => EpollInv' /\ NobodyIsLeft'
  BY <1>1, <1>2, EpollKept DEF Inv, NobodyIsLeft
<1>8. kind = "loop" => LoopInv'
  BY <1>1, LoopKept DEF Inv
<1>9. kind = "uv" => UvInv' /\ listening'
  BY <1>1, UvKept DEF Inv
<1>10. kind = "uvpool" => UvPoolInv'
  BY DEF Inv
<1> QED BY <1>1, <1>2, <1>3, <1>4, <1>5, <1>6, <1>7, <1>8, <1>9, <1>10 DEF Inv

(* A step of the server that runs. *)
LEMMA InvOfServer ==
    ASSUME Inv, ServerStep \/ Types \/ WakesSpuriously
    PROVE  Inv'
<1>1. kind \in Kind /\ SockInv /\ (kind # "uvpool" => OneUnderWay)
  BY DEF Inv
<1>2. CASE UdsStep
  <2>1. kind = "uds" /\ kind' = kind /\ UdsInv
    BY <1>2 DEF UdsStep, Inv
  <2>2. SockInv' /\ OneUnderWay' /\ UdsInv'
    BY <1>1, <1>2, <2>1, UdsKeeps DEF UdsStep
  <2> QED BY <1>1, <2>1, <2>2 DEF Inv
<1>3. CASE TcpStep \/ WakesSpuriously
  <2>1. kind = "tcp" /\ kind' = kind /\ TcpInv /\ Tcp!NobodySleepsOverWork
    BY <1>3 DEF TcpStep, WakesSpuriously, NotOfTcp, Inv
  <2>2. SockInv' /\ OneUnderWay' /\ TcpInv' /\ Tcp!NobodySleepsOverWork'
    BY <1>1, <1>3, <2>1, TcpKeeps, TcpWakes DEF TcpStep, WakesSpuriously
  <2> QED BY <1>1, <2>1, <2>2 DEF Inv
<1>4. CASE PollStep
  <2>1. kind = "poll" /\ kind' = kind /\ PollInv
    BY <1>4 DEF PollStep, Inv
  <2>2. SockInv' /\ OneUnderWay' /\ PollInv'
    BY <1>1, <1>4, <2>1, PollKeeps DEF PollStep
  <2> QED BY <1>1, <2>1, <2>2 DEF Inv
<1>5. CASE SelectStep
  <2>1. kind = "select" /\ kind' = kind /\ SelectInv
    BY <1>5 DEF SelectStep, Inv
  <2>2. SockInv' /\ OneUnderWay' /\ SelectInv'
    BY <1>1, <1>5, <2>1, SelectKeeps DEF SelectStep
  <2> QED BY <1>1, <2>1, <2>2 DEF Inv
<1>6. CASE EpollStep \/ Types
  <2>1. kind = "epoll" /\ kind' = kind /\ EpollInv /\ NobodyIsLeft
    BY <1>6 DEF EpollStep, Types, NotOfEpoll, Inv
  <2>2. SockInv' /\ OneUnderWay' /\ EpollInv' /\ NobodyIsLeft'
    BY <1>1, <1>6, <2>1, EpollKeeps, EpollEnds DEF EpollStep, Types
  <2> QED BY <1>1, <2>1, <2>2 DEF Inv
<1>7. CASE LoopStep
  <2>1. kind = "loop" /\ kind' = kind /\ LoopInv
    BY <1>7 DEF LoopStep, Inv
  <2>2. SockInv' /\ OneUnderWay' /\ LoopInv'
    BY <1>1, <1>7, <2>1, LoopKeeps DEF LoopStep
  <2> QED BY <1>1, <2>1, <2>2 DEF Inv
<1>8. CASE UvStep
  <2>1. kind = "uv" /\ kind' = kind /\ UvInv /\ listening
    BY <1>8 DEF UvStep, NotOfUv, Inv
  <2>2. SockInv' /\ OneUnderWay' /\ UvInv' /\ listening'
    BY <1>1, <1>8, <2>1, UvKeeps DEF UvStep
  <2> QED BY <1>1, <2>1, <2>2 DEF Inv
<1>9. CASE UvPoolStep
  <2>1. kind = "uvpool" /\ kind' = kind /\ UvPoolInv
    BY <1>9 DEF UvPoolStep, NotOfUv, Inv
  <2>2. SockInv' /\ UvPoolInv'
    BY <1>1, <1>9, <2>1, UvPoolKeeps DEF UvPoolStep
  <2> QED BY <1>1, <2>1, <2>2 DEF Inv
<1> QED BY <1>2, <1>3, <1>4, <1>5, <1>6, <1>7, <1>8, <1>9 DEF ServerStep

(* A step of a client. *)
LEMMA InvOfClient ==
    ASSUME Inv, NEW c \in Client, ClientGoesOn(c) \/ ClientAppears(c) \/ ClientIsKilled(c)
    PROVE  Inv'
<1>1. ClientMoves /\ UNCHANGED serverVars
  BY DEF ClientMoves, ClientGoesOn, ClientAppears, ClientIsKilled
<1>2. SockInv /\ SockInv' /\ ReadyStays /\ (OneUnderWay => OneUnderWay')
  BY <1>1, ClientEffect DEF Inv
<1>3. UNCHANGED <<handle, closing, work, done>>
  BY <1>1 DEF serverVars, uvVars, poolVars
<1>4. UvPoolInv => UvPoolInv'
  BY <1>1, <1>2, <1>3, UvPoolKept
<1> QED BY <1>1, <1>2, <1>4, InvKept

(* Each step keeps the invariant. *)
LEMMA InvStays == Inv /\ [Next]_allVars => Inv'
<1> SUFFICES ASSUME Inv, [Next]_allVars PROVE Inv'
  OBVIOUS
<1>1. CASE UNCHANGED allVars
  <2>1. UNCHANGED sockVars /\ UNCHANGED serverVars
    BY <1>1 DEF allVars, serverVars, NotOfUv
  <2>2. SockInv' /\ ReadyStays /\ (OneUnderWay => OneUnderWay')
    BY <2>1, StillEffect DEF Inv
  <2>3. ASSUME UvPoolInv PROVE UvPoolInv'
    <3>1. UNCHANGED <<handle, closing, work, done, inbox, replies, at>>
      BY <2>1 DEF sockVars, serverVars, uvVars, poolVars
    <3>2. Waiting' = Waiting
      BY <3>1 DEF Waiting
    <3> QED BY <2>2, <2>3, <3>1, <3>2, UvKept, FewStay DEF UvPoolInv
  <2> QED BY <2>1, <2>2, <2>3, InvKept
<1>2. CASE Next
  BY <1>2, InvOfServer, InvOfClient DEF Next
<1> QED BY <1>1, <1>2

-----------------------------------------------------------------------------
(* What the invariant implies.                                              *)

(* One request under way: no client has two replies unread. *)
LEMMA OneReply ==
    ASSUME SockInv, OneUnderWay, NEW c \in Client
    PROVE  replies[c] <= Cardinality(Client)
<1>1. Cardinality(Client) \in Nat /\ Client # {} /\ IsFiniteSet(Client)
  BY CountsAreFinite, SocketAssumption
<1>2. Cardinality(Client) # 0
  BY <1>1, FS_EmptySet
<1>3. inbox[c] \in Nat /\ replies[c] \in Nat
  BY DEF SockInv
<1>4. inbox[c] + replies[c] <= 1
  <2> inbox[c] + replies[c] <= IF at[c] \in {"read", "end"} THEN 1 ELSE 0
    BY DEF OneUnderWay
  <2> QED BY <1>3
<1> QED BY <1>1, <1>2, <1>3, <1>4

(* The types. *)
LEMMA InvTypes == Inv => TypeOK
<1> SUFFICES ASSUME Inv PROVE TypeOK
  OBVIOUS
<1>1. SockInv /\ kind \in Kind /\ NITERS \in Nat /\ Cardinality(Client) \in Nat
  BY SocketAssumption, CountsAreFinite DEF Inv
<1>2. inbox \in [Client -> 0..NITERS]
  <2> inbox \in [Client -> Nat] /\ try \in [Client -> 0..NITERS] /\ \A c \in Client : inbox[c] <= try[c]
    BY <1>1 DEF SockInv
  <2> \A c \in Client : inbox[c] \in 0..NITERS
    BY <1>1
  <2> QED OBVIOUS
<1>3. replies \in [Client -> 0..Cardinality(Client)]
  <2>1. \A c \in Client : replies[c] <= Cardinality(Client)
    BY <1>1, OneReply DEF Inv, UvPoolInv, FewRequests
  <2>2. replies \in [Client -> Nat]
    BY <1>1 DEF SockInv
  <2>3. \A c \in Client : replies[c] \in 0..Cardinality(Client)
    BY <1>1, <2>1, <2>2
  <2> QED BY <2>2, <2>3
<1>4. SocketsOK
  BY <1>1, <1>2, <1>3 DEF SockInv, SocketsOK
<1>5. kind = "uds" => Uds!UdsOK
  BY DEF Inv, UdsInv, Uds!UdsOK
<1>6. kind = "uv" => Uv!UvOK
  BY DEF Inv, UvInv
<1>7. kind = "uvpool" => UvPool!UvPoolOK
  <2> SUFFICES ASSUME kind = "uvpool" PROVE UvPool!UvPoolOK
    OBVIOUS
  <2> UvTable /\ FewRequests
    BY UvParts DEF Inv, UvPoolInv
  <2> QED BY UvNames DEF UvPool!UvPoolOK, FewRequests
<1>8. /\ kind = "tcp" => Tcp!TcpOK
      /\ kind = "poll" => Poll!PollOK
      /\ kind = "select" => Select!SelectOK
      /\ kind = "epoll" => Epoll!EpollOK
      /\ kind = "loop" => Loop!LoopOK
  BY DEF Inv, TcpInv, PollInv, SelectInv, EpollInv, LoopInv
<1> QED BY <1>4, <1>5, <1>6, <1>7, <1>8 DEF TypeOK, Inv

(* The descriptors in the queue and those of the workers are counted once. *)
LEMMA TcpWatches ==
    ASSUME SockInv, TcpInv
    PROVE  Tcp!WatchedOnce /\ Tcp!Watched = Open
<1>1. /\ accepted \in Seq(Fd) /\ IsInjective(accepted)
      /\ serving \in [Worker -> Fd \cup {NULL}]
      /\ \A v, w \in Worker : serving[v] = serving[w] /\ serving[v] # NULL => v = w
      /\ Range(accepted) \cap Served = {} /\ Open = Range(accepted) \cup Served
  BY TcpTypes DEF TcpInv, Served
<1>2. Tcp!Watched = Open
  BY <1>1 DEF Tcp!Watched, Tcp!Served, Tcp!Range, Range, Served
<1>3. /\ IsFiniteSet(Range(accepted)) /\ Cardinality(Range(accepted)) = Len(accepted)
      /\ Len(accepted) \in Nat
  BY <1>1, SizeOfInjective
<1>4. IsFiniteSet(Served)
  BY <1>1, OpenDescriptors, FS_Subset
<1>5. Cardinality(Served) = Cardinality({w \in Worker : serving[w] # NULL})
  <2> DEFINE B == {w \in Worker : serving[w] # NULL}
             f == [w \in B |-> serving[w]]
  <2>1. \A x : x \in Served <=> x # NULL /\ \E v \in Worker : serving[v] = x
    BY <1>1 DEF Served, Range
  <2>2. /\ f \in [B -> Served]
        /\ \A y \in Served : \E x \in B : f[x] = y
        /\ \A x, y \in B : f[x] = f[y] => x = y
    BY <1>1, <2>1
  <2> HIDE DEF f, B
  <2>3. Cardinality(B) = Cardinality(Served)
    BY ONLY <1>4, <2>2, SameSize
  <2> QED BY <2>3 DEF B
<1>6. Cardinality(Open) = Len(accepted) + Cardinality(Served)
  <2>1. Cardinality(Range(accepted) \cup Served)
            = Cardinality(Range(accepted)) + Cardinality(Served)
                - Cardinality(Range(accepted) \cap Served)
    BY <1>3, <1>4, FS_Union
  <2>2. Cardinality(Range(accepted) \cap Served) = 0 /\ Cardinality(Served) \in Nat
    BY <1>1, <1>4, FS_EmptySet, FS_CardinalityType
  <2>3. Cardinality(Range(accepted) \cup Served) = Len(accepted) + Cardinality(Served)
    BY <1>3, <2>1, <2>2
  <2>4. Open = Range(accepted) \cup Served
    BY <1>1
  <2> QED BY <2>3, <2>4
<1> QED BY <1>2, <1>5, <1>6 DEF Tcp!WatchedOnce, Tcp!Cardinality, Cardinality

(* Each slot of the table in use counts. *)
LEMMA PollWatches ==
    ASSUME SockInv, PollInv
    PROVE  Poll!WatchedOnce /\ Poll!Watched = Open
<1>1. /\ nclients \in 1..FOPEN_MAX /\ FOPEN_MAX \in Nat
      /\ \A s, t \in 1..nclients-1 : clients[s].fd = clients[t].fd => s = t
      /\ Open = {clients[s].fd : s \in 1..nclients-1}
  BY PollHalves, KindAssumption DEF PollTable
<1>2. Poll!Watched = Open
  BY <1>1 DEF Poll!Watched, Poll!Used
<1>3. IsFiniteSet(1..nclients-1) /\ Cardinality(1..nclients-1) = nclients - 1
  <2> DEFINE last == nclients - 1
  <2>1. last \in Nat
    BY <1>1
  <2> HIDE DEF last
  <2>2. IsFiniteSet(1..last) /\ Cardinality(1..last) = last
    BY ONLY <2>1, FS_Interval
  <2> QED BY <2>2 DEF last
<1>4. Cardinality(Open) = nclients - 1
  <2> DEFINE D == 1..nclients-1  f == [s \in D |-> clients[s].fd]
  <2>1. /\ f \in [D -> Open] /\ IsFiniteSet(D)
        /\ \A y \in Open : \E x \in D : f[x] = y
        /\ \A x, y \in D : f[x] = f[y] => x = y
    BY <1>1, <1>3
  <2>2. Cardinality(D) = nclients - 1
    BY <1>3
  <2> HIDE DEF D, f
  <2>3. Cardinality(D) = Cardinality(Open)
    BY ONLY <2>1, SameSize
  <2> QED BY <2>2, <2>3
<1> QED BY <1>2, <1>4 DEF Poll!WatchedOnce, Poll!Cardinality, Cardinality

(* So does each place of the array. *)
LEMMA SelectWatches ==
    ASSUME SockInv, SelectInv
    PROVE  Select!WatchedOnce /\ Select!Watched = Open
<1>1. SelectTable /\ Cardinality(Open) = nclients
  BY SelectParts, SelectSizes
<1>2. Select!Watched = Open
  BY <1>1 DEF Select!Watched, SelectTable
<1> QED BY <1>1, <1>2 DEF Select!WatchedOnce, Select!Cardinality, Cardinality, SelectTable

(* So does each descriptor in the kernel's set. *)
LEMMA EpollWatches ==
    ASSUME SockInv, EpollInv, NobodyIsLeft
    PROVE  /\ Epoll!WatchedOnce /\ Epoll!Watched = Open
           /\ pc = "end" => Open = {} /\ ~listening
<1>1. EpollSet /\ 0 \notin Open /\ listenfd \notin Open
  BY EpollParts, OpenDescriptors
<1>2. Epoll!Watched = Open
  BY <1>1 DEF Epoll!Watched, Epoll!stdin, EpollSet
<1>3. pc = "end" => Open = {} /\ ~listening
  BY <1>1 DEF EpollSet, NobodyIsLeft
<1> QED BY <1>1, <1>2, <1>3 DEF Epoll!WatchedOnce, Epoll!Cardinality, Cardinality, EpollSet

(* So does each registered handle. *)
LEMMA LoopWatches ==
    ASSUME LoopInv
    PROVE  /\ Loop!WatchedOnce
           /\ Loop!Watched \subseteq Open
           /\ \A f \in Open \ Loop!Watched : Loop!AtEnd(f)
<1>1. LoopHandles
  BY LoopParts
<1>2. Loop!Watched = Registered \ {listenfd}
  BY RegisteredIsFinite DEF Loop!Watched
<1>3. Loop!Watched \subseteq Open
  BY <1>1, <1>2 DEF LoopHandles, Registered
<1>4. \A f \in Open \ Loop!Watched : AtEnd(f)
  BY <1>1, <1>2, SocketAssumption DEF LoopHandles, Registered, Open
<1>5. Loop!WatchedOnce
  BY <1>1, RegisteredIsFinite DEF Loop!WatchedOnce, Loop!Cardinality, Cardinality, LoopHandles
<1> QED BY <1>3, <1>4, <1>5, LoopSockets

(* So does each handle in use of libuv. *)
LEMMA UvWatches ==
    ASSUME SockInv, UvInv, listening
    PROVE  /\ Uv!WatchedOnce /\ Uv!Watched = Open
           /\ UvPool!WatchedOnce /\ UvPool!Watched = Open
<1> DEFINE U == {a \in Fd : InUse(a)}
           f == [a \in U |-> HandleFd(a)]
<1>1. UvOnce
  BY UvParts
<1>2. \A a \in U : HandleFd(a) \in Open /\ owner[HandleFd(a)] = handle[a]
  BY <1>1, HandleHasFd
<1>3. \A d \in Open : \E a \in U : HandleFd(a) = d
  <2> SUFFICES ASSUME NEW d \in Open PROVE \E a \in U : HandleFd(a) = d
    OBVIOUS
  <2>1. PICK a \in Fd : InUse(a) /\ owner[d] = handle[a]
    BY <1>1 DEF UvOnce
  <2> QED BY <1>1, <2>1, HandleHasFd
<1>4. \A a, b \in U : HandleFd(a) = HandleFd(b) => a = b
  BY <1>1, <1>2 DEF UvOnce
<1>5. Cardinality(U) = Cardinality(Open) /\ Open = {HandleFd(a) : a \in U}
  <2>1. /\ f \in [U -> Open] /\ IsFiniteSet(Open)
        /\ \A y \in Open : \E x \in U : f[x] = y
        /\ \A x, y \in U : f[x] = f[y] => x = y
    BY <1>2, <1>3, <1>4, OpenDescriptors
  <2>2. Open = {HandleFd(a) : a \in U}
    BY <1>2, <1>3
  <2> HIDE DEF U, f
  <2>3. Cardinality(U) = Cardinality(Open)
    BY ONLY <2>1, SameSize
  <2> QED BY <2>2, <2>3
<1>6. /\ Uv!Watched = {HandleFd(a) : a \in U} /\ {a \in Uv!Addr : Uv!Active(a)} = U
      /\ UvPool!Watched = {HandleFd(a) : a \in U} /\ {a \in UvPool!Addr : UvPool!Active(a)} = U
  BY UvNames DEF Uv!Watched, UvPool!Watched
<1> HIDE DEF U, f
<1> QED BY <1>5, <1>6
        DEF Uv!WatchedOnce, UvPool!WatchedOnce, Uv!Cardinality, UvPool!Cardinality, Cardinality

(* Whatever the server, it watches its connections. *)
LEMMA InvWatches == Inv => EveryConnectionIsWatched
<1> SUFFICES ASSUME Inv PROVE EveryConnectionIsWatched
  OBVIOUS
<1>1. kind = "uds" /\ listening => Uds!Watched = Open
  BY DEF Inv, UdsInv, Uds!Watched
<1>2. /\ kind = "tcp" => Tcp!WatchedOnce /\ Tcp!Watched = Open
      /\ kind = "poll" => Poll!WatchedOnce /\ Poll!Watched = Open
      /\ kind = "select" => Select!WatchedOnce /\ Select!Watched = Open
      /\ kind = "epoll" => /\ Epoll!WatchedOnce /\ Epoll!Watched = Open
                           /\ pc = "end" => Open = {} /\ ~listening
  BY TcpWatches, PollWatches, SelectWatches, EpollWatches DEF Inv
<1>3. kind = "loop" => /\ Loop!WatchedOnce /\ Loop!Watched \subseteq Open
                       /\ \A f \in Open \ Loop!Watched : AtEnd(f)
  BY LoopWatches, LoopSockets DEF Inv
<1>4. /\ kind = "uv" => Uv!WatchedOnce /\ Uv!Watched = Open
      /\ kind = "uvpool" /\ listening => UvPool!WatchedOnce /\ UvPool!Watched = Open
  BY UvWatches DEF Inv, UvPoolInv
<1> QED BY <1>1, <1>2, <1>3, <1>4 DEF EveryConnectionIsWatched

(* And what it reads from can be read. *)
LEMMA InvNeverBlocks == Inv => NobodyBlocksTheServer
<1> SUFFICES ASSUME Inv PROVE NobodyBlocksTheServer
  OBVIOUS
<1>1. ASSUME kind = "select" PROVE Select!DataAvailable
  <2>1. SelectScan /\ SelectReported /\ SelectTable
    BY <1>1, SelectParts DEF Inv
  <2>2. ASSUME Select!Reading PROVE Readable(clients[i])
    <3>1. pc = "scan" /\ i < nclients /\ clients[i] \in rset
      BY <2>2 DEF Select!Reading, Select!Scanning
    <3>2. i \in 0..nclients-1 /\ i >= i
      BY <2>1, <3>1, KindAssumption DEF SelectScan, SelectTable, Places
    <3> QED BY <2>1, <3>1, <3>2 DEF SelectReported
  <2> QED BY <2>2, SelectSockets DEF Select!DataAvailable
<1>2. ASSUME kind = "epoll" PROVE Epoll!DataAvailable
  <2> EpollReady
    BY <1>2, EpollParts DEF Inv
  <2> QED BY EpollSockets DEF Epoll!DataAvailable, Epoll!Event, EpollReady
<1>3. ASSUME kind = "loop" PROVE Loop!DataAvailable
  <2> LoopBatch
    BY <1>3, LoopParts DEF Inv
  <2> QED BY LoopSockets, RegisteredIsFinite DEF Loop!DataAvailable, LoopBatch
<1>4. kind = "tcp" => Tcp!NobodySleepsOverWork
  BY DEF Inv
<1> QED BY <1>1, <1>2, <1>3, <1>4 DEF NobodyBlocksTheServer

-----------------------------------------------------------------------------
(* The invariant holds of the echo servers over sockets, whichever runs. *)
LEMMA InvHolds == Spec => []Inv
<1>1. Init => Inv
  BY InvStarts
<1>2. Inv /\ [Next]_allVars => Inv'
  BY InvStays
<1> QED BY <1>1, <1>2, PTL DEF Spec

(* The tables, counters and sets of every server keep their bounds, for any *)
(* number of clients: poll's table and select's array and bit sets are      *)
(* never indexed beyond their end, however clients come, go and die, and,   *)
(* but with libuv's pool, no client has two requests under way.             *)
THEOREM ServersKeepTheirBounds == Spec => []TypeOK
<1>1. Inv => TypeOK
  BY InvTypes
<1> QED BY <1>1, InvHolds, PTL

(* Each open connection is in the table of its server, in the kernel's set, *)
(* with a worker, in the queue or in a handle of libuv exactly once, and    *)
(* nothing that is closed is: rem_client and the callbacks lose nobody, and *)
(* the server over epoll ends only when it was told to and serves nobody.   *)
THEOREM ServersWatchEveryConnection == Spec => []EveryConnectionIsWatched
<1>1. Inv => EveryConnectionIsWatched
  BY InvWatches
<1> QED BY <1>1, InvHolds, PTL

(* Between the wait and the read nobody takes what select, epoll_wait or    *)
(* the loop reported, so that a read in process or in a callback of these   *)
(* servers never blocks on one client while others wait; and no worker of   *)
(* the server over TCP sleeps while more connections wait for one than      *)
(* there are workers awake or about to be woken.                            *)
THEOREM ServersNeverBlock == Spec => []NobodyBlocksTheServer
<1>1. Inv => NobodyBlocksTheServer
  BY InvNeverBlocks
<1> QED BY <1>1, InvHolds, PTL

=============================================================================
