---------------------------- MODULE Pools_proofs ----------------------------
(***************************************************************************)
(* What holds of the three thread pools for every number of workers,       *)
(* clients and items: no item is lost or executed twice, and nobody is     *)
(* inside a pool that is destroyed.                                        *)
(***************************************************************************)
EXTENDS Pools, FiniteSetTheorems, TLAPS

WorkItem == Item \cup {Pill}

(* The occurrences of x in a queue, the workers that hold x, and how many   *)
(* of both there are.                                                       *)
Places(q, x) == {n \in DOMAIN q : q[n] = x}
Hands(x) == {w \in Worker : wi[w] = x}
Total(x) == Cardinality(Places(work_queue, x)) + Cardinality(Hands(x))

Alive == {w \in Worker : pc[w] # "end"}

-----------------------------------------------------------------------------
PoolTypes ==
    /\ kind \in {"shutdown", "monitor", "signal"}
    /\ work_queue \in Seq(IF kind = "shutdown" THEN WorkItem ELSE Item)
    /\ wi \in [Worker -> WorkItem \cup {NULL}]
    /\ pc \in [Worker \cup Client -> {"get", "wait", "run", "signal", "pill", "end",
                                      "out", "check", "destroy"}]
    /\ executed \in [Item -> Nat]
    /\ accepted \subseteq submitted /\ submitted \subseteq Item
    /\ \A w \in Worker :
        /\ pc[w] \in {"get", "wait", "run", "signal", "pill", "end"}
        /\ pc[w] = "pill" <=> wi[w] = Pill
        /\ pc[w] \in {"run", "signal"} <=> wi[w] \in Item
    /\ \A c \in Client : pc[c] \in {"out", "signal", "wait", "check", "destroy"}

(* An accepted item is once in the queue, in one hand, or executed once. *)
ItemsConserved ==
    \A i \in Item : Total(i) + executed[i] = IF i \in accepted THEN 1 ELSE 0

(* Once shutdown has begun there are as many pills as workers that run, and *)
(* no item comes after them.                                                *)
PillsConserved ==
    /\ in_shutdown \in BOOLEAN /\ shutdown_done \in BOOLEAN
    /\ in_shutdown => Total(Pill) = Cardinality(Alive)
    /\ in_shutdown /\ work_queue # <<>> => work_queue[Len(work_queue)] = Pill
    /\ ~in_shutdown => Total(Pill) = 0 /\ Alive = Worker
    /\ remaining_threads = Cardinality(Alive)
    /\ shutdown_done <=> remaining_threads = 0

(* One client shuts down, and the pool is there until it has finished. *)
ShutsDown(c) == pc[c] \in {"wait", "check", "destroy"}

OneShutsDown ==
    /\ destroyed \in BOOLEAN
    /\ destroyed => in_shutdown /\ shutdown_done
    /\ \A c \in Client :
        /\ ShutsDown(c) => in_shutdown /\ ~destroyed
        /\ pc[c] = "destroy" => shutdown_done
        /\ destroyed /\ Client = {c} => pc[c] = "out"
        /\ \A d \in Client : ShutsDown(c) /\ ShutsDown(d) => c = d

PoolInv ==
    /\ PoolTypes
    /\ ItemsConserved
    /\ kind = "shutdown" => PillsConserved /\ OneShutsDown

-----------------------------------------------------------------------------
(* Counting the occurrences in a queue.                                     *)

(* An instance of a module that extends FiniteSets brings its own name for  *)
(* the operator.                                                            *)
LEMMA SameCardinality == \A S : Pool!Cardinality(S) = Cardinality(S)
BY DEF Pool!Cardinality, Cardinality

LEMMA PlacesAreFinite ==
    ASSUME NEW S, NEW q \in Seq(S), NEW x
    PROVE  /\ IsFiniteSet(Places(q, x))
           /\ Cardinality(Places(q, x)) \in Nat
           /\ Cardinality(Places(q, x)) = 0 <=> Places(q, x) = {}
<1>1. Len(q) \in Nat /\ DOMAIN q = 1..Len(q)
  OBVIOUS
<1>2. IsFiniteSet(1..Len(q))
  BY <1>1, FS_Interval
<1>3. Places(q, x) \in SUBSET (1..Len(q))
  BY <1>1 DEF Places
<1>4. IsFiniteSet(Places(q, x))
  BY <1>2, <1>3, FS_Subset
<1> QED BY <1>4, FS_CardinalityType, FS_EmptySet

LEMMA AppendCounts ==
    ASSUME NEW S, NEW q \in Seq(S), NEW y \in S, NEW x
    PROVE  Cardinality(Places(Append(q, y), x)) =
             Cardinality(Places(q, x)) + IF y = x THEN 1 ELSE 0
<1>1. /\ Len(q) \in Nat /\ DOMAIN q = 1..Len(q)
      /\ DOMAIN Append(q, y) = 1..(Len(q) + 1)
      /\ \A n \in 1..Len(q) : Append(q, y)[n] = q[n]
      /\ Append(q, y)[Len(q) + 1] = y
  OBVIOUS
<1>2. IsFiniteSet(Places(q, x)) /\ Cardinality(Places(q, x)) \in Nat
  BY PlacesAreFinite
<1>3. CASE y = x
  <2>1. Places(Append(q, y), x) = Places(q, x) \cup {Len(q) + 1}
        /\ Len(q) + 1 \notin Places(q, x)
    BY <1>1, <1>3 DEF Places
  <2> QED BY <2>1, <1>2, <1>3, FS_AddElement
<1>4. CASE y # x
  <2>1. Places(Append(q, y), x) = Places(q, x)
    BY <1>1, <1>4 DEF Places
  <2> QED BY <2>1, <1>2, <1>4
<1> QED BY <1>3, <1>4

(* The tail loses the first; the others move by one. *)
LEMMA TailCounts ==
    ASSUME NEW S, NEW q \in Seq(S), q # <<>>, NEW x
    PROVE  Cardinality(Places(Tail(q), x)) =
             Cardinality(Places(q, x)) - IF Head(q) = x THEN 1 ELSE 0
<1> DEFINE P == Places(q, x) \ {1}
           T == Places(Tail(q), x)
           f == [n \in T |-> n + 1]
<1>1. /\ Len(q) \in Nat \ {0} /\ DOMAIN q = 1..Len(q) /\ Head(q) = q[1]
      /\ DOMAIN Tail(q) = 1..(Len(q) - 1) /\ Tail(q) \in Seq(S)
      /\ \A n \in 1..(Len(q) - 1) : Tail(q)[n] = q[n + 1]
  OBVIOUS
<1>2. T = {n \in 1..(Len(q) - 1) : q[n + 1] = x} /\ P = {n \in 2..Len(q) : q[n] = x}
  BY <1>1 DEF Places
<1>3. f \in Bijection(T, P)
  <2>1. f \in [T -> P] /\ \A n, m \in T : f[n] = f[m] => n = m
    BY <1>1, <1>2
  <2>2. \A p \in P : p - 1 \in T /\ f[p - 1] = p
    BY <1>1, <1>2
  <2>3. \A p \in P : \E n \in T : f[n] = p
    BY <2>2
  <2>4. IsInjective(f)
    BY <2>1 DEF IsInjective
  <2> HIDE DEF f, P, T
  <2> QED BY <2>1, <2>3, <2>4 DEF Bijection, Injection, Surjection
<1>4. IsFiniteSet(T)
  BY <1>1, PlacesAreFinite
<1>5. Cardinality(P) = Cardinality(T)
  <2>1. ExistsBijection(T, P)
    BY <1>3 DEF ExistsBijection
  <2> HIDE DEF P, T
  <2> QED BY <2>1, <1>4, FS_Bijection
<1>6. IsFiniteSet(Places(q, x)) /\ Cardinality(Places(q, x)) \in Nat
  BY PlacesAreFinite
<1>7. 1 \in Places(q, x) <=> Head(q) = x
  BY <1>1 DEF Places
<1>8. Cardinality(P) = IF 1 \in Places(q, x) THEN Cardinality(Places(q, x)) - 1
                                             ELSE Cardinality(Places(q, x))
  BY <1>6, FS_RemoveElement
<1> QED BY <1>5, <1>6, <1>7, <1>8

LEMMA PillsCount ==
    ASSUME NEW S, NEW q \in Seq(S), Places(q, Pill) = {}
    PROVE  /\ Cardinality(Places(q \o Pool!Pills, Pill)) = Cardinality(Worker)
           /\ \A x : x # Pill => Places(q \o Pool!Pills, x) = Places(q, x)
           /\ q \o Pool!Pills \in Seq(S \cup {Pill})
           /\ q \o Pool!Pills # <<>>
           /\ (q \o Pool!Pills)[Len(q \o Pool!Pills)] = Pill
<1> DEFINE k == Cardinality(Worker)
           r == q \o Pool!Pills
<1>1. k \in Nat \ {0}
  BY PoolAssumption, FS_CardinalityType, FS_EmptySet
<1> HIDE DEF k
<1>2. Pool!Pills \in Seq({Pill}) /\ Len(Pool!Pills) = k /\ \A n \in 1..k : Pool!Pills[n] = Pill
  <2>1. Pool!Pills = [n \in 1..k |-> Pill]
    BY SameCardinality DEF Pool!Pills, k
  <2> QED BY <2>1, <1>1
<1>3. Len(q) \in Nat /\ DOMAIN q = 1..Len(q)
  OBVIOUS
<1>4. /\ Len(r) = Len(q) + k /\ DOMAIN r = 1..(Len(q) + k)
      /\ \A n \in 1..Len(q) : r[n] = q[n]
      /\ \A n \in (Len(q) + 1)..(Len(q) + k) : r[n] = Pill
  BY <1>1, <1>2, <1>3
<1>5. Places(r, Pill) = (Len(q) + 1)..(Len(q) + k)
  BY <1>1, <1>3, <1>4 DEF Places
<1>6. Cardinality((Len(q) + 1)..(Len(q) + k)) = k
  <2> DEFINE a == Len(q) + 1
             b == Len(q) + k
  <2>1. a \in Int /\ b \in Int /\ ~(a > b) /\ b - a + 1 = k
    BY <1>1, <1>3
  <2> HIDE DEF a, b
  <2>2. Cardinality(a..b) = k
    BY <2>1, FS_Interval
  <2> QED BY <2>2 DEF a, b
<1>7. ASSUME NEW x, x # Pill PROVE Places(r, x) = Places(q, x)
  BY <1>1, <1>3, <1>4, <1>7 DEF Places
<1>8. r \in Seq(S \cup {Pill})
  BY <1>2
<1>9. r # <<>> /\ r[Len(r)] = Pill
  BY <1>1, <1>3, <1>4, <1>8
<1> QED BY <1>5, <1>6, <1>7, <1>8, <1>9 DEF k

-----------------------------------------------------------------------------
(* Counting the hands.                                                      *)

LEMMA WorkersAreFinite ==
    /\ IsFiniteSet(Worker) /\ Cardinality(Worker) \in Nat \ {0}
    /\ \A S \in SUBSET Worker : IsFiniteSet(S) /\ Cardinality(S) \in Nat
                               /\ (Cardinality(S) = 0 <=> S = {})
BY PoolAssumption, FS_Subset, FS_EmptySet, FS_CardinalityType

(* A worker exchanges what it holds: one more hand holds the new, one less  *)
(* the old.                                                                 *)
LEMMA HandsGain ==
    ASSUME PoolTypes, NEW w \in Worker, NEW y, wi[w] # y, wi' = [wi EXCEPT ![w] = y]
    PROVE  Cardinality(Hands(y)') = Cardinality(Hands(y)) + 1
<1>1. Hands(y)' = Hands(y) \cup {w} /\ w \notin Hands(y)
  BY DEF Hands, PoolTypes
<1>2. IsFiniteSet(Hands(y))
  BY WorkersAreFinite DEF Hands
<1>3. Cardinality(Hands(y) \cup {w}) = Cardinality(Hands(y)) + 1
  BY <1>1, <1>2, FS_AddElement
<1> QED BY <1>1, <1>3

LEMMA HandsLose ==
    ASSUME PoolTypes, NEW w \in Worker, NEW y, NEW z, wi[w] = z, y # z,
           wi' = [wi EXCEPT ![w] = y]
    PROVE  Cardinality(Hands(z)') = Cardinality(Hands(z)) - 1
<1>1. Hands(z)' = Hands(z) \ {w} /\ w \in Hands(z)
  BY DEF Hands, PoolTypes
<1>2. IsFiniteSet(Hands(z))
  BY WorkersAreFinite DEF Hands
<1>3. Cardinality(Hands(z) \ {w}) = Cardinality(Hands(z)) - 1
  BY <1>1, <1>2, FS_RemoveElement
<1> QED BY <1>1, <1>3

LEMMA HandsKeep ==
    ASSUME PoolTypes, NEW w \in Worker, NEW y, NEW x, x # y, x # wi[w],
           wi' = [wi EXCEPT ![w] = y]
    PROVE  Hands(x)' = Hands(x)
BY DEF Hands, PoolTypes

-----------------------------------------------------------------------------
(* What a step of any of the pools does to the items and to the workers.    *)
KeepsWorkers == UNCHANGED <<remaining_threads, in_shutdown, shutdown_done>> /\ Alive' = Alive

Takes(w) ==
    /\ work_queue # <<>> /\ wi[w] = NULL
    /\ wi' = [wi EXCEPT ![w] = Head(work_queue)]
    /\ work_queue' = Tail(work_queue)
    /\ UNCHANGED <<accepted, executed>> /\ KeepsWorkers

Executes(w) ==
    /\ wi[w] \in Item
    /\ wi' = [wi EXCEPT ![w] = NULL]
    /\ executed' = [executed EXCEPT ![wi[w]] = @ + 1]
    /\ UNCHANGED <<work_queue, accepted>> /\ KeepsWorkers

Ends(w) ==
    /\ kind = "shutdown"
    /\ wi[w] = Pill /\ w \in Alive
    /\ wi' = [wi EXCEPT ![w] = NULL]
    /\ UNCHANGED <<work_queue, accepted, executed, in_shutdown>>
    /\ Alive' = Alive \ {w}
    /\ remaining_threads' = remaining_threads - 1
    /\ remaining_threads' = 0 => shutdown_done' = TRUE
    /\ remaining_threads' # 0 => UNCHANGED shutdown_done

Accepts(i) ==
    /\ i \notin accepted
    /\ kind = "shutdown" => ~in_shutdown
    /\ work_queue' = Append(work_queue, i)
    /\ accepted' = accepted \cup {i}
    /\ UNCHANGED <<wi, executed>> /\ KeepsWorkers

Closes ==
    /\ kind = "shutdown" /\ ~in_shutdown
    /\ in_shutdown' = TRUE
    /\ work_queue' = work_queue \o Pool!Pills
    /\ UNCHANGED <<wi, accepted, executed, remaining_threads, shutdown_done>>
    /\ Alive' = Alive

Rests == UNCHANGED <<work_queue, wi, accepted, executed>> /\ KeepsWorkers

Effect ==
    \/ \E w \in Worker : Takes(w) \/ Executes(w) \/ Ends(w)
    \/ \E i \in Item : Accepts(i)
    \/ Closes
    \/ Rests

(* The steps of the pool with the shutdown, one by one, with the types and  *)
(* the effect of each.                                                      *)
LEMMA ShutdownPoolStep ==
    ASSUME PoolTypes, kind = "shutdown", kind' = kind, Pool!Next
    PROVE  PoolTypes' /\ Effect
<1> DEFINE Where == {"get", "wait", "run", "signal", "pill", "end", "out", "check", "destroy"}
<1> USE PoolAssumption
<1>1. ASSUME NEW w \in Worker, Pool!TakeWork(w)
      PROVE  PoolTypes' /\ (Takes(w) \/ Rests)
  <2>1. CASE work_queue = <<>>
    BY <1>1, <2>1 DEF Pool!TakeWork, Pool!Go, Pool!GoAndWake, PoolTypes, Rests, KeepsWorkers, Alive
  <2>2. CASE work_queue # <<>>
    <3>1. Head(work_queue) \in WorkItem /\ Tail(work_queue) \in Seq(WorkItem)
      BY <2>2 DEF PoolTypes
    <3>2. wi[w] = NULL
      BY <1>1 DEF Pool!TakeWork, PoolTypes, WorkItem
    <3>3. Takes(w)
      BY <1>1, <2>2, <3>2 DEF Pool!TakeWork, Pool!Go, Pool!GoAndWake, PoolTypes, Takes,
                              KeepsWorkers, Alive
    <3>4. PoolTypes'
      <4> DEFINE l == IF Head(work_queue) = Pill THEN "pill" ELSE "run"
      <4>1. /\ pc' \in [Worker \cup Client -> Where]
            /\ \A u \in Worker \cup Client : pc'[u] = IF u = w THEN l ELSE pc[u]
        BY <1>1, <2>2 DEF Pool!TakeWork, Pool!Go, Pool!GoAndWake, PoolTypes
      <4>2. /\ wi' \in [Worker -> WorkItem \cup {NULL}]
            /\ \A u \in Worker : wi'[u] = IF u = w THEN Head(work_queue) ELSE wi[u]
        BY <3>1, <3>3 DEF Takes, PoolTypes
      <4>3. \A u \in Worker :
              /\ pc'[u] \in {"get", "wait", "run", "signal", "pill", "end"}
              /\ pc'[u] = "pill" <=> wi'[u] = Pill
              /\ pc'[u] \in {"run", "signal"} <=> wi'[u] \in Item
        BY <4>1, <4>2, <3>1 DEF PoolTypes, WorkItem
      <4>4. \A c \in Client : pc'[c] \in {"out", "signal", "wait", "check", "destroy"}
        BY <4>1 DEF PoolTypes
      <4>5. work_queue' \in Seq(WorkItem) /\ UNCHANGED <<submitted, accepted, executed>>
        BY <1>1, <2>2, <3>1 DEF Pool!TakeWork
      <4> QED BY <4>1, <4>2, <4>3, <4>4, <4>5 DEF PoolTypes
    <3> QED BY <3>3, <3>4
  <2> QED BY <2>1, <2>2
<1>2. ASSUME NEW w \in Worker, Pool!RunItem(w)
      PROVE  PoolTypes' /\ Executes(w)
  BY <1>2 DEF Pool!RunItem, Pool!Go, Pool!GoAndWake, PoolTypes, Executes, KeepsWorkers, Alive, WorkItem
<1>3. ASSUME NEW w \in Worker, Pool!Terminate(w)
      PROVE  PoolTypes' /\ Ends(w)
  <2>1. wi[w] = Pill /\ w \in Alive /\ Pool!WorkersTerminated \cap Worker = {}
    BY <1>3 DEF Pool!Terminate, PoolTypes, Alive, Pool!WorkersTerminated
  <2>2. /\ pc' \in [Worker \cup Client -> Where]
        /\ \A u \in Worker : pc'[u] = IF u = w THEN "end" ELSE pc[u]
        /\ \A c \in Client : pc'[c] \in {pc[c], "check"}
    BY <1>3, <2>1 DEF Pool!Terminate, Pool!Go, Pool!GoAndWake, PoolTypes
  <2>3. Alive' = Alive \ {w}
    BY <2>2 DEF Alive
  <2>4. Ends(w)
    BY <1>3, <2>1, <2>3 DEF Pool!Terminate, Ends
  <2>5. PoolTypes'
    BY <1>3, <2>2, ZenonT(60) DEF Pool!Terminate, PoolTypes, WorkItem
  <2> QED BY <2>4, <2>5
<1>4. ASSUME NEW t \in Worker \cup Client, Pool!SubmitSignals(t)
      PROVE  PoolTypes' /\ Rests
  BY <1>4 DEF Pool!SubmitSignals, Pool!GoAndWake, Pool!HasWork, PoolTypes, Rests, KeepsWorkers, Alive
<1>5. ASSUME NEW c \in Client, Pool!ShutdownTests(c) \/ Pool!ShutdownDestroys(c)
      PROVE  PoolTypes' /\ Rests
  BY <1>5 DEF Pool!ShutdownTests, Pool!ShutdownDestroys, Pool!Go, Pool!GoAndWake, PoolTypes, Rests,
              KeepsWorkers, Alive
<1>6. ASSUME NEW c \in Client, Pool!tp_shutdown(c)
      PROVE  PoolTypes' /\ Closes
  <2>1. Pool!Pills \in Seq(WorkItem)
    BY WorkersAreFinite, SameCardinality DEF Pool!Pills, WorkItem
  <2>2. work_queue' \in Seq(WorkItem)
    BY <1>6, <2>1 DEF Pool!tp_shutdown, PoolTypes
  <2>3. PoolTypes'
    BY <1>6, <2>2 DEF Pool!tp_shutdown, Pool!GoAndWake, Pool!HasWork, PoolTypes
  <2>4. Closes
    BY <1>6 DEF Pool!tp_shutdown, Pool!GoAndWake, Pool!HasWork, PoolTypes, Closes, Alive
  <2> QED BY <2>3, <2>4
<1>7. ASSUME NEW t \in Worker \cup Client, NEW i \in Item, Pool!tp_submit(t, i)
      PROVE  PoolTypes' /\ (Accepts(i) \/ Rests)
  <2>1. CASE in_shutdown
    BY <1>7, <2>1 DEF Pool!tp_submit, PoolTypes, Rests, KeepsWorkers, Alive
  <2>2. CASE ~in_shutdown
    <3>1. Append(work_queue, i) \in Seq(WorkItem)
      BY DEF PoolTypes, WorkItem
    <3>2. PoolTypes'
      <4>1. /\ pc' \in [Worker \cup Client -> Where]
            /\ \A u \in Worker \cup Client : pc'[u] = IF u = t THEN "signal" ELSE pc[u]
        BY <1>7, <2>2 DEF Pool!tp_submit, Pool!Go, Pool!GoAndWake, PoolTypes
      <4>2. t \in Worker => pc[t] = "run"
        BY <1>7 DEF Pool!tp_submit, Pool!Running
      <4>3. UNCHANGED <<wi, executed>> /\ work_queue' = Append(work_queue, i)
            /\ accepted' \subseteq submitted' /\ submitted' \subseteq Item
        BY <1>7, <2>2 DEF Pool!tp_submit, PoolTypes
      <4>4. \A u \in Worker :
              /\ pc'[u] \in {"get", "wait", "run", "signal", "pill", "end"}
              /\ pc'[u] = "pill" <=> wi'[u] = Pill
              /\ pc'[u] \in {"run", "signal"} <=> wi'[u] \in Item
        BY <4>1, <4>2, <4>3 DEF PoolTypes
      <4>5. \A c \in Client : pc'[c] \in {"out", "signal", "wait", "check", "destroy"}
        BY <4>1 DEF PoolTypes
      <4> QED BY <3>1, <4>1, <4>3, <4>4, <4>5 DEF PoolTypes
    <3>3. Accepts(i)
      BY <1>7, <2>2 DEF Pool!tp_submit, Pool!Running, Pool!Go, Pool!GoAndWake, PoolTypes, Accepts,
                        KeepsWorkers, Alive
    <3> QED BY <3>2, <3>3
  <2> QED BY <2>1, <2>2
<1>8. ASSUME NEW t \in Worker \cup Client, Pool!SpuriousWakeup(t)
      PROVE  PoolTypes' /\ Rests
  BY <1>8 DEF Pool!SpuriousWakeup, Pool!GoAndWake, Pool!HasWork, Pool!WorkersTerminated, PoolTypes,
              Rests, KeepsWorkers, Alive
<1> QED BY <1>1, <1>2, <1>3, <1>4, <1>5, <1>6, <1>7, <1>8
        DEF Pool!Next, Pool!WorkerStep, Pool!ShutdownStep, Effect

(* The same for the two pools without a shutdown. *)
LEMMA EarlierPoolStep ==
    ASSUME PoolTypes, kind \in {"monitor", "signal"}, kind' = kind,
           Earlier!MonitorNext \/ Earlier!SignalNext, UNCHANGED shutdownVars
    PROVE  PoolTypes' /\ Effect
<1> DEFINE Where == {"get", "wait", "run", "signal", "pill", "end", "out", "check", "destroy"}
<1> USE PoolAssumption
<1>1. work_queue \in Seq(Item)
  BY DEF PoolTypes
<1>2. UNCHANGED <<remaining_threads, in_shutdown, shutdown_done, destroyed>>
  BY DEF shutdownVars
<1>3. ASSUME NEW w \in Worker, Earlier!queue_get(w)
      PROVE  PoolTypes' /\ (Takes(w) \/ Rests)
  <2>1. CASE work_queue = <<>>
    BY <1>2, <1>3, <2>1 DEF Earlier!queue_get, Earlier!GoAndWake, PoolTypes, Rests, KeepsWorkers, Alive
  <2>2. CASE work_queue # <<>>
    <3>1. Head(work_queue) \in Item /\ Tail(work_queue) \in Seq(Item)
      BY <1>1, <2>2
    <3>2. wi[w] = NULL
      BY <1>3 DEF Earlier!queue_get, PoolTypes, WorkItem
    <3>3. /\ pc' \in [Worker \cup Client -> Where]
          /\ \A u \in Worker \cup Client : pc'[u] = IF u = w THEN "run" ELSE pc[u]
      BY <1>3, <2>2 DEF Earlier!queue_get, Earlier!GoAndWake, PoolTypes
    <3>4. Takes(w)
      <4>1. Alive' = Alive
        BY <1>3, <3>3 DEF Earlier!queue_get, Alive
      <4> QED BY <1>2, <1>3, <2>2, <3>2, <4>1 DEF Earlier!queue_get, Takes, KeepsWorkers
    <3>5. /\ wi' \in [Worker -> WorkItem \cup {NULL}]
          /\ \A u \in Worker : wi'[u] = IF u = w THEN Head(work_queue) ELSE wi[u]
      BY <3>1, <3>4 DEF Takes, PoolTypes, WorkItem
    <3>6. \A u \in Worker :
            /\ pc'[u] \in {"get", "wait", "run", "signal", "pill", "end"}
            /\ pc'[u] = "pill" <=> wi'[u] = Pill
            /\ pc'[u] \in {"run", "signal"} <=> wi'[u] \in Item
      BY <3>1, <3>3, <3>5 DEF PoolTypes
    <3>7. \A c \in Client : pc'[c] \in {"out", "signal", "wait", "check", "destroy"}
      BY <3>3 DEF PoolTypes
    <3>8. work_queue' \in Seq(Item) /\ UNCHANGED <<submitted, accepted, executed>>
      BY <1>3, <2>2, <3>1 DEF Earlier!queue_get
    <3> QED BY <3>3, <3>4, <3>5, <3>6, <3>7, <3>8 DEF PoolTypes
  <2> QED BY <2>1, <2>2
<1>4. ASSUME NEW w \in Worker, Earlier!oper_func(w)
      PROVE  PoolTypes' /\ Executes(w)
  BY <1>2, <1>4 DEF Earlier!oper_func, Earlier!GoAndWake, PoolTypes, Executes, KeepsWorkers, Alive,
                    WorkItem
<1>5. ASSUME NEW t \in Worker \cup Client, NEW i \in Item, Earlier!Submits(t, i),
             pc' \in [Worker \cup Client -> Where],
             \A w \in Worker :
                \/ pc'[w] = pc[w]
                \/ pc[w] = "wait" /\ pc'[w] = "get"
                \/ w = t /\ pc'[w] = "signal",
             \A c \in Client : pc'[c] \in {pc[c], "signal"}
      PROVE  PoolTypes' /\ Accepts(i)
  <2>1. Append(work_queue, i) \in Seq(Item)
    BY <1>1
  <2>2. t \in Worker => pc[t] = "run"
    BY <1>5 DEF Earlier!Submits
  <2>3. UNCHANGED <<wi, executed>> /\ work_queue' = Append(work_queue, i)
        /\ accepted' = accepted \cup {i} /\ accepted' \subseteq submitted' /\ submitted' \subseteq Item /\ i \notin accepted
    BY <1>5 DEF Earlier!Submits, PoolTypes
  <2>4. \A u \in Worker :
          /\ pc'[u] \in {"get", "wait", "run", "signal", "pill", "end"}
          /\ pc'[u] = "pill" <=> wi'[u] = Pill
          /\ pc'[u] \in {"run", "signal"} <=> wi'[u] \in Item
    BY <1>5, <2>2, <2>3 DEF PoolTypes
  <2>5. \A c \in Client : pc'[c] \in {"out", "signal", "wait", "check", "destroy"}
    BY <1>5 DEF PoolTypes
  <2>6. PoolTypes'
    BY <1>5, <2>1, <2>3, <2>4, <2>5 DEF PoolTypes
  <2>7. Alive' = Alive
    BY <1>5, <2>2 DEF Alive
  <2> QED BY <1>2, <2>3, <2>6, <2>7 DEF Accepts, KeepsWorkers
<1>6. ASSUME NEW t \in Worker \cup Client, NEW i \in Item, Earlier!queue_put(t, i)
      PROVE  PoolTypes' /\ Accepts(i)
  <2>1. PICK woken \in SUBSET Earlier!HasItems : Earlier!GoAndWake(t, pc[t], woken)
    BY <1>6 DEF Earlier!queue_put, Earlier!SignalOne
  <2>2. /\ pc' \in [Worker \cup Client -> Where]
        /\ \A w \in Worker : pc'[w] = pc[w] \/ (pc[w] = "wait" /\ pc'[w] = "get")
        /\ \A c \in Client : pc'[c] = pc[c]
    BY <2>1 DEF Earlier!GoAndWake, Earlier!HasItems, PoolTypes
  <2> QED BY <1>5, <1>6, <2>2 DEF Earlier!queue_put
<1>7. ASSUME NEW t \in Worker \cup Client, NEW i \in Item, Earlier!tp_submit(t, i)
      PROVE  PoolTypes' /\ Accepts(i)
  <2>1. /\ pc' \in [Worker \cup Client -> Where]
        /\ \A u \in Worker \cup Client : pc'[u] = pc[u] \/ (u = t /\ pc'[u] = "signal")
    BY <1>7 DEF Earlier!tp_submit, Earlier!GoAndWake, PoolTypes
  <2> QED BY <1>5, <1>7, <2>1 DEF Earlier!tp_submit
<1>8. ASSUME NEW t \in Worker \cup Client, Earlier!SubmitSignals(t)
      PROVE  PoolTypes' /\ Rests
  BY <1>2, <1>8 DEF Earlier!SubmitSignals, Earlier!SignalOne, Earlier!GoAndWake, Earlier!HasItems,
                    PoolTypes, Rests, KeepsWorkers, Alive
<1>9. ASSUME NEW w \in Worker, Earlier!SpuriousWakeup(w)
      PROVE  PoolTypes' /\ Rests
  BY <1>2, <1>9 DEF Earlier!SpuriousWakeup, Earlier!GoAndWake, Earlier!HasItems, PoolTypes, Rests,
                    KeepsWorkers, Alive
<1> QED BY <1>3, <1>4, <1>6, <1>7, <1>8, <1>9
        DEF Earlier!MonitorNext, Earlier!MonitorStep, Earlier!SignalNext, Earlier!SignalStep,
            Earlier!TakeWork, Earlier!RunItem, Effect

-----------------------------------------------------------------------------
(* How each effect changes the number of occurrences of x.                  *)

LEMMA TotalIsNatural ==
    ASSUME PoolTypes, NEW x
    PROVE  /\ Cardinality(Places(work_queue, x)) \in Nat /\ Cardinality(Hands(x)) \in Nat
           /\ Total(x) = 0 <=> Places(work_queue, x) = {} /\ Hands(x) = {}
<1>1. PICK S : work_queue \in Seq(S)
  BY DEF PoolTypes
<1>2. /\ Cardinality(Places(work_queue, x)) \in Nat
      /\ Cardinality(Places(work_queue, x)) = 0 <=> Places(work_queue, x) = {}
  BY <1>1, PlacesAreFinite
<1>3. Cardinality(Hands(x)) \in Nat /\ (Cardinality(Hands(x)) = 0 <=> Hands(x) = {})
  BY WorkersAreFinite DEF Hands
<1> QED BY <1>2, <1>3 DEF Total

LEMMA TakesMoves ==
    ASSUME PoolTypes, NEW x \in WorkItem, NEW w \in Worker, Takes(w)
    PROVE  Total(x)' = Total(x)
<1>1. PICK S : work_queue \in Seq(S)
  BY DEF PoolTypes
<1>2. PICK y : y = Head(work_queue)
  OBVIOUS
<1>3. y \in WorkItem /\ y # NULL /\ x # NULL
  BY <1>2, PoolAssumption DEF PoolTypes, Takes, WorkItem
<1>4. wi[w] # y /\ x # wi[w] /\ wi' = [wi EXCEPT ![w] = y]
  BY <1>2, <1>3 DEF Takes
<1>5. y = x => Cardinality(Hands(x)') = Cardinality(Hands(x)) + 1
  <2>1. Cardinality(Hands(y)') = Cardinality(Hands(y)) + 1
    BY <1>4, HandsGain
  <2> QED BY <2>1
<1>6. y # x => Hands(x)' = Hands(x)
  BY <1>4, HandsKeep
<1>7. Cardinality(Places(work_queue', x)) =
        Cardinality(Places(work_queue, x)) - IF y = x THEN 1 ELSE 0
  BY <1>1, <1>2, TailCounts DEF Takes
<1>8. Cardinality(Hands(x)') = Cardinality(Hands(x)) + IF y = x THEN 1 ELSE 0
  BY <1>5, <1>6, TotalIsNatural
<1> QED BY <1>7, <1>8, TotalIsNatural DEF Total

LEMMA DropsOne ==
    ASSUME PoolTypes, NEW x \in WorkItem, NEW w \in Worker,
           wi[w] # NULL, wi' = [wi EXCEPT ![w] = NULL], work_queue' = work_queue
    PROVE  Total(x)' = Total(x) - IF wi[w] = x THEN 1 ELSE 0
<1>1. PICK y : y = wi[w]
  OBVIOUS
<1>2. x # NULL
  BY PoolAssumption DEF WorkItem
<1>3. Cardinality(Hands(x)') = Cardinality(Hands(x)) - IF y = x THEN 1 ELSE 0
  <2>1. CASE y = x
    <3>1. Cardinality(Hands(y)') = Cardinality(Hands(y)) - 1
      BY <1>1, HandsLose
    <3> QED BY <2>1, <3>1
  <2>2. CASE y # x
    <3>1. Hands(x)' = Hands(x)
      BY <1>1, <1>2, <2>2, HandsKeep
    <3> QED BY <2>2, <3>1, TotalIsNatural
  <2> QED BY <2>1, <2>2
<1>4. Places(work_queue, x)' = Places(work_queue, x)
  BY DEF Places
<1> QED BY <1>1, <1>3, <1>4, TotalIsNatural DEF Total

LEMMA AcceptsAdds ==
    ASSUME PoolTypes, NEW x \in WorkItem, NEW i \in Item, Accepts(i)
    PROVE  Total(x)' = Total(x) + IF i = x THEN 1 ELSE 0
<1>1. work_queue \in Seq(WorkItem) /\ i \in WorkItem
  BY DEF PoolTypes, WorkItem
<1>2. Cardinality(Places(work_queue', x)) =
        Cardinality(Places(work_queue, x)) + IF i = x THEN 1 ELSE 0
  BY <1>1, AppendCounts DEF Accepts
<1>3. Hands(x)' = Hands(x)
  BY DEF Accepts, Hands
<1> QED BY <1>2, <1>3, TotalIsNatural DEF Total

LEMMA ClosesAddsPills ==
    ASSUME PoolTypes, Closes, Total(Pill) = 0
    PROVE  /\ Total(Pill)' = Cardinality(Worker)
           /\ \A x \in Item : Total(x)' = Total(x)
           /\ work_queue' # <<>> /\ work_queue'[Len(work_queue')] = Pill
<1>1. work_queue \in Seq(WorkItem)
  BY DEF PoolTypes, WorkItem
<1>2. Places(work_queue, Pill) = {} /\ Hands(Pill) = {}
  BY TotalIsNatural
<1>3. work_queue' = work_queue \o Pool!Pills
  BY DEF Closes
<1>4. /\ Cardinality(Places(work_queue', Pill)) = Cardinality(Worker)
      /\ \A x : x # Pill => Places(work_queue', x) = Places(work_queue, x)
      /\ work_queue' # <<>> /\ work_queue'[Len(work_queue')] = Pill
  BY <1>1, <1>2, <1>3, PillsCount
<1>5. \A x : Hands(x)' = Hands(x)
  BY DEF Closes, Hands
<1>6. Total(Pill)' = Cardinality(Worker)
  <2>1. Cardinality(Hands(Pill)') = 0
    BY <1>2, <1>5, FS_EmptySet
  <2> QED BY <2>1, <1>4, WorkersAreFinite DEF Total
<1>7. ASSUME NEW x \in Item PROVE Total(x)' = Total(x)
  <2>1. Places(work_queue, x)' = Places(work_queue, x)
    <3>1. x # Pill
      BY PoolAssumption
    <3>2. Places(work_queue', x) = Places(work_queue, x)
      BY <3>1, <1>4
    <3> QED BY <3>2 DEF Places
  <2> QED BY <2>1, <1>5 DEF Total
<1> QED BY <1>4, <1>6, <1>7

LEMMA RestsKeeps ==
    ASSUME NEW x, Rests
    PROVE  Total(x)' = Total(x)
BY DEF Rests, Total, Places, Hands

-----------------------------------------------------------------------------
(* An item stays in one place. *)
LEMMA ItemsStep ==
    ASSUME PoolInv, Effect
    PROVE  ItemsConserved'
<1> SUFFICES ASSUME NEW i \in Item
             PROVE  Total(i)' + executed'[i] = IF i \in accepted' THEN 1 ELSE 0
  BY DEF ItemsConserved
<1>1. /\ Total(i) + executed[i] = IF i \in accepted THEN 1 ELSE 0
      /\ executed \in [Item -> Nat] /\ Total(i) \in Nat
      /\ PoolTypes /\ i \in WorkItem /\ i # Pill
  BY TotalIsNatural, PoolAssumption DEF PoolInv, ItemsConserved, PoolTypes, WorkItem, Total
<1>2. ASSUME NEW w \in Worker, Takes(w)
      PROVE  Total(i)' + executed'[i] = IF i \in accepted' THEN 1 ELSE 0
  BY <1>1, <1>2, TakesMoves DEF Takes
<1>3. ASSUME NEW w \in Worker, Executes(w)
      PROVE  Total(i)' + executed'[i] = IF i \in accepted' THEN 1 ELSE 0
  <2>1. wi[w] # NULL /\ wi[w] \in Item
    BY <1>3, PoolAssumption DEF Executes
  <2>2. Total(i)' = Total(i) - IF wi[w] = i THEN 1 ELSE 0
    BY <1>1, <1>3, <2>1, DropsOne DEF Executes
  <2>3. executed'[i] = executed[i] + IF wi[w] = i THEN 1 ELSE 0
    BY <1>1, <1>3, <2>1 DEF Executes
  <2>4. accepted' = accepted
    BY <1>3 DEF Executes
  <2>5. executed[i] \in Nat
    BY <1>1
  <2> QED BY <1>1, <2>2, <2>3, <2>4, <2>5
<1>4. ASSUME NEW w \in Worker, Ends(w)
      PROVE  Total(i)' + executed'[i] = IF i \in accepted' THEN 1 ELSE 0
  <2>1. wi[w] # NULL /\ wi[w] # i
    BY <1>1, <1>4, PoolAssumption DEF Ends
  <2>2. Total(i)' = Total(i)
    <3>1. wi' = [wi EXCEPT ![w] = NULL] /\ work_queue' = work_queue
      BY <1>4 DEF Ends
    <3>2. Total(i)' = Total(i) - IF wi[w] = i THEN 1 ELSE 0
      BY <1>1, <2>1, <3>1, DropsOne
    <3> QED BY <1>1, <2>1, <3>2
  <2> QED BY <1>1, <1>4, <2>2 DEF Ends
<1>5. ASSUME NEW j \in Item, Accepts(j)
      PROVE  Total(i)' + executed'[i] = IF i \in accepted' THEN 1 ELSE 0
  <2>1. Total(i)' = Total(i) + IF j = i THEN 1 ELSE 0
    BY <1>1, <1>5, AcceptsAdds
  <2>2. executed' = executed /\ (i \in accepted' <=> i \in accepted \/ i = j) /\ j \notin accepted
    BY <1>5 DEF Accepts
  <2>3. executed[i] \in Nat
    BY <1>1
  <2> QED BY <1>1, <2>1, <2>2, <2>3
<1>6. CASE Closes
  <2>1. Total(Pill) = 0
    BY <1>6 DEF Closes, PoolInv, PillsConserved
  <2> QED BY <1>1, <1>6, <2>1, ClosesAddsPills DEF Closes
<1>7. CASE Rests
  BY <1>1, <1>7, RestsKeeps DEF Rests
<1> QED BY <1>2, <1>3, <1>4, <1>5, <1>6, <1>7 DEF Effect

(* The pills add up to the workers that are left, and nothing is queued     *)
(* behind them.                                                             *)
LEMMA PillsStep ==
    ASSUME PoolInv, Effect, kind = "shutdown"
    PROVE  PillsConserved'
<1>1. /\ PoolTypes /\ PillsConserved /\ Pill \in WorkItem /\ Pill # NULL
      /\ Total(Pill) \in Nat
  BY TotalIsNatural, PoolAssumption DEF PoolInv, WorkItem, Total
<1>2. Alive \in SUBSET Worker /\ IsFiniteSet(Alive) /\ Cardinality(Alive) \in Nat
  BY WorkersAreFinite DEF Alive
<1>3. work_queue \in Seq(WorkItem)
  BY <1>1 DEF PoolTypes, WorkItem
<1>4. ASSUME NEW w \in Worker, Takes(w)
      PROVE  PillsConserved'
  <2>1. Total(Pill)' = Total(Pill)
    BY <1>1, <1>4, TakesMoves
  <2>2. in_shutdown' /\ work_queue' # <<>> => work_queue'[Len(work_queue')] = Pill
    <3> SUFFICES ASSUME in_shutdown, Tail(work_queue) # <<>>
                 PROVE  Tail(work_queue)[Len(Tail(work_queue))] = Pill
      BY <1>4 DEF Takes, KeepsWorkers
    <3>1. work_queue # <<>> /\ work_queue[Len(work_queue)] = Pill
      BY <1>1, <1>4 DEF Takes, PillsConserved
    <3>2. /\ Len(Tail(work_queue)) = Len(work_queue) - 1 /\ Len(work_queue) \in Nat
          /\ Len(Tail(work_queue)) \in Nat \ {0}
          /\ \A n \in 1..(Len(work_queue) - 1) : Tail(work_queue)[n] = work_queue[n + 1]
      BY <1>3, <3>1
    <3> QED BY <3>1, <3>2
  <2> QED BY <1>1, <1>4, <2>1, <2>2 DEF Takes, KeepsWorkers, PillsConserved
<1>5. ASSUME NEW w \in Worker, Executes(w)
      PROVE  PillsConserved'
  <2>1. wi[w] # NULL /\ wi[w] # Pill
    BY <1>5, PoolAssumption DEF Executes
  <2>2. wi' = [wi EXCEPT ![w] = NULL] /\ work_queue' = work_queue
    BY <1>5 DEF Executes
  <2>3. Total(Pill)' = Total(Pill) - IF wi[w] = Pill THEN 1 ELSE 0
    BY <1>1, <2>1, <2>2, DropsOne
  <2>4. Total(Pill)' = Total(Pill)
    BY <1>1, <2>1, <2>3
  <2> QED BY <1>1, <1>5, <2>2, <2>4 DEF Executes, KeepsWorkers, PillsConserved
<1>6. ASSUME NEW w \in Worker, Ends(w)
      PROVE  PillsConserved'
  <2>1. wi[w] = Pill /\ wi' = [wi EXCEPT ![w] = NULL] /\ work_queue' = work_queue
        /\ in_shutdown' = in_shutdown
    BY <1>6 DEF Ends
  <2>2. Total(Pill)' = Total(Pill) - IF wi[w] = Pill THEN 1 ELSE 0
    BY <1>1, <2>1, DropsOne
  <2>3. Total(Pill)' = Total(Pill) - 1
    BY <2>1, <2>2
  <2>4. Hands(Pill) # {}
    BY <2>1 DEF Hands
  <2>5. Total(Pill) # 0
    BY <1>1, <2>4, TotalIsNatural
  <2>6. in_shutdown = TRUE
    BY <1>1, <2>5 DEF PillsConserved
  <2>7. Cardinality(Alive') = Cardinality(Alive) - 1
    BY <1>2, <1>6, FS_RemoveElement DEF Ends
  <2>8. remaining_threads' = Cardinality(Alive')
    BY <1>1, <1>6, <2>7 DEF Ends, PillsConserved
  <2>9. shutdown_done' \in BOOLEAN /\ (shutdown_done' <=> remaining_threads' = 0)
    <3>1. remaining_threads \in Nat /\ remaining_threads # 0 /\ shutdown_done = FALSE
      BY <1>1, <1>2, <2>5, <2>6 DEF PillsConserved
    <3> QED BY <1>6, <3>1 DEF Ends
  <2>10. Total(Pill)' = Cardinality(Alive')
    BY <1>1, <2>3, <2>6, <2>7 DEF PillsConserved
  <2>11. work_queue' # <<>> => work_queue'[Len(work_queue')] = Pill
    BY <1>1, <2>1, <2>6 DEF PillsConserved
  <2> QED BY <2>1, <2>6, <2>8, <2>9, <2>10, <2>11 DEF PillsConserved
<1>7. ASSUME NEW j \in Item, Accepts(j)
      PROVE  PillsConserved'
  <2>1. Total(Pill)' = Total(Pill) + IF j = Pill THEN 1 ELSE 0
    BY <1>1, <1>7, AcceptsAdds
  <2>2. Total(Pill)' = Total(Pill)
    BY <1>1, <2>1, PoolAssumption
  <2> QED BY <1>1, <1>7, <2>2 DEF Accepts, KeepsWorkers, PillsConserved
<1>8. CASE Closes
  <2>1. ~in_shutdown /\ Total(Pill) = 0 /\ Alive = Worker
    BY <1>1, <1>8 DEF Closes, PillsConserved
  <2>2. /\ Total(Pill)' = Cardinality(Worker)
        /\ work_queue' # <<>> /\ work_queue'[Len(work_queue')] = Pill
    BY <1>1, <1>8, <2>1, ClosesAddsPills
  <2> QED BY <1>1, <1>8, <2>1, <2>2 DEF Closes, PillsConserved
<1>9. CASE Rests
  <2>1. Total(Pill)' = Total(Pill)
    BY <1>9, RestsKeeps
  <2> QED BY <1>1, <1>9, <2>1 DEF Rests, KeepsWorkers, PillsConserved
<1> QED BY <1>4, <1>5, <1>6, <1>7, <1>8, <1>9 DEF Effect

-----------------------------------------------------------------------------
(* What a step does to the clients that shut down: one begins, waits until  *)
(* shutdown_done, destroys the pool and leaves.                             *)
LEMMA ShutdownStepsInOrder ==
    ASSUME PoolInv, kind = "shutdown", PoolTypes', PillsConserved', Pool!Next
    PROVE  OneShutsDown'
<1> USE PoolAssumption
<1>1. PoolTypes /\ PillsConserved /\ OneShutsDown
  BY DEF PoolInv
<1>2. ASSUME NEW w \in Worker, Pool!TakeWork(w) \/ Pool!RunItem(w)
      PROVE  OneShutsDown'
  <2>1. \A c \in Client : pc'[c] = pc[c]
    BY <1>1, <1>2 DEF Pool!TakeWork, Pool!RunItem, Pool!Go, Pool!GoAndWake, PoolTypes
  <2>2. UNCHANGED <<in_shutdown, shutdown_done, destroyed>>
    BY <1>2 DEF Pool!TakeWork, Pool!RunItem
  <2> QED BY <1>1, <2>1, <2>2 DEF OneShutsDown, ShutsDown
<1>3. ASSUME NEW w \in Worker, Pool!Terminate(w)
      PROVE  OneShutsDown'
  <2>1. \A c \in Client : pc'[c] = pc[c] \/ (pc[c] = "wait" /\ pc'[c] = "check")
    BY <1>1, <1>3 DEF Pool!Terminate, Pool!WorkersTerminated, Pool!Go, Pool!GoAndWake, PoolTypes
  <2>2. UNCHANGED <<in_shutdown, destroyed>> /\ (shutdown_done => shutdown_done')
    BY <1>1, <1>3 DEF Pool!Terminate, PillsConserved
  <2> QED BY <1>1, <2>1, <2>2 DEF OneShutsDown, ShutsDown
<1>4. ASSUME NEW t \in Worker \cup Client, Pool!SubmitSignals(t)
      PROVE  OneShutsDown'
  <2>1. \A c \in Client : pc'[c] = pc[c] \/ (pc[c] = "signal" /\ pc'[c] = "out")
    BY <1>1, <1>4 DEF Pool!SubmitSignals, Pool!HasWork, Pool!GoAndWake, PoolTypes
  <2>2. UNCHANGED <<in_shutdown, shutdown_done, destroyed>>
    BY <1>4 DEF Pool!SubmitSignals
  <2> QED BY <1>1, <2>1, <2>2 DEF OneShutsDown, ShutsDown
<1>5. ASSUME NEW c \in Client, Pool!ShutdownTests(c)
      PROVE  OneShutsDown'
  <2>1. /\ ShutsDown(c) /\ pc'[c] = IF shutdown_done THEN "destroy" ELSE "wait"
        /\ \A d \in Client \ {c} : pc'[d] = pc[d]
    BY <1>1, <1>5 DEF Pool!ShutdownTests, Pool!Go, Pool!GoAndWake, PoolTypes, ShutsDown
  <2>2. UNCHANGED <<in_shutdown, shutdown_done, destroyed>>
    BY <1>5 DEF Pool!ShutdownTests
  <2> QED BY <1>1, <2>1, <2>2 DEF OneShutsDown, ShutsDown
<1>6. ASSUME NEW c \in Client, Pool!ShutdownDestroys(c)
      PROVE  OneShutsDown'
  <2>1. /\ pc[c] = "destroy" /\ ShutsDown(c) /\ pc'[c] = "out" /\ destroyed' = TRUE
        /\ \A d \in Client \ {c} : pc'[d] = pc[d]
        /\ UNCHANGED <<in_shutdown, shutdown_done>>
    BY <1>1, <1>6 DEF Pool!ShutdownDestroys, Pool!Go, Pool!GoAndWake, PoolTypes, ShutsDown
  <2>2. in_shutdown /\ shutdown_done /\ \A d \in Client \ {c} : ~ShutsDown(d)
    BY <1>1, <2>1 DEF OneShutsDown
  <2> QED BY <2>1, <2>2 DEF OneShutsDown, ShutsDown
<1>7. ASSUME NEW c \in Client, Pool!tp_shutdown(c)
      PROVE  OneShutsDown'
  <2>1. /\ ~destroyed /\ ~in_shutdown /\ in_shutdown' /\ UNCHANGED <<shutdown_done, destroyed>>
        /\ pc'[c] = IF shutdown_done THEN "destroy" ELSE "wait"
        /\ \A d \in Client \ {c} : pc'[d] = pc[d]
    BY <1>1, <1>7 DEF Pool!tp_shutdown, Pool!HasWork, Pool!GoAndWake, PoolTypes
  <2>2. \A d \in Client : ~ShutsDown(d)
    BY <1>1, <2>1 DEF OneShutsDown
  <2> QED BY <1>1, <2>1, <2>2 DEF OneShutsDown, ShutsDown
<1>8. ASSUME NEW t \in Worker \cup Client, NEW i \in Item, Pool!tp_submit(t, i)
      PROVE  OneShutsDown'
  <2>1. /\ UNCHANGED <<in_shutdown, shutdown_done, destroyed>>
        /\ \A c \in Client : pc'[c] = pc[c] \/ (~destroyed /\ pc[c] = "out" /\ pc'[c] = "signal")
    BY <1>1, <1>8 DEF Pool!tp_submit, Pool!Running, Pool!Go, Pool!GoAndWake, PoolTypes
  <2> QED BY <1>1, <2>1 DEF OneShutsDown, ShutsDown
<1>9. ASSUME NEW t \in Worker \cup Client, Pool!SpuriousWakeup(t)
      PROVE  OneShutsDown'
  <2>1. /\ UNCHANGED <<in_shutdown, shutdown_done, destroyed>>
        /\ \A c \in Client : pc'[c] = pc[c] \/ (pc[c] = "wait" /\ pc'[c] = "check")
    BY <1>1, <1>9 DEF Pool!SpuriousWakeup, Pool!HasWork, Pool!WorkersTerminated, Pool!GoAndWake,
                      PoolTypes
  <2> QED BY <1>1, <2>1 DEF OneShutsDown, ShutsDown
<1> QED BY <1>2, <1>3, <1>4, <1>5, <1>6, <1>7, <1>8, <1>9
        DEF Pool!Next, Pool!WorkerStep, Pool!ShutdownStep

-----------------------------------------------------------------------------
(* Every pool starts empty, with all its workers at work. *)
LEMMA PoolsInit == Init => PoolInv
<1> SUFFICES ASSUME Init PROVE PoolInv
  OBVIOUS
<1> USE PoolAssumption
<1>1. /\ kind \in {"shutdown", "monitor", "signal"} /\ work_queue = <<>>
      /\ pc = [t \in Worker \cup Client |-> IF t \in Worker THEN "get" ELSE "out"]
      /\ wi = [w \in Worker |-> NULL] /\ submitted = {} /\ accepted = {}
      /\ executed = [i \in Item |-> 0]
  BY DEF Init, Pool!Init, Earlier!Init
<1>2. <<>> \in Seq(IF kind = "shutdown" THEN WorkItem ELSE Item)
  OBVIOUS
<1>3. PoolTypes
  BY <1>1, <1>2 DEF PoolTypes, WorkItem
<1>4. ASSUME NEW x \in WorkItem PROVE Total(x) = 0
  <2>1. Places(work_queue, x) = {} /\ Hands(x) = {}
    BY <1>1 DEF Places, Hands, WorkItem
  <2> QED BY <1>3, <2>1, TotalIsNatural
<1>5. ItemsConserved
  BY <1>1, <1>4 DEF ItemsConserved, WorkItem
<1>6. ASSUME kind = "shutdown" PROVE PillsConserved /\ OneShutsDown
  <2>1. /\ in_shutdown = FALSE /\ shutdown_done = FALSE /\ destroyed = FALSE
        /\ remaining_threads = Cardinality(Worker)
    BY <1>6, SameCardinality DEF Init, Pool!Init
  <2>2. Alive = Worker
    BY <1>1 DEF Alive
  <2>3. PillsConserved
    BY <1>4, <2>1, <2>2, WorkersAreFinite DEF PillsConserved, WorkItem
  <2>4. OneShutsDown
    BY <1>1, <2>1 DEF OneShutsDown, ShutsDown
  <2> QED BY <2>3, <2>4
<1> QED BY <1>3, <1>5, <1>6 DEF PoolInv

LEMMA PoolsStep == PoolInv /\ [Next]_vars => PoolInv'
<1> SUFFICES ASSUME PoolInv, [Next]_vars PROVE PoolInv'
  OBVIOUS
<1>1. CASE UNCHANGED vars
  <2>1. UNCHANGED <<kind, work_queue, pc, wi, submitted, accepted, executed,
                    remaining_threads, in_shutdown, shutdown_done, destroyed>>
    BY <1>1 DEF vars, earlierVars, shutdownVars
  <2>2. PoolTypes'
    BY <2>1 DEF PoolInv, PoolTypes
  <2>3. ItemsConserved'
    BY <2>1 DEF PoolInv, ItemsConserved, Total, Places, Hands
  <2>4. kind' = "shutdown" => PillsConserved' /\ OneShutsDown'
    BY <2>1 DEF PoolInv, PillsConserved, OneShutsDown, ShutsDown, Alive, Total, Places, Hands
  <2> QED BY <2>2, <2>3, <2>4 DEF PoolInv
<1>2. CASE kind = "shutdown" /\ Pool!Next /\ kind' = kind
  <2>1. PoolTypes' /\ Effect
    BY <1>2, ShutdownPoolStep DEF PoolInv
  <2>2. ItemsConserved' /\ PillsConserved'
    BY <1>2, <2>1, ItemsStep, PillsStep
  <2>3. OneShutsDown'
    BY <1>2, <2>1, <2>2, ShutdownStepsInOrder
  <2> QED BY <2>1, <2>2, <2>3 DEF PoolInv
<1>3. CASE /\ kind \in {"monitor", "signal"} /\ kind' = kind
           /\ Earlier!MonitorNext \/ Earlier!SignalNext
           /\ UNCHANGED shutdownVars
  <2>1. PoolTypes' /\ Effect
    BY <1>3, EarlierPoolStep DEF PoolInv
  <2>2. ItemsConserved'
    BY <2>1, ItemsStep
  <2> QED BY <1>3, <2>1, <2>2 DEF PoolInv
<1> QED BY <1>1, <1>2, <1>3 DEF Next

LEMMA PoolIsInvariant == LiveSpec => []PoolInv
BY PoolsInit, PoolsStep, PTL DEF LiveSpec

-----------------------------------------------------------------------------
(* src/aula-06-02/tpool.c and its two predecessors: an accepted item is     *)
(* always in exactly one place, and is executed once at most.               *)
THEOREM NoItemIsLost == LiveSpec => []EachItemInOnePlace
<1>1. PoolInv => EachItemInOnePlace
  <2>1. \A x : Pool!Queued(x) = Places(work_queue, x) /\ Pool!Holding(x) = Hands(x)
    BY DEF Pool!Queued, Pool!Holding, Places, Hands
  <2> QED BY <2>1, SameCardinality
          DEF PoolInv, ItemsConserved, Total, EachItemInOnePlace, Pool!EachItemInOnePlace
<1> QED BY <1>1, PoolIsInvariant, PTL

(* src/aula-06-02/tpool.c: from the moment in_shutdown is set there is one  *)
(* pill for every worker that still runs.                                   *)
THEOREM PillsAreEnough == LiveSpec => []OnePillPerWorker
<1>1. PoolInv => OnePillPerWorker
  <2> SUFFICES ASSUME PoolInv, kind = "shutdown" PROVE Pool!OnePillPerWorker
    BY DEF OnePillPerWorker
  <2>1. Pool!Queued(Pill) = Places(work_queue, Pill) /\ Pool!Holding(Pill) = Hands(Pill)
    BY DEF Pool!Queued, Pool!Holding, Places, Hands
  <2>2. PillsConserved /\ PoolTypes
    BY DEF PoolInv
  <2>3. ~in_shutdown => Places(work_queue, Pill) = {} /\ Hands(Pill) = {}
    BY <2>2, TotalIsNatural DEF PillsConserved
  <2> QED BY <2>1, <2>2, <2>3, SameCardinality
          DEF PillsConserved, Total, Alive, Pool!OnePillPerWorker
<1> QED BY <1>1, PoolIsInvariant, PTL

(* src/aula-06-02/tpool.c: once the mutex and the condition variables are   *)
(* destroyed, every worker has ended and no client is in tp_shutdown; a     *)
(* client may at most be about to signal, and not if it is the only one.    *)
THEOREM NobodyIsInADestroyedPool == LiveSpec => []NobodyLocksADestroyedPool
<1>1. PoolInv => NobodyLocksADestroyedPool
  <2> SUFFICES ASSUME PoolInv, kind = "shutdown", destroyed
               PROVE  /\ \A w \in Worker : pc[w] = "end"
                      /\ \A c \in Client :
                            pc[c] \in {"out"} \cup (IF Client = {c} THEN {} ELSE {"signal"})
    BY DEF NobodyLocksADestroyedPool, Pool!NobodyLocksADestroyedPool
  <2>1. PoolTypes /\ PillsConserved /\ OneShutsDown
    BY DEF PoolInv
  <2>2. Alive = {}
    <3>1. Cardinality(Alive) = 0
      BY <2>1 DEF OneShutsDown, PillsConserved
    <3> QED BY <3>1, WorkersAreFinite DEF Alive
  <2>3. \A c \in Client : ~ShutsDown(c) /\ (Client = {c} => pc[c] = "out")
    BY <2>1 DEF OneShutsDown
  <2> QED BY <2>1, <2>2, <2>3 DEF Alive, ShutsDown, PoolTypes
<1> QED BY <1>1, PoolIsInvariant, PTL

-----------------------------------------------------------------------------
(* The refinement.                                                          *)
Executed == {i \in Item : executed[i] > 0}
Closed == kind = "shutdown" /\ in_shutdown
HasFinished == destroyed \/ \E c \in Client : pc[c] = "destroy"
Finished == kind = "shutdown" /\ HasFinished

(* When the last worker has taken its pill the queue is empty, so all that  *)
(* was accepted has been executed.                                          *)
LEMMA DoneMeansExecuted ==
    ASSUME PoolInv, kind = "shutdown", in_shutdown, shutdown_done
    PROVE  accepted = Executed
<1>1. PoolTypes /\ PillsConserved /\ ItemsConserved /\ work_queue \in Seq(WorkItem)
  BY DEF PoolInv, PoolTypes, WorkItem
<1>2. Cardinality(Alive) = 0 /\ Total(Pill) = 0
  BY <1>1 DEF PillsConserved
<1>3. Alive = {} /\ Places(work_queue, Pill) = {}
  BY <1>1, <1>2, WorkersAreFinite, TotalIsNatural DEF Alive
<1>4. work_queue = <<>>
  <2> SUFFICES ASSUME work_queue # <<>> PROVE FALSE
    OBVIOUS
  <2>1. work_queue[Len(work_queue)] = Pill
    BY <1>1 DEF PillsConserved
  <2>2. Len(work_queue) \in DOMAIN work_queue
    BY <1>1
  <2> QED BY <1>3, <2>1, <2>2 DEF Places
<1>5. ASSUME NEW i \in Item PROVE executed[i] = IF i \in accepted THEN 1 ELSE 0
  <2>1. Places(work_queue, i) = {}
    BY <1>4 DEF Places
  <2>2. Hands(i) = {}
    BY <1>1, <1>3 DEF Hands, Alive, PoolTypes
  <2>3. Total(i) = 0
    BY <1>1, <2>1, <2>2, TotalIsNatural
  <2>4. executed[i] \in Nat
    BY <1>1 DEF PoolTypes
  <2> QED BY <1>1, <2>3, <2>4 DEF ItemsConserved
<1>6. accepted \subseteq Item
  BY <1>1 DEF PoolTypes
<1> QED BY <1>5, <1>6 DEF Executed

(* A worker executes what was accepted and not executed before. *)
LEMMA ExecutesOnce ==
    ASSUME PoolInv, NEW w \in Worker, Executes(w)
    PROVE  \E i \in Item : i \in accepted \ Executed /\ Executed' = Executed \cup {i}
<1>1. PICK i \in Item : i = wi[w]
  BY DEF Executes
<1>2. PoolTypes /\ ItemsConserved /\ executed \in [Item -> Nat]
  BY DEF PoolInv, PoolTypes
<1>3. Total(i) # 0 /\ Total(i) \in Nat
  <2>1. Hands(i) # {}
    BY <1>1 DEF Hands
  <2> QED BY <1>2, <2>1, TotalIsNatural DEF Total
<1>4. executed[i] = 0 /\ i \in accepted
  BY <1>2, <1>3 DEF ItemsConserved
<1>5. executed' = [executed EXCEPT ![i] = @ + 1]
  BY <1>1 DEF Executes
<1>6. Executed' = Executed \cup {i}
  BY <1>2, <1>5 DEF Executed
<1> QED BY <1>4, <1>6 DEF Executed

(* tp_shutdown reports once, and when the workers have ended. *)
LEMMA FinishesWhenDone ==
    ASSUME PoolInv, kind = "shutdown", Pool!Next
    PROVE  \/ HasFinished' <=> HasFinished
           \/ /\ in_shutdown /\ shutdown_done /\ HasFinished'
              /\ UNCHANGED <<in_shutdown, accepted, executed>>
<1> USE PoolAssumption
<1>1. PoolTypes /\ PillsConserved /\ OneShutsDown
  BY DEF PoolInv
<1>2. CASE \E c \in Client : Pool!ShutdownTests(c)
  <2>1. PICK c \in Client : Pool!ShutdownTests(c)
    BY <1>2
  <2>2. /\ pc[c] = "check" /\ ShutsDown(c) /\ UNCHANGED <<in_shutdown, destroyed, accepted, executed>>
        /\ pc'[c] = IF shutdown_done THEN "destroy" ELSE "wait"
        /\ \A d \in Client \ {c} : pc'[d] = pc[d]
    BY <1>1, <2>1 DEF Pool!ShutdownTests, Pool!Go, Pool!GoAndWake, PoolTypes, ShutsDown
  <2>3. in_shutdown
    BY <1>1, <2>2 DEF OneShutsDown
  <2> QED BY <2>2, <2>3 DEF HasFinished
<1>3. CASE \E c \in Client : Pool!ShutdownDestroys(c)
  BY <1>1, <1>3 DEF Pool!ShutdownDestroys, HasFinished
<1>4. CASE \E c \in Client : Pool!tp_shutdown(c)
  <2>1. PICK c \in Client : Pool!tp_shutdown(c)
    BY <1>4
  <2>2. shutdown_done = FALSE
    <3>1. ~in_shutdown
      BY <2>1 DEF Pool!tp_shutdown
    <3>2. Cardinality(Alive) # 0
      BY <1>1, <3>1, WorkersAreFinite DEF PillsConserved
    <3> QED BY <1>1, <3>2 DEF PillsConserved
  <2>3. /\ pc[c] = "out" /\ pc'[c] = "wait" /\ UNCHANGED destroyed
        /\ \A d \in Client \ {c} : pc'[d] = pc[d]
    BY <1>1, <2>1, <2>2 DEF Pool!tp_shutdown, Pool!HasWork, Pool!GoAndWake, PoolTypes
  <2> QED BY <2>3 DEF HasFinished
<1>5. CASE \E w \in Worker : Pool!TakeWork(w) \/ Pool!RunItem(w)
  <2>1. UNCHANGED destroyed /\ \A c \in Client : pc'[c] = pc[c]
    BY <1>1, <1>5 DEF Pool!TakeWork, Pool!RunItem, Pool!Go, Pool!GoAndWake, PoolTypes
  <2> QED BY <2>1 DEF HasFinished
<1>6. CASE \E w \in Worker : Pool!Terminate(w)
  <2>1. UNCHANGED destroyed
        /\ \A c \in Client : pc'[c] = pc[c] \/ (pc[c] = "wait" /\ pc'[c] = "check")
    BY <1>1, <1>6 DEF Pool!Terminate, Pool!WorkersTerminated, Pool!Go, Pool!GoAndWake, PoolTypes
  <2> QED BY <2>1 DEF HasFinished
<1>7. CASE \E t \in Worker \cup Client : Pool!SubmitSignals(t) \/ Pool!SpuriousWakeup(t)
  <2>1. UNCHANGED destroyed
        /\ \A c \in Client : \/ pc'[c] = pc[c]
                             \/ pc[c] \in {"wait", "signal"} /\ pc'[c] \in {"check", "out"}
    BY <1>1, <1>7 DEF Pool!SubmitSignals, Pool!SpuriousWakeup, Pool!HasWork, Pool!WorkersTerminated,
                      Pool!GoAndWake, PoolTypes
  <2> QED BY <2>1 DEF HasFinished
<1>8. CASE \E t \in Worker \cup Client, i \in Item : Pool!tp_submit(t, i)
  <2>1. UNCHANGED destroyed
        /\ \A c \in Client : pc'[c] = pc[c] \/ (pc[c] = "out" /\ pc'[c] = "signal")
    BY <1>1, <1>8 DEF Pool!tp_submit, Pool!Running, Pool!Go, Pool!GoAndWake, PoolTypes
  <2> QED BY <2>1 DEF HasFinished
<1> QED BY <1>2, <1>3, <1>4, <1>5, <1>6, <1>7, <1>8
        DEF Pool!Next, Pool!WorkerStep, Pool!ShutdownStep

(* A step of the pool is a step of the promise or leaves it alone. *)
LEMMA PromiseStep ==
    ASSUME PoolInv, PoolInv', [Next]_vars
    PROVE  [Promise!PoolNext]_(Promise!poolVars)
<1> DEFINE Same == UNCHANGED <<accepted, Executed, Closed, Finished>>
<1>1. Promise!PoolNext \/ Same => [Promise!PoolNext]_(Promise!poolVars)
  BY DEF Promise!poolVars, Executed, Closed, Finished, HasFinished
<1>2. CASE UNCHANGED vars
  BY <1>1, <1>2 DEF vars, earlierVars, shutdownVars, Executed, Closed, Finished, HasFinished
<1>3. CASE /\ kind \in {"monitor", "signal"} /\ kind' = kind
           /\ Earlier!MonitorNext \/ Earlier!SignalNext
           /\ UNCHANGED shutdownVars
  <2>1. Effect
    BY <1>3, EarlierPoolStep DEF PoolInv
  <2>2. Closed = FALSE /\ Closed' = FALSE /\ Finished = FALSE /\ Finished' = FALSE
    BY <1>3 DEF Closed, Finished
  <2>3. ASSUME NEW w \in Worker, Executes(w)
        PROVE  Promise!PoolNext
    <3>1. PICK i \in Item : i \in accepted \ Executed /\ Executed' = Executed \cup {i}
      BY <2>3, ExecutesOnce
    <3>2. Promise!Execute(i)
      BY <2>2, <2>3, <3>1 DEF Promise!Execute, Executes, Executed, Closed, Finished, HasFinished
    <3> QED BY <3>2 DEF Promise!PoolNext
  <2>4. ASSUME NEW i \in Item, Accepts(i)
        PROVE  Promise!PoolNext
    <3>1. Promise!Accept(i)
      BY <2>2, <2>4 DEF Promise!Accept, Accepts, Closed, Finished, HasFinished
    <3> QED BY <3>1 DEF Promise!PoolNext
  <2>5. CASE Rests \/ \E w \in Worker : Takes(w)
    BY <1>1, <2>2, <2>5 DEF Rests, Takes, Executed
  <2> QED BY <1>1, <1>3, <2>1, <2>3, <2>4, <2>5 DEF Effect, Ends, Closes
<1>4. CASE kind = "shutdown" /\ Pool!Next /\ kind' = kind
  <2>1. Effect /\ PillsConserved /\ PillsConserved'
    BY <1>4, ShutdownPoolStep DEF PoolInv
  <2>2. /\ Closed = in_shutdown /\ Closed' = in_shutdown'
        /\ Finished = HasFinished /\ Finished' = HasFinished'
    BY <1>4, <2>1 DEF Closed, Finished, PillsConserved, HasFinished, PoolInv, OneShutsDown
  <2>3. CASE /\ in_shutdown /\ shutdown_done /\ HasFinished'
             /\ UNCHANGED <<in_shutdown, accepted, executed>>
    <3>1. accepted = Executed
      BY <1>4, <2>3, DoneMeansExecuted
    <3>2. Promise!Finish
      BY <1>4, <2>2, <2>3, <3>1 DEF Promise!Finish, Executed, Closed, Finished, HasFinished
    <3> QED BY <1>1, <3>2 DEF Promise!PoolNext
  <2>4. CASE HasFinished' <=> HasFinished
    <3>1. Finished' = Finished
      BY <2>2, <2>4 DEF HasFinished, PoolInv, OneShutsDown
    <3>2. ASSUME NEW w \in Worker, Executes(w)
          PROVE  Promise!PoolNext
      <4>1. PICK i \in Item : i \in accepted \ Executed /\ Executed' = Executed \cup {i}
        BY <3>2, ExecutesOnce
      <4>2. Closed' = Closed
        BY <2>2, <3>2 DEF Executes, KeepsWorkers
      <4>3. Promise!Execute(i)
        BY <3>1, <3>2, <4>1, <4>2 DEF Promise!Execute, Executes, Executed, Closed, Finished, HasFinished
      <4> QED BY <4>3 DEF Promise!PoolNext
    <3>3. ASSUME NEW i \in Item, Accepts(i)
          PROVE  Promise!PoolNext
      <4>1. Closed' = Closed /\ ~Closed /\ Executed' = Executed
        BY <1>4, <2>2, <3>3 DEF Accepts, KeepsWorkers, Executed
      <4>2. Promise!Accept(i)
        BY <3>1, <3>3, <4>1 DEF Promise!Accept, Accepts, Executed, Closed, Finished, HasFinished
      <4> QED BY <4>2 DEF Promise!PoolNext
    <3>4. CASE Closes
      <4>1. Closed' = TRUE /\ Executed' = Executed /\ accepted' = accepted
        BY <2>2, <3>4 DEF Closes, Executed
      <4>2. Promise!Close
        BY <3>1, <4>1 DEF Promise!Close, Executed, Closed, Finished, HasFinished
      <4> QED BY <1>1, <4>2 DEF Promise!PoolNext
    <3>5. CASE Rests \/ \E w \in Worker : Takes(w) \/ Ends(w)
      <4>1. UNCHANGED <<accepted, executed, in_shutdown>>
        BY <3>5 DEF Rests, Takes, Ends, KeepsWorkers
      <4>2. Same
        BY <2>2, <3>1, <4>1 DEF Executed
      <4> QED BY <1>1, <4>2
    <3> QED BY <1>1, <2>1, <3>2, <3>3, <3>4, <3>5 DEF Effect
  <2> QED BY <1>4, <2>3, <2>4, FinishesWhenDone
<1> QED BY <1>2, <1>3, <1>4 DEF Next

(* src/aula-06-02/tpool.c and its predecessors keep the promise of WorkPool *)
(* for every number of workers, clients and items: what is accepted is      *)
(* executed once, nothing is accepted after the shutdown has begun, and     *)
(* tp_shutdown is past its wait only when all that was accepted is done.    *)
THEOREM PoolsKeepThePromise == LiveSpec => ImplementsWorkPool
<1>1. Init => Promise!PoolInit
  BY DEF Init, Pool!Init, Earlier!Init, Promise!PoolInit
<1> QED BY <1>1, PoolIsInvariant, PromiseStep, PTL
        DEF LiveSpec, ImplementsWorkPool, Promise!PoolSpec
=============================================================================
