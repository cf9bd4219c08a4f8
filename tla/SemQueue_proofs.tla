--------------------------- MODULE SemQueue_proofs ---------------------------
(***************************************************************************)
(* For every number of threads, every size and every set of messages: as   *)
(* long as no getter has found the list empty, the queue over the POSIX    *)
(* semaphores loses no place and is a bounded FIFO, although both of its   *)
(* semaphores start at max_size.                                           *)
(***************************************************************************)
EXTENDS SemQueue, FiniteSetTheorems, TLAPS

QueueTypes ==
    /\ head \in Seq(Message)
    /\ space_avaiable \in Nat
    /\ elem_avaiable \in Nat
    /\ pc \in [Thread -> {"out", "insert", "elem", "remove", "space", "copy"}]
    /\ node \in [Thread -> Message \cup {NULL}]
    /\ aborted \in BOOLEAN
    /\ taken \in Seq(Message)

(* Who is about to insert has something to insert, who is about to remove   *)
(* has nothing yet.                                                         *)
PuttersHoldANode == \A t \in Thread :
    /\ pc[t] = "insert" => node[t] # NULL
    /\ pc[t] \in {"out", "elem", "remove"} => node[t] = NULL

QueueInv == QueueTypes /\ PuttersHoldANode /\ PlacesAddUp

-----------------------------------------------------------------------------
(* Sets of threads are finite, and a thread that moves leaves one of them   *)
(* and joins another.                                                       *)
LEMMA SetsOfThreads ==
    ASSUME NEW S \in SUBSET Thread
    PROVE  IsFiniteSet(S) /\ Cardinality(S) \in Nat
BY ThreadAssumption, FS_Subset, FS_CardinalityType

LEMMA Moves ==
    ASSUME QueueTypes, NEW t \in Thread, NEW from, NEW to,
           pc[t] = from, from # to, Go(t, to)
    PROVE  /\ Cardinality(At(from)') = Cardinality(At(from)) - 1
           /\ Cardinality(At(to)') = Cardinality(At(to)) + 1
           /\ \A l : l \notin {from, to} => At(l)' = At(l)
<1>1. At(from)' = At(from) \ {t} /\ t \in At(from)
  BY DEF QueueTypes, Go, At
<1>2. At(to)' = At(to) \cup {t} /\ t \notin At(to)
  BY DEF QueueTypes, Go, At
<1>3. \A l : l \notin {from, to} => At(l)' = At(l)
  BY DEF QueueTypes, Go, At
<1>4. At(from) \in SUBSET Thread /\ At(to) \in SUBSET Thread
  BY DEF At
<1>5. IsFiniteSet(At(from)) /\ IsFiniteSet(At(to))
  BY <1>4, SetsOfThreads
<1>6. Cardinality(At(from) \ {t}) = Cardinality(At(from)) - 1
  BY <1>1, <1>5, FS_RemoveElement
<1>7. Cardinality(At(to) \cup {t}) = Cardinality(At(to)) + 1
  BY <1>2, <1>5, FS_AddElement
<1> QED BY <1>1, <1>2, <1>3, <1>6, <1>7

(* The queue is empty and all its places are free. *)
LEMMA QueueInit == Init => QueueInv
<1> SUFFICES ASSUME Init PROVE QueueInv
  OBVIOUS
<1>1. QueueTypes /\ PuttersHoldANode
  <2>1. <<>> \in Seq(Message) /\ max_size \in Nat
    BY SizeAssumption
  <2> QED BY <2>1 DEF Init, queue_init, QueueTypes, PuttersHoldANode
<1>2. At("insert") = {} /\ At("space") = {}
  BY DEF Init, At
<1>3. Cardinality({}) = 0
  BY FS_EmptySet
<1>4. Len(head) = 0 /\ space_avaiable = max_size /\ max_size \in Nat
  BY SizeAssumption DEF Init, queue_init
<1>5. PlacesAddUp
  BY <1>2, <1>3, <1>4 DEF PlacesAddUp
<1> QED BY <1>1, <1>5 DEF QueueInv

-----------------------------------------------------------------------------
(* A getter that found the list empty is remembered until free() aborts,    *)
(* and nothing happens after that.                                          *)
LEMMA EmptinessIsRemembered ==
    ASSUME QueueTypes, Next, SomebodyFoundItEmpty
    PROVE  SomebodyFoundItEmpty'
<1>1. PICK t \in Thread : \/ Started(t) \/ GetWaitsForElem(t)
                          \/ \E m \in Message : PutWaitsForSpace(t, m)
  BY DEF Next
<1>2. ~aborted
  BY <1>1 DEF Started, GetWaitsForElem, PutWaitsForSpace, PutInserts, PutPostsElem,
              GetRemoves, GetPostsSpace, GetCopies
<1>3. PICK u \in Thread : pc[u] \in {"space", "copy"} /\ node[u] = NULL
  BY <1>2 DEF SomebodyFoundItEmpty
<1>4. CASE t # u
  <2>1. pc'[u] = pc[u] /\ node'[u] = node[u]
    BY <1>1, <1>4 DEF QueueTypes, Started, GetWaitsForElem, PutWaitsForSpace, PutInserts,
                      PutPostsElem, GetRemoves, GetPostsSpace, GetCopies, Go
  <2> QED BY <2>1, <1>3 DEF SomebodyFoundItEmpty
<1>5. CASE t = u
  <2>1. GetPostsSpace(u) \/ GetCopies(u)
    BY <1>1, <1>3, <1>5 DEF Started, GetWaitsForElem, PutWaitsForSpace, PutInserts,
                            PutPostsElem, GetRemoves
  <2>2. CASE GetPostsSpace(u)
    BY <1>3, <2>2 DEF QueueTypes, GetPostsSpace, Go, SomebodyFoundItEmpty
  <2>3. CASE GetCopies(u)
    BY <1>3, <2>3 DEF GetCopies, SomebodyFoundItEmpty
  <2> QED BY <2>1, <2>2, <2>3
<1> QED BY <1>4, <1>5

(* The types and the hands of the putters. *)
LEMMA TypesStep ==
    ASSUME QueueTypes, PuttersHoldANode, [Next]_vars
    PROVE  QueueTypes' /\ PuttersHoldANode'
<1>1. CASE UNCHANGED vars
  BY <1>1 DEF vars, QueueTypes, PuttersHoldANode
<1>2. ASSUME NEW t \in Thread, NEW m \in Message, PutWaitsForSpace(t, m)
      PROVE  QueueTypes' /\ PuttersHoldANode'
  BY <1>2, NullAssumption DEF PutWaitsForSpace, Go, QueueTypes, PuttersHoldANode
<1>3. ASSUME NEW t \in Thread, PutInserts(t)
      PROVE  QueueTypes' /\ PuttersHoldANode'
  <2>1. node[t] \in Message
    BY <1>3 DEF PutInserts, QueueTypes, PuttersHoldANode
  <2>2. head' \in Seq(Message)
    BY <1>3, <2>1 DEF PutInserts, QueueTypes
  <2> QED BY <1>3, <2>2 DEF PutInserts, Go, QueueTypes, PuttersHoldANode
<1>4. ASSUME NEW t \in Thread, PutPostsElem(t)
      PROVE  QueueTypes' /\ PuttersHoldANode'
  BY <1>4 DEF PutPostsElem, Go, QueueTypes, PuttersHoldANode
<1>5. ASSUME NEW t \in Thread, GetWaitsForElem(t)
      PROVE  QueueTypes' /\ PuttersHoldANode'
  BY <1>5 DEF GetWaitsForElem, Go, QueueTypes, PuttersHoldANode
<1>6. ASSUME NEW t \in Thread, GetRemoves(t)
      PROVE  QueueTypes' /\ PuttersHoldANode'
  <2>1. head # <<>> => Head(head) \in Message /\ Tail(head) \in Seq(Message)
    BY DEF QueueTypes
  <2>2. head' \in Seq(Message) /\ taken' \in Seq(Message)
    <3>1. CASE head = <<>>
      BY <1>6, <3>1 DEF GetRemoves, QueueTypes
    <3>2. CASE head # <<>>
      <4>1. head' = Tail(head) /\ taken' = Append(taken, Head(head)) /\ taken \in Seq(Message)
        BY <1>6, <3>2 DEF GetRemoves, QueueTypes
      <4> QED BY <4>1, <3>2, <2>1
    <3> QED BY <3>1, <3>2
  <2>3. node' \in [Thread -> Message \cup {NULL}] /\ \A u \in Thread \ {t} : node'[u] = node[u]
    BY <1>6, <2>1 DEF GetRemoves, QueueTypes
  <2>4. pc' = [pc EXCEPT ![t] = "space"]
        /\ space_avaiable' = space_avaiable /\ elem_avaiable' = elem_avaiable
        /\ aborted' = aborted
    BY <1>6 DEF GetRemoves, Go
  <2>5. QueueTypes'
    BY <2>2, <2>3, <2>4 DEF QueueTypes
  <2>6. PuttersHoldANode'
    BY <2>3, <2>4 DEF QueueTypes, PuttersHoldANode
  <2> QED BY <2>5, <2>6
<1>7. ASSUME NEW t \in Thread, GetPostsSpace(t)
      PROVE  QueueTypes' /\ PuttersHoldANode'
  BY <1>7 DEF GetPostsSpace, Go, QueueTypes, PuttersHoldANode
<1>8. ASSUME NEW t \in Thread, GetCopies(t)
      PROVE  QueueTypes' /\ PuttersHoldANode'
  BY <1>8 DEF GetCopies, Go, QueueTypes, PuttersHoldANode
<1> QED BY <1>1, <1>2, <1>3, <1>4, <1>5, <1>6, <1>7, <1>8 DEF Next, Started

(* Each step moves one place between the four terms of the sum. *)
LEMMA PlacesStep ==
    ASSUME QueueInv, Next, ~SomebodyFoundItEmpty'
    PROVE  PlacesAddUp'
<1> DEFINE I == Cardinality(At("insert"))
           S == Cardinality(At("space"))
           I2 == Cardinality(At("insert")')
           S2 == Cardinality(At("space")')
<1> SUFFICES space_avaiable' + I2 + Len(head') + S2 = max_size
  BY DEF PlacesAddUp
<1>1. space_avaiable + I + Len(head) + S = max_size
  BY EmptinessIsRemembered DEF QueueInv, PlacesAddUp
<1>2. I \in Nat /\ S \in Nat /\ Len(head) \in Nat /\ space_avaiable \in Nat
  <2>1. At("insert") \in SUBSET Thread /\ At("space") \in SUBSET Thread
    BY DEF At
  <2>2. I \in Nat /\ S \in Nat
    BY <2>1, SetsOfThreads
  <2> QED BY <2>2 DEF QueueInv, QueueTypes
<1> HIDE DEF I, S, I2, S2
<1>3. ASSUME NEW t \in Thread, NEW m \in Message, PutWaitsForSpace(t, m)
      PROVE  space_avaiable' + I2 + Len(head') + S2 = max_size
  <2>1. I2 = I + 1 /\ S2 = S
    BY <1>3, Moves DEF QueueInv, PutWaitsForSpace, I, S, I2, S2
  <2> QED BY <1>1, <1>2, <1>3, <2>1 DEF PutWaitsForSpace
<1>4. ASSUME NEW t \in Thread, PutInserts(t)
      PROVE  space_avaiable' + I2 + Len(head') + S2 = max_size
  <2>1. I2 = I - 1 /\ S2 = S
    BY <1>4, Moves DEF QueueInv, PutInserts, I, S, I2, S2
  <2>2. Len(head') = Len(head) + 1
    BY <1>4 DEF PutInserts, QueueInv, QueueTypes
  <2>3. space_avaiable' = space_avaiable
    BY <1>4 DEF PutInserts
  <2> QED BY <1>1, <1>2, <2>1, <2>2, <2>3
<1>5. ASSUME NEW t \in Thread, PutPostsElem(t)
      PROVE  space_avaiable' + I2 + Len(head') + S2 = max_size
  <2>1. I2 = I /\ S2 = S
    BY <1>5, Moves DEF QueueInv, PutPostsElem, I, S, I2, S2
  <2> QED BY <1>1, <1>2, <1>5, <2>1 DEF PutPostsElem
<1>6. ASSUME NEW t \in Thread, GetWaitsForElem(t)
      PROVE  space_avaiable' + I2 + Len(head') + S2 = max_size
  <2>1. I2 = I /\ S2 = S
    BY <1>6, Moves DEF QueueInv, GetWaitsForElem, I, S, I2, S2
  <2> QED BY <1>1, <1>2, <1>6, <2>1 DEF GetWaitsForElem
<1>7. ASSUME NEW t \in Thread, GetRemoves(t)
      PROVE  space_avaiable' + I2 + Len(head') + S2 = max_size
  <2>1. I2 = I /\ S2 = S + 1
    BY <1>7, Moves DEF QueueInv, GetRemoves, I, S, I2, S2
  <2>2. head # <<>>
    <3> SUFFICES ASSUME head = <<>> PROVE FALSE
      OBVIOUS
    <3>1. node' = node /\ pc' = [pc EXCEPT ![t] = "space"] /\ pc[t] = "remove"
      BY <1>7 DEF GetRemoves, Go
    <3>2. node[t] = NULL
      BY <3>1 DEF QueueInv, PuttersHoldANode
    <3>3. pc'[t] = "space"
      BY <3>1 DEF QueueInv, QueueTypes
    <3> QED BY <3>1, <3>2, <3>3 DEF SomebodyFoundItEmpty
  <2>3. Len(head') = Len(head) - 1
    BY <1>7, <2>2 DEF GetRemoves, QueueInv, QueueTypes
  <2>4. space_avaiable' = space_avaiable
    BY <1>7 DEF GetRemoves
  <2> QED BY <1>1, <1>2, <2>1, <2>3, <2>4
<1>8. ASSUME NEW t \in Thread, GetPostsSpace(t)
      PROVE  space_avaiable' + I2 + Len(head') + S2 = max_size
  <2>1. I2 = I /\ S2 = S - 1
    BY <1>8, Moves DEF QueueInv, GetPostsSpace, I, S, I2, S2
  <2> QED BY <1>1, <1>2, <1>8, <2>1 DEF GetPostsSpace
<1>9. ASSUME NEW t \in Thread, GetCopies(t)
      PROVE  space_avaiable' + I2 + Len(head') + S2 = max_size
  <2>1. I2 = I /\ S2 = S
    BY <1>9, Moves DEF QueueInv, GetCopies, I, S, I2, S2
  <2> QED BY <1>1, <1>2, <1>9, <2>1 DEF GetCopies
<1> QED BY <1>3, <1>4, <1>5, <1>6, <1>7, <1>8, <1>9 DEF Next, Started

(* The invariant is inductive. *)
THEOREM QueueIsInvariant == Spec => []QueueInv
<1>1. QueueInv /\ [Next]_vars => QueueInv'
  <2> SUFFICES ASSUME QueueInv, [Next]_vars PROVE QueueInv'
    OBVIOUS
  <2>1. QueueTypes' /\ PuttersHoldANode'
    BY TypesStep DEF QueueInv
  <2>2. PlacesAddUp'
    <3>1. CASE UNCHANGED vars
      BY <3>1 DEF vars, QueueInv, PlacesAddUp, SomebodyFoundItEmpty, At
    <3>2. CASE Next /\ ~SomebodyFoundItEmpty'
      BY <3>2, PlacesStep
    <3>3. CASE SomebodyFoundItEmpty'
      BY <3>3 DEF PlacesAddUp
    <3> QED BY <3>1, <3>2, <3>3
  <2> QED BY <2>1, <2>2 DEF QueueInv
<1> QED BY QueueInit, <1>1, PTL DEF Spec

(* src/aula-06-04/queues/queue.c: whatever the number of threads and the    *)
(* size, every place is free, reserved, occupied or on its way back, until  *)
(* a getter finds the list empty.                                           *)
THEOREM NoPlaceIsLost == Spec => []PlacesAddUp
<1>1. QueueInv => PlacesAddUp
  BY DEF QueueInv
<1> QED BY <1>1, QueueIsInvariant, PTL

-----------------------------------------------------------------------------
(* A putter that got past the semaphore finds room in the list. *)
LEMMA PutterFindsRoom ==
    ASSUME QueueInv, ~SomebodyFoundItEmpty, NEW t \in Thread, pc[t] = "insert"
    PROVE  Len(head) < max_size
<1>1. At("insert") \in SUBSET Thread /\ At("space") \in SUBSET Thread /\ t \in At("insert")
  BY DEF At
<1>2. /\ Cardinality(At("insert")) \in Nat /\ Cardinality(At("space")) \in Nat
      /\ IsFiniteSet(At("insert"))
  BY <1>1, SetsOfThreads
<1>3. Cardinality(At("insert")) # 0
  BY <1>1, <1>2, FS_EmptySet
<1>4. space_avaiable + Cardinality(At("insert")) + Len(head) + Cardinality(At("space")) = max_size
  BY DEF QueueInv, PlacesAddUp
<1>5. Len(head) \in Nat /\ space_avaiable \in Nat /\ max_size \in Nat
  BY SizeAssumption DEF QueueInv, QueueTypes
<1> QED BY <1>2, <1>3, <1>4, <1>5

(* Insertion and removal are the two operations of the bounded FIFO; every  *)
(* other step leaves the list and the delivered messages alone.             *)
LEMMA StepsOfTheFifo ==
    ASSUME QueueInv, [Next]_vars
    PROVE  [SomebodyFoundItEmpty' \/ Fifo!FifoNext]_<<head, taken>>
<1>1. CASE UNCHANGED vars
  BY <1>1 DEF vars
<1>2. CASE Next /\ ~SomebodyFoundItEmpty'
  <2>1. ~SomebodyFoundItEmpty
    BY <1>2, EmptinessIsRemembered DEF QueueInv
  <2>2. ASSUME NEW t \in Thread, PutInserts(t)
        PROVE  Fifo!FifoNext
    <3>1. node[t] \in Message /\ Len(head) < max_size
      BY <2>1, <2>2, PutterFindsRoom DEF PutInserts, QueueInv, QueueTypes, PuttersHoldANode
    <3>2. Fifo!Put(node[t])
      BY <2>2, <3>1 DEF PutInserts, Fifo!Put
    <3> QED BY <3>1, <3>2 DEF Fifo!FifoNext
  <2>3. ASSUME NEW t \in Thread, GetRemoves(t)
        PROVE  Fifo!FifoNext \/ UNCHANGED <<head, taken>>
    BY <2>3 DEF GetRemoves, Fifo!FifoNext, Fifo!Get
  <2>4. ASSUME NEW t \in Thread,
               \/ PutPostsElem(t) \/ GetPostsSpace(t) \/ GetCopies(t) \/ GetWaitsForElem(t)
               \/ \E m \in Message : PutWaitsForSpace(t, m)
        PROVE  UNCHANGED <<head, taken>>
    BY <2>4 DEF PutPostsElem, GetPostsSpace, GetCopies, GetWaitsForElem, PutWaitsForSpace
  <2> QED BY <1>2, <2>2, <2>3, <2>4 DEF Next, Started
<1>3. CASE SomebodyFoundItEmpty'
  BY <1>3
<1> QED BY <1>1, <1>2, <1>3

(* src/aula-06-04/queues/queue.c: up to the first getter that finds the     *)
(* list empty the queue is a FIFO of max_size places, for every number of   *)
(* threads and every size.                                                  *)
THEOREM QueueIsFifo == Spec => StepIsFifo
<1>1. Init => Fifo!FifoInit
  BY DEF Init, queue_init, Fifo!FifoInit
<1> QED BY <1>1, QueueIsInvariant, StepsOfTheFifo, PTL DEF Spec, StepIsFifo
=============================================================================
