---------------------------- MODULE USynch_proofs ----------------------------
(***************************************************************************)
(* What holds of the scheduler of module UThread for every set of threads  *)
(* and every program: its ready queue stays sound, its counter counts, and *)
(* threads are served first come, first served.  Then the same of the      *)
(* synchronizers of module USynch for every set of events and semaphores   *)
(* and every limit: they only ever activate blocked threads, so that what  *)
(* holds of the bare scheduler holds of every program that uses them, and  *)
(* no thread is lost.                                                      *)
(***************************************************************************)
EXTENDS UQueue, TLAPS, SequenceTheorems, FiniteSetTheorems

-----------------------------------------------------------------------------
(* The scheduler alone. *)

(* The inductive invariant.  CountIsAllocated is what keeps the counter a   *)
(* natural number in ut_exit, ReadyQueueSound what keeps it a counter of    *)
(* distinct threads, MainIsThere what schedule falls back on.               *)
SchedInv == TypeOK /\ ReadyQueueSound /\ CountIsAllocated /\ MainIsThere

-----------------------------------------------------------------------------
(* Sequences without repetitions.                                           *)

(* The members of a sequence after its first are those of its tail. *)
LEMMA TailOfInjective ==
    ASSUME NEW S, NEW q \in Seq(S), IsInjective(q), q # <<>>
    PROVE  /\ Tail(q) \in Seq(S) /\ IsInjective(Tail(q))
           /\ Head(q) \in Range(q)
           /\ Range(Tail(q)) = Range(q) \ {Head(q)}
<1>1. /\ Tail(q) \in Seq(S) /\ Len(Tail(q)) = Len(q) - 1 /\ Len(q) \in Nat \ {0}
      /\ Head(q) = q[1]
      /\ \A i \in 1..Len(q)-1 : Tail(q)[i] = q[i+1]
  BY HeadTailProperties, EmptySeq
<1>2. DOMAIN q = 1..Len(q) /\ DOMAIN Tail(q) = 1..Len(q)-1
  BY <1>1, LenProperties
<1>3. IsInjective(Tail(q))
  BY <1>1, <1>2 DEF IsInjective
<1>4. Head(q) \in Range(q)
  BY <1>1, <1>2 DEF Range
<1>5. \A x \in Range(q) : x # Head(q) => x \in Range(Tail(q))
  <2> SUFFICES ASSUME NEW i \in 1..Len(q), q[i] # q[1] PROVE q[i] \in Range(Tail(q))
    BY <1>1, <1>2 DEF Range
  <2> i-1 \in 1..Len(q)-1 /\ Tail(q)[i-1] = q[i]
    BY <1>1
  <2> QED BY <1>2 DEF Range
<1>6. \A x \in Range(Tail(q)) : x \in Range(q) /\ x # Head(q)
  <2> SUFFICES ASSUME NEW i \in 1..Len(q)-1 PROVE q[i+1] \in Range(q) /\ q[i+1] # q[1]
    BY <1>1, <1>2 DEF Range
  <2> i+1 \in 1..Len(q) /\ 1 \in 1..Len(q) /\ i+1 # 1
    BY <1>1
  <2> QED BY <1>2 DEF Range, IsInjective
<1> QED BY <1>1, <1>3, <1>4, <1>5, <1>6

(* Two sequences with no common member. *)
LEMMA ConcatOfInjective ==
    ASSUME NEW S, NEW q \in Seq(S), NEW s \in Seq(S),
           IsInjective(q), IsInjective(s), Range(q) \cap Range(s) = {}
    PROVE  /\ q \o s \in Seq(S) /\ IsInjective(q \o s)
           /\ Range(q \o s) = Range(q) \cup Range(s)
<1>1. q \o s \in Seq(S) /\ Range(q \o s) = Range(q) \cup Range(s)
  BY ConcatProperties, RangeConcatenation
<1> DEFINE m == Len(q)  n == Len(s)
<1>2. /\ m \in Nat /\ n \in Nat
      /\ DOMAIN q = 1..m /\ DOMAIN s = 1..n /\ DOMAIN (q \o s) = 1..m+n
      /\ \A i \in 1..m+n : (q \o s)[i] = IF i <= m THEN q[i] ELSE s[i-m]
  BY <1>1, ConcatProperties, LenProperties
<1>3. ASSUME NEW i \in 1..m+n, NEW j \in 1..m+n, (q \o s)[i] = (q \o s)[j]
      PROVE  i = j
  <2>1. CASE i <= m /\ j <= m
    BY <1>2, <1>3, <2>1 DEF IsInjective
  <2>2. CASE i > m /\ j > m
    <3> i-m \in 1..n /\ j-m \in 1..n /\ s[i-m] = s[j-m]
      BY <1>2, <1>3, <2>2
    <3> QED BY <1>2 DEF IsInjective
  <2>3. CASE (i <= m /\ j > m) \/ (j <= m /\ i > m)
    <3> \E a \in 1..m, b \in 1..n : q[a] = s[b]
      BY <1>2, <1>3, <2>3
    <3> QED BY <1>2 DEF Range
  <2> QED BY <1>2, <2>1, <2>2, <2>3
<1>4. IsInjective(q \o s)
  BY <1>2, <1>3 DEF IsInjective
<1> QED BY <1>1, <1>4

(* A sequence of one member. *)
LEMMA Singleton ==
    ASSUME NEW S, NEW t \in S
    PROVE  <<t>> \in Seq(S) /\ IsInjective(<<t>>) /\ Range(<<t>>) = {t}
BY DEF IsInjective, Range

(* One more member at the end. *)
LEMMA AppendOfInjective ==
    ASSUME NEW S, NEW q \in Seq(S), IsInjective(q), NEW t \in S, t \notin Range(q)
    PROVE  /\ Append(q, t) \in Seq(S) /\ IsInjective(Append(q, t))
           /\ Range(Append(q, t)) = Range(q) \cup {t}
<1>1. PICK s \in Seq(S) : s = <<t>> /\ IsInjective(s) /\ Range(s) = {t}
  BY Singleton
<1>2. Append(q, t) = q \o s
  BY <1>1, AppendIsConcat
<1>3. /\ q \o s \in Seq(S) /\ IsInjective(q \o s)
      /\ Range(q \o s) = Range(q) \cup Range(s)
  <2> HIDE <1>2
  <2> Range(q) \cap Range(s) = {}
    BY <1>1
  <2> QED BY <1>1, ConcatOfInjective, ZenonT(60)
<1> QED BY <1>1, <1>2, <1>3

(* The empty sequence. *)
LEMMA Empty == IsInjective(<<>>) /\ Range(<<>>) = {}
BY DEF IsInjective, Range

-----------------------------------------------------------------------------
(* The processor and the queue after a context switch.                      *)
LEMMA ScheduleIsSound ==
    ASSUME NEW q \in Seq(Thread), IsInjective(q), schedule(q)
    PROVE  /\ ready_queue' \in Seq(Thread) /\ IsInjective(ready_queue')
           /\ Range(ready_queue') \subseteq Range(q)
           /\ running_thread' \notin Range(ready_queue') \/ q = <<>>
           /\ q = <<>> => running_thread' = main_thread /\ ready_queue' = <<>>
           /\ q # <<>> => running_thread' \in Range(q)
<1>1. CASE q = <<>>
  BY <1>1, Empty, EmptySeq DEF schedule, extract_next_thread, AfterExtract
<1>2. CASE q # <<>>
  BY <1>2, TailOfInjective DEF schedule, extract_next_thread, AfterExtract
<1> QED BY <1>1, <1>2

-----------------------------------------------------------------------------
(* The inductive invariant holds initially.                                 *)
LEMMA SchedInvInit == Init => SchedInv
BY Empty, FS_EmptySet, EmptySeq, ThreadAssumption
   DEF Init, SchedInv, TypeOK, ReadyQueueSound, CountIsAllocated, MainIsThere

(* A call that only appends threads of `allocated` that are neither ready   *)
(* nor running to the ready queue.                                          *)
LEMMA ActivateIsSound ==
    ASSUME SchedInv, NEW s \in Seq(Thread), IsInjective(s), ut_activate(s),
           allocated \subseteq allocated', Range(s) \subseteq allocated',
           Range(s) \cap (Range(ready_queue) \cup {running_thread}) = {},
           UNCHANGED running_thread
    PROVE  ready_queue' \in Seq(Thread) /\ ReadyQueueSound'
<1>1. /\ ready_queue' \in Seq(Thread) /\ IsInjective(ready_queue')
      /\ Range(ready_queue') = Range(ready_queue) \cup Range(s)
  BY ConcatOfInjective DEF SchedInv, TypeOK, ReadyQueueSound, ut_activate
<1> QED BY <1>1 DEF SchedInv, ReadyQueueSound

(* A call that ends in a context switch and leaves q to choose from.        *)
LEMMA SwitchIsSound ==
    ASSUME SchedInv, running_thread \in Thread \/ ready_queue # <<>>,
           NEW q \in Seq(Thread), IsInjective(q), schedule(q),
           Range(q) \subseteq allocated',
           main_thread' = Main, main_thread # Main => q # <<>>
    PROVE  /\ ready_queue' \in Seq(Thread) /\ ReadyQueueSound'
           /\ running_thread' \in Thread \cup {Main} /\ MainIsThere'
<1>1. /\ ready_queue' \in Seq(Thread) /\ IsInjective(ready_queue')
      /\ Range(ready_queue') \subseteq Range(q)
      /\ running_thread' \notin Range(ready_queue') \/ q = <<>>
      /\ q = <<>> => running_thread' = main_thread /\ ready_queue' = <<>>
      /\ q # <<>> => running_thread' \in Range(q)
  BY ScheduleIsSound
<1>2. Range(q) \subseteq Thread
  BY RangeOfSeq
<1>3. CASE q = <<>>
  BY <1>1, <1>3, Empty, ThreadAssumption DEF ReadyQueueSound, MainIsThere
<1>4. CASE q # <<>>
  BY <1>1, <1>2, <1>4, ThreadAssumption DEF ReadyQueueSound, MainIsThere
<1> QED BY <1>3, <1>4

(* What Wake activates is a sequence of threads. *)
LEMMA OrdersAreSequences ==
    ASSUME IsFiniteSet(allocated), allocated \subseteq Thread, NEW s \in Orders(Blocked)
    PROVE  s \in Seq(Thread)
<1>1. Blocked \subseteq Thread /\ IsFiniteSet(Blocked)
  BY FS_Subset DEF Blocked
<1>2. PICK n \in 1..Cardinality(Blocked) : s \in [1..n -> Blocked]
  BY DEF Orders
<1>3. n \in Nat
  BY <1>1, FS_CardinalityType
<1> QED BY <1>1, <1>2, <1>3, SeqDef

(* A thread that exits is counted no more. *)
LEMMA OneExits ==
    ASSUME CountIsAllocated, NEW t \in allocated,
           number_of_threads' = number_of_threads - 1, allocated' = allocated \ {t}
    PROVE  CountIsAllocated' /\ number_of_threads' \in Nat
<1>1. /\ IsFiniteSet(allocated') /\ Cardinality(allocated') = Cardinality(allocated) - 1
      /\ Cardinality(allocated') \in Nat
  BY FS_RemoveElement, FS_CardinalityType DEF CountIsAllocated
<1> QED BY <1>1 DEF CountIsAllocated

(* Every step of the scheduler preserves the inductive invariant.           *)
LEMMA SchedInvNext == SchedInv /\ [Next]_vars => SchedInv'
<1> SUFFICES ASSUME SchedInv, [Next]_vars PROVE SchedInv'
  OBVIOUS
<1> USE ThreadAssumption
<1>0. /\ ready_queue \in Seq(Thread) /\ IsInjective(ready_queue)
      /\ Range(ready_queue) \subseteq allocated /\ allocated \subseteq Thread
      /\ running_thread \notin Range(ready_queue)
      /\ running_thread \in Thread => running_thread \in allocated /\ main_thread = Main
      /\ IsFiniteSet(allocated) /\ number_of_threads = Cardinality(allocated)
  BY DEF SchedInv, TypeOK, ReadyQueueSound, CountIsAllocated, MainIsThere
<1>1. ASSUME NEW t \in Thread, ut_create(t) PROVE SchedInv'
  <2>1. CountIsAllocated' /\ number_of_threads' \in Nat
    BY <1>0, <1>1, FS_AddElement, FS_CardinalityType DEF ut_create, CountIsAllocated
  <2>2. t \notin Range(ready_queue) /\ t # running_thread
    BY <1>0, <1>1 DEF ut_create
  <2>3. ready_queue' \in Seq(Thread) /\ ReadyQueueSound'
    BY <1>1, <2>2, Singleton, ActivateIsSound DEF ut_create
  <2> QED BY <1>1, <2>1, <2>3 DEF ut_create, SchedInv, TypeOK, MainIsThere
<1>2. ASSUME NEW s \in Orders(Blocked), Wake(s) PROVE SchedInv'
  <2>1. s \in Seq(Thread)
    BY <1>0, OrdersAreSequences
  <2>2. ready_queue' \in Seq(Thread) /\ ReadyQueueSound'
    BY <1>2, <2>1, ActivateIsSound DEF Wake, Blocked
  <2> QED BY <1>2, <2>2 DEF Wake, SchedInv, TypeOK, MainIsThere, CountIsAllocated
<1>3. CASE ut_yield
  <2> DEFINE q == Append(ready_queue, running_thread)
  <2>1. running_thread \in Thread /\ running_thread \notin Range(ready_queue)
    BY <1>0, <1>3 DEF ut_yield
  <2>2. q \in Seq(Thread) /\ IsInjective(q) /\ Range(q) = Range(ready_queue) \cup {running_thread}
    BY <1>0, <2>1, AppendOfInjective
  <2>3. /\ ready_queue' \in Seq(Thread) /\ ReadyQueueSound'
        /\ running_thread' \in Thread \cup {Main} /\ MainIsThere'
    BY <1>0, <1>3, <2>1, <2>2, SwitchIsSound DEF ut_yield
  <2> QED BY <1>3, <2>3 DEF ut_yield, SchedInv, TypeOK, CountIsAllocated
<1>4. CASE ut_deactivate
  <2>1. /\ ready_queue' \in Seq(Thread) /\ ReadyQueueSound'
        /\ running_thread' \in Thread \cup {Main} /\ MainIsThere'
    BY <1>0, <1>4, SwitchIsSound DEF ut_deactivate
  <2> QED BY <1>4, <2>1 DEF ut_deactivate, SchedInv, TypeOK, CountIsAllocated
<1>5. CASE ut_exit
  <2>1. CountIsAllocated' /\ number_of_threads' \in Nat
    BY <1>0, <1>5, OneExits DEF ut_exit, CountIsAllocated
  <2>2. /\ ready_queue' \in Seq(Thread) /\ ReadyQueueSound'
        /\ running_thread' \in Thread \cup {Main} /\ MainIsThere'
    BY <1>0, <1>5, SwitchIsSound DEF ut_exit
  <2> QED BY <1>0, <1>5, <2>1, <2>2 DEF ut_exit, SchedInv, TypeOK
<1>6. CASE ut_run
  <2>1. /\ ready_queue' \in Seq(Thread) /\ ReadyQueueSound'
        /\ running_thread' \in Thread \cup {Main} /\ MainIsThere'
    BY <1>0, <1>6, SwitchIsSound DEF ut_run
  <2> QED BY <1>6, <2>1 DEF ut_run, SchedInv, TypeOK, CountIsAllocated
<1>7. CASE ut_run_returns
  <2>1. NULL \notin Range(ready_queue)
    BY <1>0
  <2> QED BY <1>0, <1>7, <2>1
          DEF ut_run_returns, SchedInv, TypeOK, ReadyQueueSound, CountIsAllocated, MainIsThere
<1>8. CASE UNCHANGED vars
  BY <1>8 DEF vars, SchedInv, TypeOK, ReadyQueueSound, CountIsAllocated, MainIsThere
<1> QED BY <1>1, <1>2, <1>3, <1>4, <1>5, <1>6, <1>7, <1>8 DEF Next

(* Whatever the program calls, as long as it activates blocked threads      *)
(* only: the variables keep their types, the ready queue holds live, waiting*)
(* threads once each, number_of_threads counts the descriptors that are     *)
(* allocated, and there is a main thread to switch to.                      *)
THEOREM SchedulerIsSound == Spec => []SchedInv
<1>1. Init => SchedInv
  BY SchedInvInit
<1>2. SchedInv /\ [Next]_vars => SchedInv'
  BY SchedInvNext
<1> QED BY <1>1, <1>2, PTL DEF Spec

-----------------------------------------------------------------------------
(* First come, first served.                                                *)

(* q is followed by r without overtaking. *)
InOrder(q, r) ==
    \A t, u \in Thread :
        /\ Before(q, t, u) => ~Before(r, u, t)
        /\ (t \in Range(q) /\ u \notin Range(q)) => ~Before(r, u, t)

(* Adding threads at the end overtakes nobody. *)
LEMMA ConcatInOrder ==
    ASSUME NEW q \in Seq(Thread), NEW s \in Seq(Thread), IsInjective(q \o s)
    PROVE  InOrder(q, q \o s)
<1> DEFINE m == Len(q)  n == Len(s)  r == q \o s
<1>1. /\ m \in Nat /\ n \in Nat
      /\ DOMAIN q = 1..m /\ DOMAIN r = 1..m+n
      /\ \A i \in 1..m : r[i] = q[i]
  BY ConcatProperties, LenProperties
<1>2. ASSUME NEW t \in Thread, NEW u \in Thread, Before(r, u, t), t \in Range(q)
      PROVE  u \in Range(q) /\ ~Before(q, t, u)
  <2> HIDE DEF r
  <2>1. PICK i \in 1..m+n, j \in 1..m+n : i < j /\ r[i] = u /\ r[j] = t
    BY <1>1, <1>2 DEF Before
  <2>2. PICK k \in 1..m : q[k] = t
    BY <1>1, <1>2 DEF Range
  <2>3. \A a, b \in 1..m+n : r[a] = r[b] => a = b
    BY <1>1 DEF IsInjective, r
  <2>4. j = k
    BY <1>1, <2>1, <2>2, <2>3
  <2>5. i \in 1..m /\ q[i] = u
    BY <1>1, <2>1, <2>4
  <2>6. \A a, b \in 1..m : q[a] = t /\ q[b] = u => a = j /\ b = i
    BY <1>1, <2>1, <2>3
  <2> QED BY <1>1, <2>1, <2>5, <2>6 DEF Range, Before
<1>3. \A t, u \in Thread : Before(q, t, u) => t \in Range(q)
  BY DEF Before, Range
<1> QED BY <1>2, <1>3 DEF InOrder

(* Taking the first thread overtakes nobody. *)
LEMMA ExtractInOrder ==
    ASSUME NEW q, NEW r \in Seq(Thread), InOrder(q, r)
    PROVE  InOrder(q, AfterExtract(r))
<1>1. CASE r = <<>>
  BY <1>1 DEF AfterExtract, InOrder
<1>2. CASE r # <<>>
  <2>1. /\ Tail(r) \in Seq(Thread) /\ Len(Tail(r)) = Len(r) - 1 /\ Len(r) \in Nat
        /\ \A i \in 1..Len(r)-1 : Tail(r)[i] = r[i+1]
        /\ DOMAIN r = 1..Len(r) /\ DOMAIN Tail(r) = 1..Len(r)-1
    BY <1>2, HeadTailProperties, LenProperties
  <2>2. ASSUME NEW t \in Thread, NEW u \in Thread, Before(Tail(r), u, t)
        PROVE  Before(r, u, t)
    <3>1. PICK i \in 1..Len(r)-1, j \in 1..Len(r)-1 : i < j /\ Tail(r)[i] = u /\ Tail(r)[j] = t
      BY <2>1, <2>2 DEF Before
    <3>2. /\ i+1 \in 1..Len(r) /\ j+1 \in 1..Len(r) /\ i+1 < j+1
          /\ r[i+1] = u /\ r[j+1] = t
      BY <2>1, <3>1
    <3> QED BY <2>1, <3>2 DEF Before
  <2> QED BY <1>2, <2>2 DEF AfterExtract, InOrder
<1> QED BY <1>1, <1>2

(* The head of the queue has nobody in front of it. *)
LEMMA HeadIsFirst ==
    ASSUME NEW q \in Seq(Thread), q # <<>>, IsInjective(q), NEW t
    PROVE  ~Before(q, t, Head(q))
<1>1. Head(q) = q[1] /\ Len(q) \in Nat \ {0} /\ DOMAIN q = 1..Len(q)
  BY HeadTailProperties, EmptySeq, LenProperties
<1> QED BY <1>1 DEF Before, IsInjective

(* No step of the scheduler overtakes: each is an append, an extraction, or *)
(* both.                                                                    *)
LEMMA SwitchDoesNotOvertake ==
    ASSUME SchedInv, NEW s \in Seq(Thread), IsInjective(ready_queue \o s),
           schedule(ready_queue \o s), s # <<>> => ready_queue # <<>>,
           running_thread \in Thread \/ ready_queue # <<>>
    PROVE  /\ InOrder(ready_queue, ready_queue')
           /\ \A t, u \in Thread : Before(ready_queue, t, u) => running_thread' # u
<1> DEFINE q == ready_queue  r == ready_queue \o s
<1>1. q \in Seq(Thread) /\ IsInjective(q) /\ r \in Seq(Thread)
  BY ConcatProperties DEF SchedInv, TypeOK, ReadyQueueSound
<1>2. InOrder(q, ready_queue')
  BY <1>1, ConcatInOrder, ExtractInOrder DEF schedule
<1>3. ASSUME NEW t \in Thread, NEW u \in Thread, Before(q, t, u) PROVE running_thread' # u
  <2>1. q # <<>>
    BY <1>3 DEF Before
  <2>2. Head(r) = Head(q) /\ r # <<>>
    BY <1>1, <2>1, ConcatProperties, EmptySeq
  <2> QED BY <1>1, <1>3, <2>1, <2>2, HeadIsFirst DEF schedule, extract_next_thread
<1> QED BY <1>2, <1>3

(* What NoOvertaking says of one step. *)
NoneOvertaken ==
    \A t, u \in Thread :
        /\ Before(ready_queue, t, u) => ~Before(ready_queue', u, t) /\ running_thread' # u
        /\ (t \in Range(ready_queue) /\ u \notin Range(ready_queue)) =>
              ~Before(ready_queue', u, t)

LEMMA NextDoesNotOvertake == SchedInv /\ Next => NoneOvertaken
<1> SUFFICES ASSUME SchedInv, Next PROVE NoneOvertaken
  OBVIOUS
<1>0. /\ ready_queue \in Seq(Thread) /\ IsInjective(ready_queue)
      /\ Range(ready_queue) \subseteq allocated /\ allocated \subseteq Thread
      /\ running_thread \notin Range(ready_queue)
      /\ IsFiniteSet(allocated)
      /\ ready_queue \o <<>> = ready_queue /\ <<>> \in Seq(Thread)
  BY ConcatEmptySeq DEF SchedInv, TypeOK, ReadyQueueSound, CountIsAllocated
<1>1. ASSUME NEW s \in Seq(Thread), IsInjective(s), ut_activate(s), UNCHANGED running_thread,
             Range(s) \cap Range(ready_queue) = {}
      PROVE  NoneOvertaken
  <2>1. InOrder(ready_queue, ready_queue')
    BY <1>0, <1>1, ConcatOfInjective, ConcatInOrder DEF ut_activate
  <2>2. \A t, u \in Thread : Before(ready_queue, t, u) => running_thread' # u
    BY <1>0, <1>1 DEF Before, Range
  <2> QED BY <2>1, <2>2 DEF InOrder, NoneOvertaken
<1>2. ASSUME schedule(ready_queue), running_thread \in Thread \/ ready_queue # <<>>
      PROVE  NoneOvertaken
  BY <1>0, <1>2, SwitchDoesNotOvertake DEF InOrder, NoneOvertaken
<1>3. ASSUME NEW t \in Thread, ut_create(t) PROVE NoneOvertaken
  BY <1>0, <1>1, <1>3, Singleton DEF ut_create
<1>4. ASSUME NEW s \in Orders(Blocked), Wake(s) PROVE NoneOvertaken
  <2>1. s \in Seq(Thread)
    BY <1>0, OrdersAreSequences
  <2> QED BY <1>1, <1>4, <2>1 DEF Wake, Blocked
<1>5. CASE ut_yield
  <2>1. PICK s \in Seq(Thread) :
            /\ s = <<running_thread>> /\ IsInjective(s) /\ Range(s) = {running_thread}
    BY <1>5, Singleton DEF ut_yield
  <2>2. Range(ready_queue) \cap Range(s) = {}
    BY <1>0, <2>1
  <2>3. IsInjective(ready_queue \o s) /\ ready_queue \o s = Append(ready_queue, running_thread)
    BY <1>0, <1>5, <2>1, <2>2, ConcatOfInjective, AppendIsConcat, ZenonT(60) DEF ut_yield
  <2> QED BY <1>5, <2>1, <2>3, SwitchDoesNotOvertake DEF ut_yield, InOrder, NoneOvertaken
<1>6. CASE ut_deactivate \/ ut_exit \/ ut_run
  BY <1>2, <1>6 DEF ut_deactivate, ut_exit, ut_run
<1>7. CASE ut_run_returns
  BY <1>7 DEF ut_run_returns, NoneOvertaken, Before, Range
<1> QED BY <1>3, <1>4, <1>5, <1>6, <1>7 DEF Next

(* ut_yield, ut_activate and every blocking call serve the ready queue first*)
(* come, first served, for any number of threads.                           *)
THEOREM SchedulerIsFifo == Spec => NoOvertaking
<1>1. Init => SchedInv
  BY SchedInvInit
<1>2. SchedInv /\ [Next]_vars => SchedInv'
  BY SchedInvNext
<1>3. SchedInv /\ [Next]_vars => [NoneOvertaken]_vars
  BY NextDoesNotOvertake
<1> QED BY <1>1, <1>2, <1>3, PTL DEF Spec, NoOvertaking, NoneOvertaken

-----------------------------------------------------------------------------
(* The synchronizers. *)

(* The inductive invariant.  Placement says which threads are blocked, and  *)
(* so which activations are legal; without it ReadyQueueSound is not kept   *)
(* by event_set.                                                            *)
SyncInv == SchedInv /\ SyncTypeOK /\ Placement

(* The first k waiters of s are activated and leave its list: what          *)
(* event_set, auto_event_set and sem_post have in common.                   *)
Release(s, k) ==
    /\ ProgramRuns
    /\ k \in 0..Len(waiters[s])
    /\ waiters' = [waiters EXCEPT ![s] = SubSeq(@, k+1, Len(@))]
    /\ ut_activate(SubSeq(waiters[s], 1, k))
    /\ UNCHANGED <<number_of_threads, running_thread, main_thread, allocated>>

AllWaiting == UNION { Range(waiters[s]) : s \in Sync }

-----------------------------------------------------------------------------
(* A sequence without repetitions is cut in two without a common member. *)
LEMMA CutOfInjective ==
    ASSUME NEW S, NEW w \in Seq(S), IsInjective(w), NEW k \in 0..Len(w)
    PROVE  LET a == SubSeq(w, 1, k)
               b == SubSeq(w, k+1, Len(w))
           IN  /\ a \in Seq(S) /\ IsInjective(a) /\ b \in Seq(S) /\ IsInjective(b)
               /\ Len(a) = k /\ Len(b) = Len(w) - k
               /\ \A i \in 1..k : a[i] = w[i]
               /\ Range(a) \cap Range(b) = {} /\ Range(a) \cup Range(b) = Range(w)
<1> DEFINE a == SubSeq(w, 1, k)  b == SubSeq(w, k+1, Len(w))  n == Len(w)
<1>1. n \in Nat /\ DOMAIN w = 1..n /\ \A i \in 1..n : w[i] \in S
  BY LenProperties, ElementOfSeq
<1>2. a \in Seq(S) /\ Len(a) = k /\ \A i \in 1..k : a[i] = w[i]
  BY <1>1, SubSeqProperties
<1>3. b \in Seq(S) /\ Len(b) = n-k /\ \A i \in 1..n-k : b[i] = w[k+i]
  <2>1. /\ b \in Seq(S)
        /\ Len(b) = IF k+1 <= n THEN n-(k+1)+1 ELSE 0
        /\ \A i \in 1..n-(k+1)+1 : b[i] = w[k+1+i-1]
    BY <1>1, SubSeqProperties, SMTT(40)
  <2>2. /\ n-(k+1)+1 = n-k /\ (IF k+1 <= n THEN n-(k+1)+1 ELSE 0) = n-k
        /\ \A i \in 1..n-k : k+1+i-1 = k+i
    <3>1. k \in Nat /\ n \in Nat /\ k <= n
      BY <1>1
    <3> HIDE DEF n
    <3> QED BY <3>1
  <2> HIDE DEF b, n
  <2> QED BY <2>1, <2>2
<1>4. DOMAIN a = 1..k /\ DOMAIN b = 1..n-k
  BY <1>2, <1>3, LenProperties
<1>5. k \in Nat /\ k <= n /\ \A i, j \in 1..n : w[i] = w[j] => i = j
  BY <1>1 DEF IsInjective
<1> HIDE DEF a, b, n
<1>6. IsInjective(a)
  <2>1. \A i, j \in 1..k : a[i] = a[j] => i = j
    BY <1>1, <1>2, <1>5
  <2> QED BY <1>4, <2>1 DEF IsInjective
<1>7. IsInjective(b)
  <2>1. \A i, j \in 1..n-k : b[i] = b[j] => i = j
    <3> SUFFICES ASSUME NEW i \in 1..n-k, NEW j \in 1..n-k, b[i] = b[j] PROVE i = j
      OBVIOUS
    <3>1. k+i \in 1..n /\ k+j \in 1..n /\ w[k+i] = w[k+j]
      BY <1>1, <1>3, <1>5
    <3> QED BY <1>5, <3>1
  <2> QED BY <1>4, <2>1 DEF IsInjective
<1>8. Range(a) \cap Range(b) = {}
  <2> SUFFICES ASSUME NEW i \in 1..k, NEW j \in 1..n-k, a[i] = b[j] PROVE FALSE
    BY <1>4 DEF Range
  <2>1. i \in 1..n /\ k+j \in 1..n /\ i # k+j /\ w[i] = w[k+j]
    BY <1>1, <1>2, <1>3, <1>5
  <2> QED BY <1>5, <2>1
<1>9. Range(w) \subseteq Range(a) \cup Range(b)
  <2> SUFFICES ASSUME NEW i \in 1..n PROVE w[i] \in Range(a) \cup Range(b)
    BY <1>1 DEF Range
  <2>1. CASE i <= k
    <3> i \in 1..k /\ a[i] = w[i]
      BY <1>2, <1>5, <2>1
    <3> QED BY <1>4 DEF Range
  <2>2. CASE i > k
    <3> i-k \in 1..n-k /\ b[i-k] = w[i]
      <4> i-k \in 1..n-k /\ k+(i-k) = i
        BY <1>1, <1>5, <2>2
      <4> QED BY <1>3
    <3> QED BY <1>4 DEF Range
  <2> QED BY <1>1, <1>5, <2>1, <2>2
<1>10. Range(a) \cup Range(b) \subseteq Range(w)
  <2>1. \A i \in 1..k : a[i] \in Range(w)
    BY <1>1, <1>2, <1>5 DEF Range
  <2>2. \A i \in 1..n-k : b[i] \in Range(w)
    <3> SUFFICES ASSUME NEW i \in 1..n-k PROVE b[i] \in Range(w)
      OBVIOUS
    <3> k+i \in 1..n /\ b[i] = w[k+i]
      BY <1>1, <1>3, <1>5
    <3> QED BY <1>1 DEF Range
  <2> QED BY <1>4, <2>1, <2>2 DEF Range
<1> QED BY <1>2, <1>3, <1>6, <1>7, <1>8, <1>9, <1>10 DEF a, b, n

(* A sequence without its i-th member. *)
LEMMA WithoutOneOfInjective ==
    ASSUME NEW S, NEW w \in Seq(S), IsInjective(w), NEW i \in DOMAIN w,
           NEW r, r = SubSeq(w, 1, i-1) \o SubSeq(w, i+1, Len(w))
    PROVE  r \in Seq(S) /\ IsInjective(r) /\ Range(r) = Range(w) \ {w[i]}
<1> DEFINE n == Len(w)
<1>1. /\ n \in Nat /\ DOMAIN w = 1..n /\ i \in 1..n
      /\ i \in 0..n /\ i-1 \in 0..n /\ (i-1)+1 = i
  BY LenProperties
<1>2. PICK a, b, c, d :
          /\ a = SubSeq(w, 1, i-1) /\ b = SubSeq(w, i+1, n)
          /\ c = SubSeq(w, 1, i) /\ d = SubSeq(w, i, n)
  OBVIOUS
<1>3. /\ c \in Seq(S) /\ b \in Seq(S) /\ IsInjective(b)
      /\ Len(c) = i /\ \A j \in 1..i : c[j] = w[j]
      /\ Range(c) \cap Range(b) = {} /\ Range(c) \cup Range(b) = Range(w)
  BY <1>1, <1>2, CutOfInjective, SMTT(40)
<1>4. /\ a \in Seq(S) /\ IsInjective(a) /\ Len(a) = i-1
      /\ \A j \in 1..i-1 : a[j] = w[j]
  <2> PICK k \in 0..n : k = i-1
    BY <1>1
  <2> a = SubSeq(w, 1, k)
    BY <1>2
  <2> QED BY CutOfInjective
<1>5. DOMAIN c = 1..i /\ DOMAIN a = 1..i-1
  BY <1>3, <1>4, LenProperties
<1>6. Range(c) = Range(a) \cup {w[i]} /\ w[i] \notin Range(a)
  <2>1. \A j \in 1..i-1 : w[j] # w[i]
    <3> SUFFICES ASSUME NEW j \in 1..i-1 PROVE w[j] # w[i]
      OBVIOUS
    <3> j \in DOMAIN w /\ j # i
      BY <1>1
    <3> QED BY DEF IsInjective
  <2>2. \A x : x \in Range(c) <=> \E j \in 1..i : x = w[j]
    BY <1>3, <1>5 DEF Range
  <2>3. \A x : x \in Range(a) <=> \E j \in 1..i-1 : x = w[j]
    BY <1>4, <1>5 DEF Range
  <2>4. \A j : j \in 1..i <=> j \in 1..i-1 \/ j = i
    BY <1>1
  <2> QED BY <2>1, <2>2, <2>3, <2>4
<1>7. r = a \o b /\ Range(a) \cap Range(b) = {}
  BY <1>2, <1>3, <1>6
<1>8. r \in Seq(S) /\ IsInjective(r) /\ Range(r) = Range(a) \cup Range(b)
  <2>1. /\ a \o b \in Seq(S) /\ IsInjective(a \o b)
        /\ Range(a \o b) = Range(a) \cup Range(b)
    BY <1>3, <1>4, <1>7, ConcatOfInjective
  <2> QED BY <1>7, <2>1
<1>9. w[i] \notin Range(b)
  BY <1>3, <1>6
<1> QED BY <1>3, <1>6, <1>8, <1>9

(* A context switch takes at most one thread from the queue: it runs. *)
LEMMA ScheduleKeepsAll ==
    ASSUME NEW q \in Seq(Thread), IsInjective(q), schedule(q), main_thread \in {Main, NULL}
    PROVE  Range(q) = Range(ready_queue') \cup ({running_thread'} \cap Thread)
<1>1. Range(q) \subseteq Thread
  BY RangeOfSeq
<1>2. CASE q = <<>>
  BY <1>2, Empty, ThreadAssumption DEF schedule, extract_next_thread, AfterExtract
<1>3. CASE q # <<>>
  BY <1>1, <1>3, TailOfInjective DEF schedule, extract_next_thread, AfterExtract
<1> QED BY <1>2, <1>3

-----------------------------------------------------------------------------
(* Facts about a state of the invariant. *)
LEMMA SyncFacts ==
    ASSUME SyncInv
    PROVE  /\ ready_queue \in Seq(Thread) /\ IsInjective(ready_queue)
           /\ Range(ready_queue) \subseteq allocated /\ allocated \subseteq Thread
           /\ running_thread \notin Range(ready_queue)
           /\ running_thread \in Thread => running_thread \in allocated /\ main_thread = Main
           /\ main_thread \in {Main, NULL}
           /\ IsFiniteSet(allocated)
           /\ waiters \in [Sync -> Seq(Thread)]
           /\ \A s \in Sync : IsInjective(waiters[s]) /\ Range(waiters[s]) \subseteq Blocked
           /\ \A s, r \in Sync : s # r => Range(waiters[s]) \cap Range(waiters[r]) = {}
           /\ Blocked = AllWaiting
           /\ Blocked \subseteq allocated /\ IsFiniteSet(Blocked)
<1>1. /\ ready_queue \in Seq(Thread) /\ IsInjective(ready_queue)
      /\ Range(ready_queue) \subseteq allocated /\ allocated \subseteq Thread
      /\ running_thread \notin Range(ready_queue)
      /\ running_thread \in Thread => running_thread \in allocated /\ main_thread = Main
      /\ main_thread \in {Main, NULL}
      /\ IsFiniteSet(allocated)
  BY ThreadAssumption
     DEF SyncInv, SchedInv, TypeOK, ReadyQueueSound, CountIsAllocated, MainIsThere
<1>2. Blocked \subseteq allocated /\ IsFiniteSet(Blocked)
  BY <1>1, FS_Subset DEF Blocked
<1>3. /\ waiters \in [Sync -> Seq(Thread)]
      /\ \A s \in Sync : IsInjective(waiters[s])
      /\ \A s, r \in Sync : s # r => Range(waiters[s]) \cap Range(waiters[r]) = {}
      /\ Blocked = AllWaiting
  BY DEF SyncInv, SyncTypeOK, Placement, AllWaiting
<1>4. \A s \in Sync : Range(waiters[s]) \subseteq Blocked
  BY <1>3 DEF AllWaiting
<1> QED BY <1>1, <1>2, <1>3, <1>4

(* Activating distinct blocked threads is a step the bare scheduler allows. *)
LEMMA ActivationIsWake ==
    ASSUME SyncInv, ProgramRuns, NEW s \in Seq(Thread), IsInjective(s), Range(s) \subseteq Blocked,
           ut_activate(s), UNCHANGED <<number_of_threads, running_thread, main_thread, allocated>>
    PROVE  [Next]_vars
<1>1. CASE s = <<>>
  BY <1>1, SyncFacts, ConcatEmptySeq DEF ut_activate, vars
<1>2. CASE s # <<>>
  <2> DEFINE n == Len(s)
  <2>1. n \in Nat \ {0} /\ s \in [1..n -> Thread] /\ DOMAIN s = 1..n
    BY <1>2, EmptySeq, LenProperties
  <2>2. s \in Injection(1..n, Blocked)
    BY <2>1 DEF Injection, Range
  <2>3. n <= Cardinality(Blocked) /\ Cardinality(Blocked) \in Nat
    <3>1. IsFiniteSet(Blocked)
      BY SyncFacts
    <3>2. Cardinality(1..n) <= Cardinality(Blocked) /\ Cardinality(1..n) = n
      BY <2>1, <2>2, <3>1, FS_Injection, FS_Interval
    <3> QED BY <3>1, <3>2, FS_CardinalityType
  <2>4. s \in Orders(Blocked)
    BY <2>1, <2>2, <2>3 DEF Orders, Injection
  <2>5. Wake(s)
    BY <1>2 DEF Wake
  <2> QED BY <2>4, <2>5 DEF Next
<1> QED BY <1>1, <1>2

-----------------------------------------------------------------------------
(* The effect of the two kinds of calls on who is blocked and where.        *)

(* A thread that blocks is queued, last, on the object it waits for.        *)
LEMMA BlockKeepsPlacement ==
    ASSUME SyncInv, NEW s \in Sync, Block(s)
    PROVE  /\ waiters' \in [Sync -> Seq(Thread)] /\ Placement'
           /\ running_thread \notin Range(waiters[s]) /\ running_thread \notin Blocked
           /\ waiters'[s] = Append(waiters[s], running_thread)
           /\ \A r \in Sync : r # s => waiters'[r] = waiters[r]
<1> DEFINE t == running_thread  w == waiters[s]
<1>1. t \in Thread /\ schedule(ready_queue) /\ allocated' = allocated
  BY DEF Block, ut_deactivate
<1>2. t \notin Blocked
  BY DEF Blocked
<1>3. w \in Seq(Thread) /\ IsInjective(w) /\ t \notin Range(w)
  BY <1>2, SyncFacts
<1>6. /\ Append(w, t) \in Seq(Thread) /\ IsInjective(Append(w, t))
      /\ Range(Append(w, t)) = Range(w) \cup {t}
  <2> HIDE DEF t, w
  <2> QED BY <1>1, <1>3, AppendOfInjective
<1>7. /\ waiters' \in [Sync -> Seq(Thread)]
      /\ waiters'[s] = Append(w, t)
      /\ \A r \in Sync : r # s => waiters'[r] = waiters[r]
  BY <1>6, SyncFacts DEF Block
<1>8. Blocked' = Blocked \cup {t}
  <2>1. Range(ready_queue) = Range(ready_queue') \cup ({running_thread'} \cap Thread)
    BY <1>1, SyncFacts, ScheduleKeepsAll
  <2>2. allocated \subseteq Thread /\ t \in allocated /\ t \notin Range(ready_queue)
    BY <1>1, SyncFacts
  <2> QED BY <1>1, <2>1, <2>2 DEF Blocked
<1>9. AllWaiting' = AllWaiting \cup {t}
  BY <1>6, <1>7 DEF AllWaiting
<1>10. \A r \in Sync : IsInjective(waiters'[r])
  BY <1>6, <1>7, SyncFacts
<1>11. \A r, q \in Sync : r # q => Range(waiters'[r]) \cap Range(waiters'[q]) = {}
  <2>1. \A r \in Sync : r # s => Range(waiters[r]) \cap (Range(w) \cup {t}) = {}
    BY <1>2, SyncFacts
  <2> QED BY <1>6, <1>7, <2>1, SyncFacts
<1> QED BY <1>2, <1>3, <1>7, <1>8, <1>9, <1>10, <1>11, SyncFacts DEF Placement, AllWaiting

(* The threads an object releases, and no others, are ready afterwards. *)
LEMMA ReleaseKeepsPlacement ==
    ASSUME SyncInv, NEW s \in Sync, NEW k, Release(s, k)
    PROVE  /\ waiters' \in [Sync -> Seq(Thread)] /\ Placement' /\ [Next]_vars
           /\ waiters'[s] = SubSeq(waiters[s], k+1, Len(waiters[s]))
           /\ \A r \in Sync : r # s => waiters'[r] = waiters[r]
<1> DEFINE w == waiters[s]  a == SubSeq(w, 1, k)  b == SubSeq(w, k+1, Len(w))
<1>1. w \in Seq(Thread) /\ IsInjective(w) /\ k \in 0..Len(w) /\ Range(w) \subseteq Blocked
  BY SyncFacts DEF Release
<1>2. /\ a \in Seq(Thread) /\ IsInjective(a) /\ b \in Seq(Thread) /\ IsInjective(b)
      /\ Range(a) \cap Range(b) = {} /\ Range(a) \cup Range(b) = Range(w)
  BY <1>1, CutOfInjective
<1>3. /\ waiters' \in [Sync -> Seq(Thread)] /\ waiters'[s] = b
      /\ \A r \in Sync : r # s => waiters'[r] = waiters[r]
  BY <1>2, SyncFacts DEF Release
<1>4. [Next]_vars
  <2> Range(a) \subseteq Blocked
    BY <1>1, <1>2
  <2> QED BY <1>2, ActivationIsWake DEF Release
<1>5. Blocked' = Blocked \ Range(a)
  <2>1. Range(ready_queue') = Range(ready_queue) \cup Range(a)
    <3>1. ready_queue' = ready_queue \o a /\ ready_queue \in Seq(Thread)
      BY SyncFacts DEF Release, ut_activate
    <3> HIDE DEF a
    <3> QED BY <1>2, <3>1, RangeConcatenation
  <2> QED BY <2>1 DEF Release, Blocked
<1>6. AllWaiting' = AllWaiting \ Range(a)
  <2>1. \A r \in Sync : r # s => Range(waiters[r]) \cap Range(a) = {}
    BY <1>2, SyncFacts
  <2> QED BY <1>2, <1>3, <2>1 DEF AllWaiting
<1>7. \A r \in Sync : IsInjective(waiters'[r])
  BY <1>2, <1>3, SyncFacts
<1>8. \A r, q \in Sync : r # q => Range(waiters'[r]) \cap Range(waiters'[q]) = {}
  <2>1. \A r \in Sync : r # s => Range(waiters[r]) \cap Range(b) = {}
    BY <1>2, SyncFacts
  <2> QED BY <1>3, <2>1, SyncFacts
<1> QED BY <1>3, <1>4, <1>5, <1>6, <1>7, <1>8, SyncFacts DEF Placement, AllWaiting

(* The calls of the scheduler alone block nobody and wake nobody. *)
LEMMA SchedulerKeepsPlacement == SyncInv /\ Scheduler => Placement' /\ Next
<1> SUFFICES ASSUME SyncInv, Scheduler PROVE Placement' /\ Next
  OBVIOUS
<1> USE ThreadAssumption
<1>1. Next /\ UNCHANGED syncVars
  BY DEF Scheduler, Next
<1>2. Blocked' = Blocked
  <2>1. ASSUME NEW t \in Thread, ut_create(t) PROVE Blocked' = Blocked
    <3> Range(ready_queue') = Range(ready_queue) \cup {t}
      <4>1. PICK one \in Seq(Thread) : one = <<t>> /\ Range(one) = {t}
        BY Singleton
      <4>2. ready_queue' = ready_queue \o one /\ ready_queue \in Seq(Thread)
        BY <2>1, <4>1, SyncFacts DEF ut_create, ut_activate
      <4>3. Range(ready_queue \o one) = Range(ready_queue) \cup Range(one)
        BY <4>1, <4>2, RangeConcatenation, ZenonT(60)
      <4> QED BY <4>1, <4>2, <4>3
    <3> QED BY <2>1 DEF ut_create, Blocked
  <2>2. CASE ut_yield
    <3> DEFINE q == Append(ready_queue, running_thread)
    <3>1. /\ ready_queue \in Seq(Thread) /\ IsInjective(ready_queue)
          /\ running_thread \in Thread /\ running_thread \notin Range(ready_queue)
      BY <2>2, SyncFacts DEF ut_yield
    <3>2. schedule(q)
      BY <2>2 DEF ut_yield
    <3>3. /\ q \in Seq(Thread) /\ IsInjective(q)
          /\ Range(q) = Range(ready_queue) \cup {running_thread}
      BY <3>1, AppendOfInjective
    <3> HIDE DEF q
    <3>4. Range(q) = Range(ready_queue') \cup ({running_thread'} \cap Thread)
      BY <2>2, <3>2, <3>3, SyncFacts, ScheduleKeepsAll DEF ut_yield
    <3> QED BY <2>2, <3>3, <3>4, SyncFacts DEF ut_yield, Blocked
  <2>3. CASE ut_exit \/ ut_run
    <3>1. Range(ready_queue) = Range(ready_queue') \cup ({running_thread'} \cap Thread)
      BY <2>3, SyncFacts, ScheduleKeepsAll DEF ut_exit, ut_run
    <3> QED BY <2>3, <3>1, SyncFacts DEF ut_exit, ut_run, Blocked
  <2>4. CASE ut_run_returns
    BY <2>4, SyncFacts DEF ut_run_returns, Blocked
  <2> QED BY <2>1, <2>2, <2>3, <2>4 DEF Scheduler
<1> QED BY <1>1, <1>2 DEF SyncInv, Placement, syncVars

-----------------------------------------------------------------------------
(* The three ways to wake threads are instances of Release. *)
LEMMA SetsAndPostsRelease ==
    ASSUME SyncInv
    PROVE  /\ \A e \in Event : event_set(e) => Release(e, Len(waiters[e]))
           /\ \A e \in AutoEvent : auto_event_set(e) =>
                  \/ Release(e, 1)
                  \/ UNCHANGED <<vars, waiters>>
           /\ \A s \in Semaphore, n \in Unit : sem_post(s, n) => \E k \in Nat : Release(s, k)
<1>0. waiters \in [Sync -> Seq(Thread)]
  BY SyncFacts
<1>1. ASSUME NEW e \in Event, event_set(e) PROVE Release(e, Len(waiters[e]))
  <2> DEFINE w == waiters[e]
  <2>1. w \in Seq(Thread) /\ Len(w) \in Nat
    BY <1>0, LenProperties DEF Sync
  <2>2. SubSeq(w, 1, Len(w)) = w /\ SubSeq(w, Len(w)+1, Len(w)) = <<>>
    BY <2>1, SubSeqFull, SubSeqEmpty
  <2>3. ut_activate(SubSeq(w, 1, Len(w)))
    BY <1>1, <2>2 DEF event_set
  <2>4. waiters' = [waiters EXCEPT ![e] = SubSeq(w, Len(w)+1, Len(w))]
    BY <1>1, <2>2, Zenon DEF event_set
  <2>5. Len(w) \in 0..Len(w)
    BY <2>1
  <2> QED BY <1>1, <2>3, <2>4, <2>5, Zenon DEF event_set, Release
<1>2. ASSUME NEW e \in AutoEvent, auto_event_set(e), waiters[e] # <<>> PROVE Release(e, 1)
  <2> DEFINE w == waiters[e]
  <2>1. w \in Seq(Thread) /\ Len(w) \in Nat \ {0}
    BY <1>0, <1>2, EmptySeq DEF Sync
  <2>2. Tail(w) = SubSeq(w, 2, Len(w)) /\ Head(w) = w[1]
    BY <1>2, <2>1, TailIsSubSeq, HeadTailProperties
  <2>3. SubSeq(w, 1, 1) = <<Head(w)>>
    <3>1. /\ SubSeq(w, 1, 1) \in Seq(Thread)
          /\ Len(SubSeq(w, 1, 1)) = 1 /\ SubSeq(w, 1, 1)[1] = w[1]
      <4> w[1] \in Thread
        BY <2>1, ElementOfSeq
      <4> QED BY SubSeqProperties
    <3>2. <<w[1]>> \in Seq(Thread) /\ Len(<<w[1]>>) = 1 /\ <<w[1]>>[1] = w[1]
      BY <2>1, ElementOfSeq
    <3>3. PICK a \in Seq(Thread), b \in Seq(Thread) :
              /\ a = SubSeq(w, 1, 1) /\ b = <<w[1]>>
              /\ Len(a) = 1 /\ Len(b) = 1 /\ a[1] = b[1]
      BY <3>1, <3>2
    <3>4. a = b
      <4> Len(a) = Len(b) /\ \A i \in 1..Len(a) : a[i] = b[i]
        BY <3>3
      <4> QED BY SeqEqual
    <3> QED BY <2>2, <3>3, <3>4
  <2>4. ut_activate(SubSeq(w, 1, 1)) /\ waiters' = [waiters EXCEPT ![e] = SubSeq(@, 2, Len(@))]
    BY <1>2, <2>2, <2>3 DEF auto_event_set
  <2> QED BY <1>2, <2>1, <2>4 DEF auto_event_set, Release
<1>3. ASSUME NEW e \in AutoEvent, auto_event_set(e), waiters[e] = <<>>
      PROVE  UNCHANGED <<vars, waiters>>
  BY <1>3 DEF auto_event_set, vars
<1>4. ASSUME NEW s \in Semaphore, NEW n \in Unit, sem_post(s, n)
      PROVE  \E k \in Nat : Release(s, k)
  <2>1. PICK k \in 0..Len(waiters[s]) :
            /\ waiters' = [waiters EXCEPT ![s] = SubSeq(@, k+1, Len(@))]
            /\ ut_activate(SubSeq(waiters[s], 1, k))
    BY <1>4 DEF sem_post
  <2>2. k \in Nat
    OBVIOUS
  <2>3. Release(s, k)
    BY <1>4, <2>1, Zenon DEF sem_post, Release
  <2> QED BY <2>2, <2>3
<1> QED BY <1>1, <1>2, <1>3, <1>4

(* Every step keeps every thread in its place and is a step of the bare     *)
(* scheduler or none at all.                                                *)
LEMMA SyncStepPlaces ==
    SyncInv /\ [SyncNext]_allVars => Placement' /\ [Next]_vars /\ waiters' \in [Sync -> Seq(Thread)]
<1> SUFFICES ASSUME SyncInv, [SyncNext]_allVars
             PROVE  Placement' /\ [Next]_vars /\ waiters' \in [Sync -> Seq(Thread)]
  OBVIOUS
<1>0. waiters \in [Sync -> Seq(Thread)] /\ Placement
  BY SyncFacts DEF SyncInv
<1>1. ASSUME UNCHANGED <<vars, waiters>>
      PROVE  Placement' /\ [Next]_vars /\ waiters' \in [Sync -> Seq(Thread)]
  <2>1. UNCHANGED <<ready_queue, running_thread, allocated, waiters>> /\ UNCHANGED vars
    BY <1>1 DEF vars
  <2> QED BY <1>0, <2>1 DEF Placement, Blocked
<1>2. ASSUME NEW s \in Sync, Block(s)
      PROVE  Placement' /\ [Next]_vars /\ waiters' \in [Sync -> Seq(Thread)]
  BY <1>2, BlockKeepsPlacement DEF Block, Next
<1>3. CASE Scheduler
  BY <1>0, <1>3, SchedulerKeepsPlacement DEF Scheduler, syncVars
<1>4. ASSUME NEW e \in Event, event_wait(e) \/ event_set(e)
      PROVE  Placement' /\ [Next]_vars /\ waiters' \in [Sync -> Seq(Thread)]
  <2> e \in Sync
    BY DEF Sync
  <2> QED BY <1>2, <1>4, SetsAndPostsRelease, ReleaseKeepsPlacement DEF event_wait
<1>5. ASSUME NEW e \in AutoEvent, auto_event_wait(e) \/ auto_event_set(e)
      PROVE  Placement' /\ [Next]_vars /\ waiters' \in [Sync -> Seq(Thread)]
  <2> e \in Sync
    BY DEF Sync
  <2> QED BY <1>1, <1>2, <1>5, SetsAndPostsRelease, ReleaseKeepsPlacement
          DEF auto_event_wait, schedVars
<1>6. ASSUME NEW s \in Semaphore, NEW n \in Unit, sem_wait(s, n) \/ sem_post(s, n)
      PROVE  Placement' /\ [Next]_vars /\ waiters' \in [Sync -> Seq(Thread)]
  <2> s \in Sync
    BY DEF Sync
  <2> QED BY <1>1, <1>2, <1>6, SetsAndPostsRelease, ReleaseKeepsPlacement DEF sem_wait, schedVars
<1>7. CASE UNCHANGED allVars
  BY <1>1, <1>7 DEF allVars, vars
<1> QED BY <1>3, <1>4, <1>5, <1>6, <1>7 DEF SyncNext

(* The flags, the units and the requests keep their types: the units never  *)
(* exceed the limit nor go below zero.                                      *)
LEMMA SyncStepTypes == SyncInv /\ [SyncNext]_allVars =>
    /\ signaled' \in [Event \cup AutoEvent -> BOOLEAN]
    /\ units' \in [Semaphore -> 0..Limit]
    /\ request' \in [Thread -> Unit \cup {0}]
<1> SUFFICES ASSUME SyncInv, [SyncNext]_allVars
             PROVE  /\ signaled' \in [Event \cup AutoEvent -> BOOLEAN]
                    /\ units' \in [Semaphore -> 0..Limit]
                    /\ request' \in [Thread -> Unit \cup {0}]
  OBVIOUS
<1>0. /\ signaled \in [Event \cup AutoEvent -> BOOLEAN]
      /\ units \in [Semaphore -> 0..Limit]
      /\ request \in [Thread -> Unit \cup {0}]
  BY DEF SyncInv, SyncTypeOK
<1>1. CASE Scheduler
  BY <1>0, <1>1 DEF Scheduler, syncVars
<1>2. ASSUME NEW e \in Event, event_wait(e) \/ event_set(e)
      PROVE  /\ signaled' \in [Event \cup AutoEvent -> BOOLEAN]
             /\ UNCHANGED <<units, request>>
  BY <1>0, <1>2 DEF event_wait, event_set
<1>3. ASSUME NEW e \in AutoEvent, auto_event_wait(e) \/ auto_event_set(e)
      PROVE  /\ signaled' \in [Event \cup AutoEvent -> BOOLEAN]
             /\ UNCHANGED <<units, request>>
  BY <1>0, <1>3 DEF auto_event_wait, auto_event_set
<1>4. ASSUME NEW s \in Semaphore, NEW n \in Unit, sem_wait(s, n)
      PROVE  /\ units' \in [Semaphore -> 0..Limit]
             /\ request' \in [Thread -> Unit \cup {0}]
             /\ UNCHANGED signaled
  <2>1. CASE CanTake(s, n)
    <3>1. n \in Nat /\ units[s] \in 0..Limit /\ units[s] >= n /\ Limit \in Nat
      BY <1>0, <2>1, UnitAssumption, LimitAssumption DEF CanTake
    <3>2. units[s] - n \in 0..Limit
      BY <3>1
    <3> QED BY <1>0, <1>4, <2>1, <3>2 DEF sem_wait
  <2>2. CASE ~CanTake(s, n)
    BY <1>0, <1>4, <2>2 DEF sem_wait
  <2> QED BY <2>1, <2>2
<1>5. ASSUME NEW s \in Semaphore, NEW n \in Unit, sem_post(s, n)
      PROVE  units' \in [Semaphore -> 0..Limit] /\ UNCHANGED <<signaled, request>>
  <2>0. Len(waiters[s]) \in Nat
    BY SyncFacts, LenProperties DEF Sync
  <2>1. PICK k \in 0..Len(waiters[s]) : \E left \in [0..k -> 0..Limit] :
            units' = [units EXCEPT ![s] = left[k]]
    BY <1>5 DEF sem_post
  <2>2. PICK left \in [0..k -> 0..Limit] : units' = [units EXCEPT ![s] = left[k]]
    BY <2>1
  <2>3. left[k] \in 0..Limit
    BY <2>0
  <2> QED BY <1>0, <1>5, <2>2, <2>3 DEF sem_post
<1>6. CASE UNCHANGED allVars
  BY <1>0, <1>6 DEF allVars
<1> QED BY <1>0, <1>1, <1>2, <1>3, <1>4, <1>5, <1>6 DEF SyncNext

-----------------------------------------------------------------------------
LEMMA SyncInvInit == SyncInit => SyncInv
<1> SUFFICES ASSUME SyncInit PROVE SyncInv
  OBVIOUS
<1>1. SchedInv
  BY SchedInvInit DEF SyncInit
<1>2. Range(<<>>) = {} /\ IsInjective(<<>>) /\ <<>> \in Seq(Thread)
  BY Empty, EmptySeq
<1>3. \A s \in Sync : waiters[s] = <<>>
  BY DEF SyncInit
<1>4. Blocked = {}
  BY <1>2 DEF SyncInit, Init, Blocked
<1>5. Placement
  BY <1>2, <1>3, <1>4 DEF Placement
<1>6. SyncTypeOK
  BY <1>1, <1>2 DEF SchedInv, SyncInit, SyncTypeOK
<1> QED BY <1>1, <1>5, <1>6 DEF SyncInv

LEMMA SyncInvNext == SyncInv /\ [SyncNext]_allVars => SyncInv' /\ [Next]_vars
<1> SUFFICES ASSUME SyncInv, [SyncNext]_allVars PROVE SyncInv' /\ [Next]_vars
  OBVIOUS
<1>1. Placement' /\ [Next]_vars /\ waiters' \in [Sync -> Seq(Thread)]
  BY SyncStepPlaces
<1>2. SchedInv'
  BY <1>1, SchedInvNext DEF SyncInv
<1>3. /\ signaled' \in [Event \cup AutoEvent -> BOOLEAN]
      /\ units' \in [Semaphore -> 0..Limit]
      /\ request' \in [Thread -> Unit \cup {0}]
  BY SyncStepTypes
<1> QED BY <1>1, <1>2, <1>3 DEF SyncInv, SyncTypeOK, SchedInv

(* Whatever a program does with events and semaphores, every thread that is *)
(* neither running nor ready is queued on exactly one object, once, and     *)
(* every variable keeps its type: the units stay within the limit.          *)
THEOREM NoThreadIsLost == SyncSpec => [](SyncTypeOK /\ Placement)
<1>1. SyncInit => SyncInv
  BY SyncInvInit
<1>2. SyncInv /\ [SyncNext]_allVars => SyncInv'
  BY SyncInvNext
<1>3. SyncInv => SyncTypeOK /\ Placement
  BY DEF SyncInv
<1> QED BY <1>1, <1>2, <1>3, PTL DEF SyncSpec

(* A program that synchronizes with events and semaphores is a program the  *)
(* bare scheduler allows: it activates blocked threads only, never one that *)
(* is ready, running or gone.                                               *)
THEOREM SynchronizersFollowTheRule == SyncSpec => ImplementsUThread
<1>1. SyncInit => SyncInv /\ Init
  BY SyncInvInit DEF SyncInit
<1>2. SyncInv /\ [SyncNext]_allVars => SyncInv' /\ [Next]_vars
  BY SyncInvNext
<1> QED BY <1>1, <1>2, PTL DEF SyncSpec, ImplementsUThread, Spec

(* Therefore the ready queue of such a program is sound: no thread is in it *)
(* twice, none that has exited, nor the running one.                        *)
THEOREM ReadyQueueStaysSound == SyncSpec => []ReadyQueueSound
<1>1. SchedInv => ReadyQueueSound
  BY DEF SchedInv
<1> QED BY <1>1, SynchronizersFollowTheRule, SchedulerIsSound, PTL DEF ImplementsUThread

(* The unsigned number_of_threads counts the live threads of such a program.*)
THEOREM CounterCountsThreads == SyncSpec => []CountIsAllocated
<1>1. SchedInv => CountIsAllocated
  BY DEF SchedInv
<1> QED BY <1>1, SynchronizersFollowTheRule, SchedulerIsSound, PTL DEF ImplementsUThread

(* Its threads are served first come, first served.                         *)
THEOREM ThreadsAreServedInOrder == SyncSpec => NoOvertaking
<1> QED BY SynchronizersFollowTheRule, SchedulerIsFifo, PTL DEF ImplementsUThread

-----------------------------------------------------------------------------
(* No wake-up is lost and nobody barges.                                    *)

(* A thread that waits on a semaphore asked for some units: a request of    *)
(* none could be left waiting by a post that leaves nothing.                *)
RequestsAreUnits == \A s \in Semaphore : \A t \in Range(waiters[s]) : request[t] \in Unit

WaitInv == SyncInv /\ NobodyWaitsInVain /\ RequestsAreUnits

(* What is left of a list whose first k members were released. *)
LEMMA RestOfSequence ==
    ASSUME NEW S, NEW w \in Seq(S), IsInjective(w), NEW k \in 0..Len(w)
    PROVE  LET b == SubSeq(w, k+1, Len(w))
           IN  /\ b \in Seq(S) /\ Range(b) \subseteq Range(w)
               /\ b # <<>> => k < Len(w) /\ Head(b) = w[k+1]
               /\ w # <<>> /\ Head(w) \in Range(b) => k = 0
               /\ b = w => k = 0
<1> DEFINE n == Len(w)  a == SubSeq(w, 1, k)  b == SubSeq(w, k+1, n)
<1>1. n \in Nat /\ k \in Nat /\ k <= n
  BY LenProperties
<1>2. /\ a \in Seq(S) /\ Len(a) = k /\ \A i \in 1..k : a[i] = w[i]
      /\ b \in Seq(S) /\ Len(b) = n - k
      /\ Range(a) \cap Range(b) = {} /\ Range(a) \cup Range(b) = Range(w)
  BY CutOfInjective
<1>3. ASSUME b # <<>> PROVE k < n /\ Head(b) = w[k+1]
  <2>1. k < n
    <3>1. Len(b) # 0
      BY <1>2, <1>3, EmptySeq
    <3> HIDE DEF b, n
    <3> QED BY <1>1, <1>2, <3>1
  <2>2. k+1 \in 1..n /\ n \in k+1..n
    BY <1>1, <2>1
  <2> QED BY <2>1, <2>2, HeadTailOfSubSeq
<1>4. ASSUME w # <<>>, k # 0 PROVE Head(w) \in Range(a)
  <2>1. 1 \in 1..k /\ DOMAIN a = 1..k /\ Head(w) = w[1]
    BY <1>1, <1>2, <1>4, LenProperties, HeadTailProperties
  <2> HIDE DEF a
  <2> QED BY <1>2, <2>1 DEF Range
<1>5. ASSUME b = w PROVE k = 0
  <2>1. Len(b) = n
    BY <1>5
  <2> HIDE DEF b, n
  <2> QED BY <1>1, <1>2, <2>1
<1> QED BY <1>2, <1>3, <1>4, <1>5

(* Each step leaves no waiter that could go. *)
LEMMA WaitInvNext == WaitInv /\ [SyncNext]_allVars => WaitInv'
<1> SUFFICES ASSUME WaitInv, [SyncNext]_allVars PROVE (NobodyWaitsInVain /\ RequestsAreUnits)'
  BY SyncInvNext DEF WaitInv
<1>0. /\ SyncInv /\ NobodyWaitsInVain /\ RequestsAreUnits
      /\ Event \cup AutoEvent \subseteq Sync /\ Semaphore \subseteq Sync
      /\ (Event \cup AutoEvent) \cap Semaphore = {}
      /\ signaled \in [Event \cup AutoEvent -> BOOLEAN]
      /\ units \in [Semaphore -> 0..Limit]
      /\ request \in [Thread -> Unit \cup {0}]
      /\ waiters \in [Sync -> Seq(Thread)]
  BY ObjectAssumption DEF WaitInv, SyncInv, SyncTypeOK, Sync
<1>1. CASE Scheduler \/ UNCHANGED allVars
  BY <1>0, <1>1 DEF Scheduler, syncVars, allVars, NobodyWaitsInVain, RequestsAreUnits
<1>2. ASSUME NEW e \in Event \cup AutoEvent,
             signaled' \in [Event \cup AutoEvent -> BOOLEAN],
             \A d \in Event \cup AutoEvent : d # e => signaled'[d] = signaled[d],
             \A r \in Sync : r # e => waiters'[r] = waiters[r],
             UNCHANGED <<units, request>>,
             signaled'[e] => waiters'[e] = <<>>
      PROVE  (NobodyWaitsInVain /\ RequestsAreUnits)'
  <2>1. \A s \in Semaphore : waiters'[s] = waiters[s]
    BY <1>0, <1>2
  <2>2. \A d \in Event \cup AutoEvent : signaled'[d] => waiters'[d] = <<>>
    BY <1>0, <1>2 DEF NobodyWaitsInVain
  <2> QED BY <1>0, <1>2, <2>1, <2>2 DEF NobodyWaitsInVain, RequestsAreUnits
<1>3. ASSUME NEW e \in Event, event_wait(e) PROVE (NobodyWaitsInVain /\ RequestsAreUnits)'
  <2>1. \A r \in Sync : r # e => waiters'[r] = waiters[r]
    BY <1>0, <1>3, BlockKeepsPlacement DEF event_wait
  <2> QED BY <1>0, <1>2, <1>3, <2>1 DEF event_wait
<1>4. ASSUME NEW e \in Event, event_set(e) PROVE (NobodyWaitsInVain /\ RequestsAreUnits)'
  BY <1>0, <1>2, <1>4 DEF event_set
<1>5. ASSUME NEW e \in AutoEvent, auto_event_wait(e) PROVE (NobodyWaitsInVain /\ RequestsAreUnits)'
  <2>1. CASE signaled[e] = TRUE
    BY <1>0, <1>2, <1>5, <2>1 DEF auto_event_wait
  <2>2. CASE signaled[e] = FALSE
    <3>1. \A r \in Sync : r # e => waiters'[r] = waiters[r]
      BY <1>0, <1>5, <2>2, BlockKeepsPlacement DEF auto_event_wait
    <3> QED BY <1>0, <1>2, <1>5, <2>2, <3>1 DEF auto_event_wait
  <2> QED BY <1>0, <2>1, <2>2
<1>6. ASSUME NEW e \in AutoEvent, auto_event_set(e) PROVE (NobodyWaitsInVain /\ RequestsAreUnits)'
  <2>1. CASE waiters[e] = <<>>
    BY <1>0, <1>2, <1>6, <2>1 DEF auto_event_set
  <2>2. CASE waiters[e] # <<>>
    <3>1. signaled[e] = FALSE
      BY <1>0, <2>2 DEF NobodyWaitsInVain
    <3> QED BY <1>0, <1>2, <1>6, <2>2, <3>1 DEF auto_event_set
  <2> QED BY <2>1, <2>2
<1>7. ASSUME NEW s \in Semaphore, NEW n \in Unit, sem_wait(s, n)
      PROVE  (NobodyWaitsInVain /\ RequestsAreUnits)'
  <2>1. CASE CanTake(s, n)
    <3>1. /\ UNCHANGED <<waiters, request, signaled>> /\ waiters[s] = <<>>
          /\ \A r \in Semaphore : r # s => units'[r] = units[r]
      BY <1>0, <1>7, <2>1 DEF sem_wait, CanTake
    <3> QED BY <1>0, <3>1 DEF NobodyWaitsInVain, RequestsAreUnits
  <2>2. CASE ~CanTake(s, n)
    <3> DEFINE t == running_thread  w == waiters[s]
    <3>1. /\ Block(s) /\ UNCHANGED <<units, signaled>> /\ t \in Thread
          /\ request' = [request EXCEPT ![t] = n]
      BY <1>7, <2>2 DEF sem_wait
    <3>2. /\ waiters'[s] = Append(w, t) /\ t \notin Blocked
          /\ \A r \in Sync : r # s => waiters'[r] = waiters[r]
      BY <1>0, <3>1, BlockKeepsPlacement
    <3>3. \A r \in Sync : waiters[r] \in Seq(Thread) /\ Range(waiters[r]) \subseteq Blocked
      BY <1>0, SyncFacts
    <3>4. request'[t] = n /\ \A u \in Blocked : request'[u] = request[u]
      <4> Blocked \subseteq Thread
        BY <1>0, SyncFacts
      <4> QED BY <1>0, <3>1, <3>2
    <3>5. /\ Range(Append(w, t)) = Range(w) \cup {t} /\ Append(w, t) # <<>>
          /\ Head(Append(w, t)) = IF w = <<>> THEN t ELSE Head(w)
      <4>1. w \in Seq(Thread) /\ IsInjective(w) /\ t \in Thread /\ t \notin Range(w)
        BY <1>0, <3>1, <3>2, <3>3, SyncFacts
      <4> HIDE DEF w, t
      <4> QED BY <4>1, AppendOfInjective, AppendProperties, HeadTailAppend
    <3>6. RequestsAreUnits'
      BY <1>0, <3>2, <3>3, <3>4, <3>5 DEF RequestsAreUnits
    <3>7. units'[s] < request'[Head(waiters'[s])]
      <4>1. CASE w = <<>>
        <5>1. ~(units[s] >= n)
          BY <2>2, <4>1 DEF CanTake
        <5>2. units[s] \in Int /\ n \in Int
          BY <1>0, UnitAssumption, LimitAssumption
        <5> QED BY <3>1, <3>2, <3>4, <3>5, <4>1, <5>1, <5>2
      <4>2. CASE w # <<>>
        <5>1. Head(w) \in Range(w) /\ units[s] < request[Head(w)]
          BY <1>0, <3>3, <4>2, SyncFacts, TailOfInjective DEF NobodyWaitsInVain
        <5> QED BY <1>0, <3>1, <3>2, <3>3, <3>4, <3>5, <4>2, <5>1
      <4> QED BY <4>1, <4>2
    <3>8. \A r \in Semaphore : r # s /\ waiters'[r] # <<>> => units'[r] < request'[Head(waiters'[r])]
      <4> SUFFICES ASSUME NEW r \in Semaphore, r # s, waiters'[r] # <<>>
                   PROVE  units'[r] < request'[Head(waiters'[r])]
        OBVIOUS
      <4>1. waiters'[r] = waiters[r] /\ Head(waiters[r]) \in Range(waiters[r])
        BY <1>0, <3>2, <3>3, SyncFacts, TailOfInjective
      <4> QED BY <1>0, <3>1, <3>3, <3>4, <4>1 DEF NobodyWaitsInVain
    <3>9. \A e \in Event \cup AutoEvent : signaled'[e] => waiters'[e] = <<>>
      BY <1>0, <3>1, <3>2 DEF NobodyWaitsInVain
    <3> QED BY <3>6, <3>7, <3>8, <3>9 DEF NobodyWaitsInVain
  <2> QED BY <2>1, <2>2
<1>8. ASSUME NEW s \in Semaphore, NEW n \in Unit, sem_post(s, n)
      PROVE  (NobodyWaitsInVain /\ RequestsAreUnits)'
  <2> DEFINE w == waiters[s]
  <2>1. PICK k \in 0..Len(w) : \E left \in [0..k -> 0..Limit] :
            /\ LoopReleases(s, k, left)
            /\ units' = [units EXCEPT ![s] = left[k]]
            /\ waiters' = [waiters EXCEPT ![s] = SubSeq(@, k+1, Len(@))]
    BY <1>8 DEF sem_post
  <2>2. PICK left \in [0..k -> 0..Limit] :
            /\ LoopReleases(s, k, left)
            /\ units' = [units EXCEPT ![s] = left[k]]
            /\ waiters' = [waiters EXCEPT ![s] = SubSeq(@, k+1, Len(@))]
    BY <2>1
  <2> DEFINE b == SubSeq(w, k+1, Len(w))
  <2>3. w \in Seq(Thread) /\ IsInjective(w) /\ Len(w) \in Nat /\ DOMAIN w = 1..Len(w)
    BY <1>0, SyncFacts, LenProperties
  <2>4. /\ Range(b) \subseteq Range(w)
        /\ b # <<>> => k < Len(w) /\ Head(b) = w[k+1]
    BY <2>3, RestOfSequence
  <2>5. UNCHANGED <<signaled, request>>
    BY <1>8 DEF sem_post
  <2>6. /\ waiters'[s] = b /\ units'[s] = left[k]
        /\ \A r \in Sync : r # s => waiters'[r] = waiters[r]
        /\ \A r \in Semaphore : r # s => units'[r] = units[r]
    BY <1>0, <2>2
  <2>7. b # <<>> => left[k] < request[w[k+1]]
    <3> SUFFICES ASSUME b # <<>> PROVE left[k] < request[w[k+1]]
      OBVIOUS
    <3>1. k < Len(w) /\ k+1 \in 1..Len(w)
      BY <2>3, <2>4
    <3>2. w[k+1] \in Range(w)
      BY <2>3, <3>1 DEF Range
    <3>3. request[w[k+1]] \in Nat \ {0}
      BY <1>0, <3>2, UnitAssumption DEF RequestsAreUnits
    <3>4. left[k] = 0 \/ left[k] < request[w[k+1]]
      BY <2>2, <3>1 DEF LoopReleases
    <3> QED BY <3>3, <3>4
  <2>8. RequestsAreUnits'
    BY <1>0, <2>4, <2>5, <2>6 DEF RequestsAreUnits
  <2>9. \A r \in Semaphore : waiters'[r] # <<>> => units'[r] < request'[Head(waiters'[r])]
    BY <1>0, <2>4, <2>5, <2>6, <2>7 DEF NobodyWaitsInVain
  <2>10. \A e \in Event \cup AutoEvent : signaled'[e] => waiters'[e] = <<>>
    BY <1>0, <2>5, <2>6 DEF NobodyWaitsInVain
  <2> QED BY <2>8, <2>9, <2>10 DEF NobodyWaitsInVain
<1> QED BY <1>1, <1>3, <1>4, <1>5, <1>6, <1>7, <1>8 DEF SyncNext

(* No set or post is lost: an object that could let its first waiter go has *)
(* no waiter, in any program and for any limit.                             *)
THEOREM NoWakeUpIsLost == SyncSpec => []NobodyWaitsInVain
<1>1. SyncInit => WaitInv
  <2> SUFFICES ASSUME SyncInit PROVE WaitInv
    OBVIOUS
  <2>1. \A s \in Sync : waiters[s] = <<>>
    BY DEF SyncInit
  <2>2. Event \cup AutoEvent \subseteq Sync /\ Semaphore \subseteq Sync
    BY DEF Sync
  <2> QED BY <2>1, <2>2, SyncInvInit, Empty DEF WaitInv, NobodyWaitsInVain, RequestsAreUnits
<1>2. WaitInv /\ [SyncNext]_allVars => WaitInv'
  BY WaitInvNext
<1>3. WaitInv => NobodyWaitsInVain
  BY DEF WaitInv
<1> QED BY <1>1, <1>2, <1>3, PTL DEF SyncSpec

(* What NoBarging says of one step. *)
NobodyBarges ==
    \A s \in Semaphore :
        waiters[s] # <<>> =>
          /\ \E k \in 0..Len(waiters[s]), t \in {<<>>, <<running_thread>>} :
                waiters'[s] = SubSeq(waiters[s], k+1, Len(waiters[s])) \o t
          /\ units'[s] < units[s] => waiters'[s] # waiters[s]
          /\ Head(waiters[s]) \in Range(waiters'[s]) => units'[s] >= units[s]

LEMMA NextDoesNotBarge == SyncInv /\ SyncNext => NobodyBarges
<1> SUFFICES ASSUME SyncInv, SyncNext, NEW r \in Semaphore, waiters[r] # <<>>
             PROVE  /\ \E k \in 0..Len(waiters[r]), t \in {<<>>, <<running_thread>>} :
                          waiters'[r] = SubSeq(waiters[r], k+1, Len(waiters[r])) \o t
                    /\ units'[r] < units[r] => waiters'[r] # waiters[r]
                    /\ Head(waiters[r]) \in Range(waiters'[r]) => units'[r] >= units[r]
  BY DEF NobodyBarges
<1> DEFINE w == waiters[r]
           Goal == /\ \E k \in 0..Len(w), t \in {<<>>, <<running_thread>>} :
                         waiters'[r] = SubSeq(w, k+1, Len(w)) \o t
                   /\ units'[r] < units[r] => waiters'[r] # w
                   /\ Head(w) \in Range(waiters'[r]) => units'[r] >= units[r]
<1>0. /\ r \in Sync /\ Event \cup AutoEvent \subseteq Sync
      /\ (Event \cup AutoEvent) \cap Semaphore = {}
      /\ waiters \in [Sync -> Seq(Thread)] /\ units \in [Semaphore -> 0..Limit]
      /\ units[r] \in Nat /\ Limit \in Nat
      /\ w \in Seq(Thread) /\ IsInjective(w) /\ Len(w) \in Nat
      /\ SubSeq(w, 1, Len(w)) = w /\ w \o <<>> = w
  <2>1. /\ r \in Sync /\ Event \cup AutoEvent \subseteq Sync
        /\ (Event \cup AutoEvent) \cap Semaphore = {}
        /\ waiters \in [Sync -> Seq(Thread)] /\ units \in [Semaphore -> 0..Limit]
    BY ObjectAssumption DEF SyncInv, SyncTypeOK, Sync
  <2>2. units[r] \in Nat /\ Limit \in Nat
    BY <2>1, LimitAssumption
  <2>3. w \in Seq(Thread) /\ IsInjective(w)
    BY <2>1, SyncFacts
  <2> QED BY <2>1, <2>2, <2>3, LenProperties, SubSeqFull, ConcatEmptySeq
<1>1. ASSUME waiters'[r] = w, units'[r] = units[r] PROVE Goal
  <2>1. 0 \in 0..Len(w) /\ waiters'[r] = SubSeq(w, 0+1, Len(w)) \o <<>>
    BY <1>0, <1>1
  <2>2. \E k \in 0..Len(w), t \in {<<>>, <<running_thread>>} :
            waiters'[r] = SubSeq(w, k+1, Len(w)) \o t
    BY <2>1, Zenon
  <2>3. ~(units'[r] < units[r]) /\ units'[r] >= units[r]
    BY <1>0, <1>1
  <2> QED BY <2>2, <2>3, Zenon
<1>2. ASSUME waiters'[r] = Append(w, running_thread), running_thread \in Thread,
             units'[r] = units[r]
      PROVE  Goal
  <2>1. 0 \in 0..Len(w) /\ waiters'[r] = SubSeq(w, 0+1, Len(w)) \o <<running_thread>>
    BY <1>0, <1>2, AppendIsConcat
  <2>2. \E k \in 0..Len(w), t \in {<<>>, <<running_thread>>} :
            waiters'[r] = SubSeq(w, k+1, Len(w)) \o t
    BY <2>1, Zenon
  <2>3. ~(units'[r] < units[r]) /\ units'[r] >= units[r]
    BY <1>0, <1>2
  <2> QED BY <2>2, <2>3, Zenon
<1>3. CASE Scheduler
  BY <1>1, <1>3 DEF Scheduler, syncVars
<1>4. ASSUME NEW e \in Event, event_wait(e) \/ event_set(e) PROVE Goal
  <2> e # r
    BY <1>0
  <2> QED BY <1>0, <1>1, <1>4, BlockKeepsPlacement DEF event_wait, event_set
<1>5. ASSUME NEW e \in AutoEvent, auto_event_wait(e) \/ auto_event_set(e) PROVE Goal
  <2> e # r
    BY <1>0
  <2> QED BY <1>0, <1>1, <1>5, BlockKeepsPlacement DEF auto_event_wait, auto_event_set
<1>6. ASSUME NEW s \in Semaphore, NEW n \in Unit, sem_wait(s, n) PROVE Goal
  <2>1. CASE CanTake(s, n)
    <3> s # r
      BY <2>1 DEF CanTake
    <3> QED BY <1>0, <1>1, <1>6, <2>1 DEF sem_wait
  <2>2. CASE ~CanTake(s, n)
    <3>1. /\ running_thread \in Thread /\ Block(s) /\ UNCHANGED units /\ s \in Sync
      BY <1>6, <2>2 DEF sem_wait, Sync
    <3>2. /\ waiters'[s] = Append(waiters[s], running_thread)
          /\ \A q \in Sync : q # s => waiters'[q] = waiters[q]
      BY <3>1, BlockKeepsPlacement
    <3> QED BY <1>0, <1>1, <1>2, <3>1, <3>2
  <2> QED BY <2>1, <2>2
<1>7. ASSUME NEW s \in Semaphore, NEW n \in Unit, sem_post(s, n) PROVE Goal
  <2>1. PICK k \in 0..Len(waiters[s]) : \E left \in [0..k -> 0..Limit] :
            /\ left[0] = Posted(s, n)
            /\ units' = [units EXCEPT ![s] = left[k]]
            /\ waiters' = [waiters EXCEPT ![s] = SubSeq(@, k+1, Len(@))]
    BY <1>7 DEF sem_post
  <2>2. PICK left \in [0..k -> 0..Limit] :
            /\ left[0] = Posted(s, n)
            /\ units' = [units EXCEPT ![s] = left[k]]
            /\ waiters' = [waiters EXCEPT ![s] = SubSeq(@, k+1, Len(@))]
    BY <2>1
  <2>3. CASE s # r
    BY <1>0, <1>1, <2>2, <2>3
  <2>4. CASE s = r
    <3> DEFINE b == SubSeq(w, k+1, Len(w))
    <3>1. waiters'[r] = b /\ units'[r] = left[k] /\ k \in 0..Len(w)
      BY <1>0, <2>2, <2>4
    <3>2. /\ b \in Seq(Thread)
          /\ w # <<>> /\ Head(w) \in Range(b) => k = 0
          /\ b = w => k = 0
      BY <1>0, <3>1, RestOfSequence, ZenonT(60)
    <3>3. left[0] >= units[r]
      BY <1>0, <2>2, <2>4, UnitAssumption, LimitAssumption DEF Posted
    <3>4. b \o <<>> = b
      <4> HIDE DEF b
      <4> QED BY <3>2, ConcatEmptySeq
    <3>5. \E j \in 0..Len(w), t \in {<<>>, <<running_thread>>} :
              waiters'[r] = SubSeq(w, j+1, Len(w)) \o t
      BY <3>1, <3>4
    <3>6. units'[r] < units[r] => k # 0
      <4> units'[r] \in Nat
        BY <1>0, <3>1
      <4> QED BY <1>0, <3>1, <3>3
    <3>7. units'[r] >= units[r] \/ units'[r] < units[r]
      <4> left[k] \in Nat
        BY <1>0, <3>1
      <4> QED BY <1>0, <3>1
    <3> HIDE DEF b
    <3> QED BY <3>1, <3>2, <3>5, <3>6, <3>7
  <2> QED BY <2>3, <2>4
<1> QED BY <1>3, <1>4, <1>5, <1>6, <1>7 DEF SyncNext

(* Units posted while threads wait go to the first of them: a thread that   *)
(* comes later, or asks for less, does not pass one that waits.             *)
THEOREM SemaphoresAreFair == SyncSpec => NoBarging
<1>1. SyncInit => SyncInv
  BY SyncInvInit
<1>2. SyncInv /\ [SyncNext]_allVars => SyncInv'
  BY SyncInvNext
<1>3. SyncInv /\ [SyncNext]_allVars => [NobodyBarges]_allVars
  BY NextDoesNotBarge
<1> QED BY <1>1, <1>2, <1>3, PTL DEF SyncSpec, NoBarging, NobodyBarges

-----------------------------------------------------------------------------
(* The bounded queue.                                                       *)

(* What UPrograms assumes of the queue's constants. *)
QueueConstants ==
    /\ Semaphore = {elem_avaiable, space_avaiable}
    /\ elem_avaiable # space_avaiable
    /\ 1 \in Unit
    /\ Program \in [Thread -> Seq({"put", "get", "yield"})]

Call(t) == Program[t][step[t]]

(* The calls that wait on s. *)
WaitsOn(s) == IF s = elem_avaiable THEN "get" ELSE "put"

QueueTypes ==
    /\ head \in Seq(Messages)
    /\ step \in [Thread -> Nat]
    /\ waited \in [Thread -> BOOLEAN]

(* Who is past a sem_wait, or in it, exists and is in a call of queue_put   *)
(* or queue_get; who waits on a semaphore is in the call that waits there,  *)
(* for one unit.                                                            *)
WaitersCalled ==
    /\ \A t \in Thread : waited[t] => /\ t \in allocated
                                      /\ step[t] \in DOMAIN Program[t]
                                      /\ Call(t) \in {"put", "get"}
    /\ \A s \in Semaphore : \A t \in Range(waiters[s]) :
          waited[t] /\ Call(t) = WaitsOn(s) /\ request[t] = 1

(* The inductive invariant.  NobodyWaitsInVain says that a semaphore with   *)
(* waiters has no units, so that a unit posted goes to exactly one waiter.  *)
QueueInv == WaitInv /\ QueueTypes /\ WaitersCalled /\ UnitsAddUp

LEMMA QueueFacts ==
    ASSUME QueueConstants, QueueInv
    PROVE  /\ SyncInv
           /\ elem_avaiable \in Semaphore /\ space_avaiable \in Semaphore
           /\ Semaphore \subseteq Sync
           /\ units \in [Semaphore -> 0..Limit] /\ Limit \in Nat \ {0}
           /\ waiters \in [Sync -> Seq(Thread)]
           /\ request \in [Thread -> Unit \cup {0}]
           /\ head \in Seq(Messages) /\ Len(head) \in Nat
           /\ step \in [Thread -> Nat] /\ waited \in [Thread -> BOOLEAN]
           /\ \A c : IsFiniteSet(Granted(c)) /\ Cardinality(Granted(c)) \in Nat
           /\ Blocked \subseteq Thread
<1>1. SyncInv /\ QueueTypes /\ WaitersCalled
  BY DEF QueueInv, WaitInv
<1>2. \A c : Granted(c) \subseteq allocated
  BY <1>1 DEF WaitersCalled, Granted
<1>3. IsFiniteSet(allocated) /\ Blocked \subseteq Thread
  BY <1>1, SyncFacts
<1>4. \A c : IsFiniteSet(Granted(c)) /\ Cardinality(Granted(c)) \in Nat
  BY <1>2, <1>3, FS_Subset, FS_CardinalityType
<1> QED BY <1>1, <1>3, <1>4, LimitAssumption, LenProperties
        DEF QueueConstants, QueueTypes, SyncInv, SyncTypeOK, Sync

(* Every step of the program is a step of the synchronizers. *)
LEMMA QueueStepSynchronizes == QueueConstants /\ QueueNext => [SyncNext]_allVars
<1> SUFFICES ASSUME QueueConstants, QueueNext PROVE [SyncNext]_allVars
  OBVIOUS
<1> USE DEF QueueConstants
<1>1. ASSUME NEW t \in Thread, PutWaits(t) \/ GetWaits(t) PROVE SyncNext
  BY <1>1 DEF PutWaits, GetWaits, WaitFor, SyncNext
<1>2. ASSUME NEW t \in Thread, PutInserts(t) \/ GetRemoves(t) PROVE SyncNext
  BY <1>2 DEF PutInserts, GetRemoves, SyncNext
<1>3. ASSUME NEW t \in Thread, Yields(t) PROVE [SyncNext]_allVars
  BY <1>3 DEF Yields, SyncNext, Scheduler, vars, syncVars, allVars
<1>4. ASSUME NEW t \in Thread, Exits(t) \/ MainCreates(t) PROVE SyncNext
  BY <1>4 DEF Exits, MainCreates, SyncNext, Scheduler
<1>5. CASE MainRuns \/ RunReturns
  BY <1>5 DEF MainRuns, RunReturns, SyncNext, Scheduler
<1> QED BY <1>1, <1>2, <1>3, <1>4, <1>5 DEF QueueNext, ThreadStep

(* One unit goes to the first waiter, or is added when nobody waits. *)
LEMMA PostOfOne ==
    ASSUME QueueConstants, QueueInv, NEW s \in Semaphore, units[s] < Limit, sem_post(s, 1)
    PROVE  \/ /\ waiters[s] = <<>>
              /\ waiters' = waiters
              /\ units' = [units EXCEPT ![s] = @ + 1]
           \/ /\ waiters[s] # <<>>
              /\ waiters' = [waiters EXCEPT ![s] = Tail(@)]
              /\ units' = units
<1> DEFINE w == waiters[s]  u == units[s]
<1>1. /\ w \in Seq(Thread) /\ Len(w) \in Nat /\ IsInjective(w)
      /\ u \in 0..Limit /\ Limit \in Nat /\ waiters[s] = w /\ units[s] = u
      /\ waiters \in [Sync -> Seq(Thread)] /\ s \in Sync
      /\ units \in [Semaphore -> 0..Limit]
  BY QueueFacts, SyncFacts, LenProperties
<1>2. \A i \in 1..Len(w) : request[w[i]] = 1
  <2> w \in Seq(Thread) /\ DOMAIN w = 1..Len(w)
    BY <1>1, LenProperties
  <2> QED BY DEF QueueInv, WaitersCalled, Range
<1>3. Posted(s, 1) = u + 1
  BY <1>1 DEF Posted
<1>4. PICK k \in 0..Len(w) : \E left \in [0..k -> 0..Limit] :
          /\ left[0] = u + 1
          /\ LoopReleases(s, k, left)
          /\ units' = [units EXCEPT ![s] = left[k]]
          /\ waiters' = [waiters EXCEPT ![s] = SubSeq(@, k+1, Len(@))]
  BY <1>3 DEF sem_post
<1>5. PICK left \in [0..k -> 0..Limit] :
          /\ left[0] = u + 1
          /\ LoopReleases(s, k, left)
          /\ units' = [units EXCEPT ![s] = left[k]]
          /\ waiters' = [waiters EXCEPT ![s] = SubSeq(@, k+1, Len(@))]
  BY <1>4
<1>6. CASE w = <<>>
  <2>1. k = 0 /\ Len(w) = 0
    BY <1>1, <1>6
  <2>2. SubSeq(w, 1, Len(w)) = w
    BY <1>1, SubSeqFull
  <2>3. units' = [units EXCEPT ![s] = @ + 1]
    BY <1>1, <1>5, <2>1
  <2>4. waiters' = waiters
    <3>1. waiters' = [waiters EXCEPT ![s] = SubSeq(waiters[s], 0+1, Len(waiters[s]))]
      BY <1>5, <2>1
    <3>2. SubSeq(waiters[s], 0+1, Len(waiters[s])) = waiters[s]
      BY <2>2
    <3> QED BY <1>1, <3>1, <3>2
  <2> QED BY <1>6, <2>3, <2>4
<1>7. CASE w # <<>>
  <2>1. Head(w) = w[1] /\ Len(w) >= 1 /\ Tail(w) = SubSeq(w, 2, Len(w))
    BY <1>1, <1>7, HeadTailProperties, EmptySeq, TailIsSubSeq
  <2>2. u = 0
    <3> u < request[w[1]]
      BY <1>7, <2>1 DEF QueueInv, WaitInv, NobodyWaitsInVain
    <3> QED BY <1>1, <1>2, <2>1
  <2>3. k # 0
    <3> SUFFICES ASSUME k = 0 PROVE FALSE
      OBVIOUS
    <3> left[k] = 0 \/ left[k] < request[w[k+1]]
      BY <1>1, <1>5, <2>1 DEF LoopReleases
    <3> QED BY <1>2, <1>5, <2>1, <2>2
  <2>4. left[1] = 0
    <3>1. 1 \in 1..k /\ 1 \in 1..Len(w)
      BY <1>1, <2>1, <2>3
    <3>2. left[1] = left[0] - request[w[1]]
      <4> left[1] = left[1-1] - request[w[1]]
        BY <1>5, <3>1 DEF LoopReleases
      <4> QED OBVIOUS
    <3> QED BY <1>2, <1>5, <2>2, <3>1, <3>2
  <2>5. k = 1
    <3> SUFFICES ASSUME k # 1 PROVE FALSE
      OBVIOUS
    <3> 2 \in 1..k
      BY <1>1, <2>3
    <3> left[2-1] > 0
      BY <1>5 DEF LoopReleases
    <3> QED BY <2>4
  <2>6. units' = [units EXCEPT ![s] = 0] /\ waiters' = [waiters EXCEPT ![s] = SubSeq(w, 2, Len(w))]
    <3>1. k+1 = 2 /\ left[k] = 0
      BY <2>4, <2>5
    <3> QED BY <1>5, <3>1
  <2>7. units' = units
    BY <1>1, <2>2, <2>6
  <2>8. waiters' = [waiters EXCEPT ![s] = Tail(@)]
    BY <2>1, <2>6, Zenon
  <2> QED BY <1>1, <1>7, <2>7, <2>8, Zenon
<1> QED BY <1>6, <1>7

-----------------------------------------------------------------------------
(* Who is blocked after a step.                                             *)
LEMMA NobodyMoves ==
    ASSUME SyncInv, SyncInv', UNCHANGED waiters
    PROVE  Blocked' = Blocked
BY DEF SyncInv, Placement

LEMMA BlockedGrows ==
    ASSUME SyncInv, SyncInv', NEW s \in Sync, NEW t \in Thread \ Blocked,
           waiters' = [waiters EXCEPT ![s] = Append(@, t)]
    PROVE  /\ Blocked' = Blocked \cup {t}
           /\ \A r \in Sync : Range(waiters'[r]) \subseteq Range(waiters[r]) \cup {t}
           /\ \A r \in Sync \ {s} : waiters'[r] = waiters[r]
           /\ Range(waiters'[s]) = Range(waiters[s]) \cup {t}
<1>1. /\ waiters \in [Sync -> Seq(Thread)]
      /\ IsInjective(waiters[s]) /\ t \notin Range(waiters[s])
  BY SyncFacts
<1>2. Range(waiters'[s]) = Range(waiters[s]) \cup {t}
  <2> waiters'[s] = Append(waiters[s], t) /\ waiters[s] \in Seq(Thread)
    BY <1>1
  <2> QED BY <1>1, AppendOfInjective
<1>3. \A r \in Sync \ {s} : waiters'[r] = waiters[r]
  BY <1>1
<1>4. Blocked = AllWaiting /\ Blocked' = AllWaiting'
  BY DEF SyncInv, Placement, AllWaiting
<1> QED BY <1>2, <1>3, <1>4 DEF AllWaiting

LEMMA BlockedShrinks ==
    ASSUME SyncInv, SyncInv', NEW s \in Sync, waiters[s] # <<>>,
           waiters' = [waiters EXCEPT ![s] = Tail(@)]
    PROVE  /\ Head(waiters[s]) \in Range(waiters[s])
           /\ Head(waiters[s]) \in Blocked
           /\ Blocked' = Blocked \ {Head(waiters[s])}
           /\ \A r \in Sync : Range(waiters'[r]) = Range(waiters[r]) \ {Head(waiters[s])}
<1> DEFINE h == Head(waiters[s])
<1>1. /\ waiters \in [Sync -> Seq(Thread)] /\ IsInjective(waiters[s])
      /\ \A r \in Sync : r # s => Range(waiters[s]) \cap Range(waiters[r]) = {}
  BY SyncFacts
<1>2. h \in Range(waiters[s]) /\ Range(waiters'[s]) = Range(waiters[s]) \ {h}
  <2> waiters'[s] = Tail(waiters[s]) /\ waiters[s] \in Seq(Thread)
    BY <1>1
  <2> QED BY <1>1, TailOfInjective
<1>3. \A r \in Sync \ {s} : waiters'[r] = waiters[r] /\ h \notin Range(waiters[r])
  BY <1>1, <1>2
<1>4. Blocked = AllWaiting /\ Blocked' = AllWaiting'
  BY DEF SyncInv, Placement, AllWaiting
<1> QED BY <1>2, <1>3, <1>4 DEF AllWaiting

-----------------------------------------------------------------------------
(* Nothing is granted, used or asked for: no list of waiters changes and    *)
(* the calls that were waiting still are.                                   *)
LEMMA GrantedStays ==
    ASSUME QueueConstants, QueueInv, SyncInv', UNCHANGED <<waiters, waited, request, units, head>>,
           \A t \in Thread : waited[t] => step'[t] = step[t] /\ t \in allocated'
    PROVE  WaitersCalled' /\ UnitsAddUp'
<1>1. Blocked' = Blocked
  BY NobodyMoves DEF QueueInv, WaitInv
<1>2. \A c : Granted(c)' = Granted(c)
  BY <1>1 DEF Granted
<1>3. UnitsAddUp'
  BY <1>2 DEF QueueInv, UnitsAddUp
<1>4. waiters \in [Sync -> Seq(Thread)] /\ Semaphore \subseteq Sync
  BY QueueFacts
<1>5. \A s \in Semaphore : Range(waiters[s]) \subseteq Thread
  BY <1>4, RangeOfSeq
<1>6. WaitersCalled'
  BY <1>5 DEF QueueInv, WaitersCalled, Call, WaitsOn
<1> QED BY <1>3, <1>6

(* A wait that finds its unit: the unit is now the caller's. *)
LEMMA WaitTakes ==
    ASSUME QueueConstants, QueueInv, SyncInv', NEW t \in Thread, NEW c, NEW s \in Semaphore,
           c = WaitsOn(s), WaitFor(t, c, s), CanTake(s, 1)
    PROVE  WaitersCalled' /\ UnitsAddUp'
<1> USE DEF QueueConstants
<1>1. /\ running_thread = t /\ Calls(t, c) /\ ~waited[t]
      /\ units' = [units EXCEPT ![s] = @ - 1]
      /\ UNCHANGED <<vars, waiters, request, head, step>>
      /\ waited' = [waited EXCEPT ![t] = TRUE]
  BY DEF WaitFor, sem_wait, CanTake, Calls, schedVars
<1>2. Blocked' = Blocked /\ t \notin Blocked /\ t \in allocated
  BY <1>1, NobodyMoves, SyncFacts DEF QueueInv, WaitInv, Blocked
<1>3. waited \in [Thread -> BOOLEAN] /\ units \in [Semaphore -> 0..Limit] /\ Limit \in Nat
  BY QueueFacts
<1>4. Granted(c)' = Granted(c) \cup {t} /\ t \notin Granted(c)
  BY <1>1, <1>2, <1>3 DEF Granted, Calls
<1>5. \A d : d # c => Granted(d)' = Granted(d)
  BY <1>1, <1>2, <1>3 DEF Granted, Calls
<1>6. Cardinality(Granted(c)') = Cardinality(Granted(c)) + 1
  BY <1>4, QueueFacts, FS_AddElement, ZenonT(60)
<1>7. /\ units[elem_avaiable] \in Nat /\ units[space_avaiable] \in Nat
      /\ Len(head) \in Nat /\ Len(head)' = Len(head)
      /\ Cardinality(Granted("get")) \in Nat /\ Cardinality(Granted("put")) \in Nat
  BY <1>1, QueueFacts
<1>8. UnitsAddUp'
  <2>1. CASE s = elem_avaiable
    <3>1. c = "get" /\ units'[space_avaiable] = units[space_avaiable]
          /\ units'[elem_avaiable] = units[elem_avaiable] - 1
      BY <1>1, <1>3, <2>1 DEF WaitsOn
    <3>2. /\ Cardinality(Granted("get"))' = Cardinality(Granted("get")) + 1
          /\ Cardinality(Granted("put"))' = Cardinality(Granted("put"))
      BY <1>5, <1>6, <3>1
    <3> QED BY <1>7, <3>1, <3>2, SMTT(40) DEF QueueInv, UnitsAddUp
  <2>2. CASE s = space_avaiable
    <3>1. c = "put" /\ units'[elem_avaiable] = units[elem_avaiable]
          /\ units'[space_avaiable] = units[space_avaiable] - 1
      BY <1>1, <1>3, <2>2 DEF WaitsOn
    <3>2. /\ Cardinality(Granted("put"))' = Cardinality(Granted("put")) + 1
          /\ Cardinality(Granted("get"))' = Cardinality(Granted("get"))
      BY <1>5, <1>6, <3>1
    <3> QED BY <1>7, <3>1, <3>2, SMTT(40) DEF QueueInv, UnitsAddUp
  <2> QED BY <2>1, <2>2
<1>9. WaitersCalled'
  <2>1. \A u \in Thread : waited'[u] => u = t \/ waited[u]
    BY <1>1, <1>3
  <2>2. Call(t) \in {"put", "get"} /\ step[t] \in DOMAIN Program[t]
    BY <1>1 DEF Calls, Call, WaitsOn
  <2>3. allocated' = allocated /\ \A u : Call(u)' = Call(u)
    BY <1>1 DEF Call, vars
  <2>4. \A u \in Thread : waited'[u] => u \in allocated' /\ step'[u] \in DOMAIN Program[u]
                                        /\ Call(u)' \in {"put", "get"}
    BY <1>1, <1>2, <2>1, <2>2, <2>3 DEF QueueInv, WaitersCalled
  <2>5. \A r \in Semaphore : \A u \in Range(waiters[r]) : u # t
    BY <1>1 DEF QueueInv, WaitersCalled
  <2>6. \A r \in Semaphore : \A u \in Range(waiters'[r]) :
            waited'[u] /\ Call(u)' = WaitsOn(r)' /\ request'[u] = 1
    <3> SUFFICES ASSUME NEW r \in Semaphore, NEW u \in Range(waiters[r])
                 PROVE  waited'[u] /\ Call(u)' = WaitsOn(r)' /\ request'[u] = 1
      BY <1>1
    <3> waited[u] /\ Call(u) = WaitsOn(r) /\ request[u] = 1
      BY DEF QueueInv, WaitersCalled
    <3> QED BY <1>1, <1>3, <2>3, <2>5 DEF WaitsOn
  <2> QED BY <2>4, <2>6 DEF WaitersCalled
<1> QED BY <1>8, <1>9

(* A wait that blocks: the caller waits in the list of s for one unit. *)
LEMMA WaitBlocks ==
    ASSUME QueueConstants, QueueInv, SyncInv', NEW t \in Thread, NEW c, NEW s \in Semaphore,
           c = WaitsOn(s), WaitFor(t, c, s), ~CanTake(s, 1)
    PROVE  WaitersCalled' /\ UnitsAddUp'
<1> USE DEF QueueConstants
<1>1. /\ running_thread = t /\ Calls(t, c) /\ ~waited[t]
      /\ waiters' = [waiters EXCEPT ![s] = Append(@, t)]
      /\ request' = [request EXCEPT ![t] = 1]
      /\ UNCHANGED <<units, head, step, allocated>>
      /\ waited' = [waited EXCEPT ![t] = TRUE]
  BY DEF WaitFor, sem_wait, CanTake, Calls, Block, ut_deactivate
<1>2. t \notin Blocked /\ t \in allocated
  BY <1>1, SyncFacts DEF QueueInv, WaitInv, Blocked
<1>3. /\ waited \in [Thread -> BOOLEAN] /\ request \in [Thread -> Unit \cup {0}]
      /\ Semaphore \subseteq Sync
  BY QueueFacts
<1>4. /\ Blocked' = Blocked \cup {t}
      /\ \A r \in Semaphore \ {s} : waiters'[r] = waiters[r]
      /\ Range(waiters'[s]) = Range(waiters[s]) \cup {t}
  BY <1>1, <1>2, <1>3, BlockedGrows DEF QueueInv, WaitInv
<1>5. \A d : Granted(d)' = Granted(d)
  BY <1>1, <1>3, <1>4 DEF Granted
<1>6. UnitsAddUp'
  BY <1>1, <1>5 DEF QueueInv, UnitsAddUp
<1>7. Call(t) = WaitsOn(s) /\ Call(t) \in {"put", "get"} /\ step[t] \in DOMAIN Program[t]
  BY <1>1 DEF Calls, Call, WaitsOn
<1>8. \A u : Call(u)' = Call(u)
  BY <1>1 DEF Call
<1>9. WaitersCalled'
  <2>1. \A u \in Thread : waited'[u] => u = t \/ waited[u]
    BY <1>1, <1>3
  <2>2. \A u \in Thread : waited'[u] => u \in allocated' /\ step'[u] \in DOMAIN Program[u]
                                        /\ Call(u)' \in {"put", "get"}
    BY <1>1, <1>2, <1>7, <1>8, <2>1 DEF QueueInv, WaitersCalled
  <2>3. \A r \in Semaphore : \A u \in Range(waiters'[r]) :
            waited'[u] /\ Call(u)' = WaitsOn(r)' /\ request'[u] = 1
    <3> SUFFICES ASSUME NEW r \in Semaphore, NEW u \in Range(waiters'[r])
                 PROVE  waited'[u] /\ Call(u)' = WaitsOn(r)' /\ request'[u] = 1
      OBVIOUS
    <3>1. CASE u \in Range(waiters[r])
      <4> waited[u] /\ Call(u) = WaitsOn(r) /\ request[u] = 1
        BY <3>1 DEF QueueInv, WaitersCalled
      <4> QED BY <1>1, <1>3, <1>8 DEF WaitsOn
    <3>2. CASE u \notin Range(waiters[r])
      <4> r = s /\ u = t
        BY <1>4, <3>2
      <4> QED BY <1>1, <1>3, <1>7, <1>8 DEF WaitsOn
    <3> QED BY <3>1, <3>2
  <2> QED BY <2>2, <2>3 DEF WaitersCalled
<1> QED BY <1>6, <1>9

(* The second half of a call: the caller gives up what it was granted, and  *)
(* the unit it posts is promised to the first waiter of s, or available.    *)
LEMMA PostHandsOver ==
    ASSUME QueueConstants, QueueInv, SyncInv', NEW t \in Thread, NEW c, NEW d, NEW s \in Semaphore,
           c \in {"put", "get"}, d = WaitsOn(s), c # d, units[s] < Limit,
           Calls(t, c), waited[t], sem_post(s, 1),
           waited' = [waited EXCEPT ![t] = FALSE], Advance(t)
    PROVE  /\ WaitersCalled'
           /\ Cardinality(Granted(c))' = Cardinality(Granted(c)) - 1
           /\ \/ /\ units' = [units EXCEPT ![s] = @ + 1]
                 /\ Cardinality(Granted(d))' = Cardinality(Granted(d))
              \/ /\ units' = units
                 /\ Cardinality(Granted(d))' = Cardinality(Granted(d)) + 1
<1>1. /\ running_thread = t /\ Call(t) = c
      /\ UNCHANGED <<request, allocated>>
      /\ step' = [step EXCEPT ![t] = @ + 1]
  BY DEF Calls, Call, Advance, sem_post
<1>2. /\ waited \in [Thread -> BOOLEAN] /\ step \in [Thread -> Nat]
      /\ Semaphore \subseteq Sync /\ Blocked \subseteq Thread
      /\ waiters \in [Sync -> Seq(Thread)]
      /\ \A e : IsFiniteSet(Granted(e)) /\ Cardinality(Granted(e)) \in Nat
  BY QueueFacts
<1>3. \A u \in Thread \ {t} : Call(u)' = Call(u) /\ waited'[u] = waited[u] /\ step'[u] = step[u]
  BY <1>1, <1>2 DEF Call
<1>4. ~waited'[t] /\ t \notin Blocked
  BY <1>1, <1>2 DEF Blocked
<1>5. t \in Granted(c) /\ t \notin Granted(d)
  BY <1>1, <1>4 DEF Granted, Call
<1>6. ASSUME NEW h, h # t, Blocked' = Blocked \ {h}, h \in Blocked => waited[h] /\ Call(h) = d
      PROVE  /\ Granted(c)' = Granted(c) \ {t}
             /\ Granted(d)' = IF h \in Blocked THEN Granted(d) \cup {h} ELSE Granted(d)
             /\ h \in Blocked => h \notin Granted(d)
  <2>1. \A e : \A u \in Thread : u \in Granted(e) <=> waited[u] /\ Call(u) = e /\ u \notin Blocked
    BY DEF Granted, Call
  <2>2. \A e : \A u \in Thread : u \in Granted(e)' <=> waited'[u] /\ Call(u)' = e /\ u \notin Blocked'
    BY DEF Granted, Call
  <2>3. \A e : Granted(e) \subseteq Thread /\ Granted(e)' \subseteq Thread
    BY DEF Granted
  <2>4. ASSUME NEW u \in Thread, u # t, NEW e
        PROVE  u \in Granted(e)' <=> waited[u] /\ Call(u) = e /\ u \notin Blocked \ {h}
    BY <1>3, <1>6, <2>2, <2>4
  <2>5. \A e : t \notin Granted(e)'
    BY <1>4, <2>2
  <2>6. Granted(c)' = Granted(c) \ {t}
    BY <1>6, <2>1, <2>3, <2>4, <2>5
  <2>7. CASE h \in Blocked
    <3>1. h \in Thread /\ h \notin Granted(d) /\ waited[h] /\ Call(h) = d
      BY <1>2, <1>6, <2>1, <2>7
    <3>2. \A u \in Thread : u \in Granted(d)' <=> u \in Granted(d) \cup {h}
      BY <1>5, <1>6, <2>1, <2>4, <2>5, <3>1
    <3> QED BY <2>3, <2>6, <2>7, <3>1, <3>2
  <2>8. CASE h \notin Blocked
    <3> \A u \in Thread : u \in Granted(d)' <=> u \in Granted(d)
      BY <1>5, <1>6, <2>1, <2>4, <2>5, <2>8
    <3> QED BY <2>3, <2>6, <2>8
  <2> QED BY <2>6, <2>7, <2>8
<1>7. Granted(c)' = Granted(c) \ {t} =>
          Cardinality(Granted(c)') = Cardinality(Granted(c)) - 1
  BY <1>2, <1>5, FS_RemoveElement, ZenonT(60)
<1>8. ASSUME \A r \in Semaphore : Range(waiters'[r]) \subseteq Range(waiters[r]) PROVE WaitersCalled'
  <2>1. \A u \in Thread : waited'[u] => u # t /\ waited[u]
    BY <1>3, <1>4
  <2>2. \A u \in Thread : waited'[u] => u \in allocated' /\ step'[u] \in DOMAIN Program[u]
                                        /\ Call(u)' \in {"put", "get"}
    BY <1>1, <1>3, <2>1 DEF QueueInv, WaitersCalled
  <2>3. ASSUME NEW r \in Semaphore, NEW u \in Range(waiters'[r])
        PROVE  waited'[u] /\ Call(u)' = WaitsOn(r)' /\ request'[u] = 1
    <3>1. u \in Range(waiters[r]) /\ waited[u] /\ Call(u) = WaitsOn(r) /\ request[u] = 1
      BY <1>8 DEF QueueInv, WaitersCalled
    <3>2. u # t /\ u \in Thread
      <4> u \in Blocked
        BY <1>2, <3>1, SyncFacts DEF QueueInv, WaitInv
      <4> QED BY <1>2, <1>4
    <3> QED BY <1>1, <1>3, <3>1, <3>2 DEF WaitsOn
  <2> QED BY <2>2, <2>3 DEF WaitersCalled
<1>9. \/ /\ waiters' = waiters
         /\ units' = [units EXCEPT ![s] = @ + 1]
      \/ /\ waiters[s] # <<>>
         /\ waiters' = [waiters EXCEPT ![s] = Tail(@)]
         /\ units' = units
  BY PostOfOne
<1>10. CASE waiters' = waiters /\ units' = [units EXCEPT ![s] = @ + 1]
  <2>1. Blocked' = Blocked
    BY <1>10, NobodyMoves DEF QueueInv, WaitInv
  <2>2. PICK h : h \notin Thread
    BY ThreadAssumption
  <2>3. h # t /\ h \notin Blocked /\ Blocked' = Blocked \ {h}
    BY <1>2, <2>1, <2>2
  <2>4. Granted(c)' = Granted(c) \ {t} /\ Granted(d)' = Granted(d)
    BY <1>6, <2>3
  <2> QED BY <1>7, <1>8, <1>10, <2>4
<1>11. CASE waiters[s] # <<>> /\ waiters' = [waiters EXCEPT ![s] = Tail(@)] /\ units' = units
  <2> DEFINE h == Head(waiters[s])
  <2>1. /\ h \in Range(waiters[s]) /\ h \in Blocked /\ Blocked' = Blocked \ {h}
        /\ \A r \in Sync : Range(waiters'[r]) = Range(waiters[r]) \ {h}
    BY <1>2, <1>11, BlockedShrinks DEF QueueInv, WaitInv
  <2>2. waited[h] /\ Call(h) = d /\ h # t
    BY <1>4, <2>1 DEF QueueInv, WaitersCalled
  <2> HIDE DEF h
  <2>3. Granted(c)' = Granted(c) \ {t} /\ Granted(d)' = Granted(d) \cup {h} /\ h \notin Granted(d)
    BY <1>6, <2>1, <2>2
  <2>4. Cardinality(Granted(d)') = Cardinality(Granted(d)) + 1
    BY <1>2, <2>3, FS_AddElement
  <2>5. WaitersCalled'
    BY <1>2, <1>8, <2>1
  <2> QED BY <1>7, <1>11, <2>3, <2>4, <2>5
<1> QED BY <1>9, <1>10, <1>11

(* Who runs and waits no longer has its unit: units are short of the limit  *)
(* by at least that one, and so is the list.                                *)
LEMMA CallerHoldsAUnit ==
    ASSUME QueueConstants, QueueInv, NEW t \in Thread, NEW c, Calls(t, c), waited[t]
    PROVE  /\ Cardinality(Granted(c)) > 0
           /\ c = "put" => units[elem_avaiable] < Limit /\ Len(head) < Limit
           /\ c = "get" => /\ Len(head) > 0
                          /\ units[space_avaiable] < Limit
<1>1. t \in Granted(c)
  BY QueueFacts DEF Granted, Calls, Blocked
<1>2. Cardinality(Granted(c)) > 0
  <2> IsFiniteSet(Granted(c)) /\ Cardinality(Granted(c)) \in Nat
    BY QueueFacts
  <2> Cardinality(Granted(c)) # 0
    BY <1>1, FS_EmptySet
  <2> QED OBVIOUS
<1>3. /\ units[elem_avaiable] \in Nat /\ units[space_avaiable] \in Nat /\ Limit \in Nat
      /\ Len(head) \in Nat
      /\ Cardinality(Granted("get")) \in Nat /\ Cardinality(Granted("put")) \in Nat
  BY QueueFacts
<1> QED BY <1>2, <1>3, SMTT(40) DEF QueueInv, UnitsAddUp

LEMMA PutPreserves ==
    ASSUME QueueConstants, QueueInv, SyncInv', NEW t \in Thread, PutInserts(t)
    PROVE  WaitersCalled' /\ UnitsAddUp'
<1> USE DEF QueueConstants
<1>1. /\ Calls(t, "put") /\ waited[t] /\ sem_post(elem_avaiable, 1)
      /\ waited' = [waited EXCEPT ![t] = FALSE] /\ Advance(t)
      /\ head' = Append(head, <<t, step[t]>>)
  BY DEF PutInserts
<1>2. units[elem_avaiable] < Limit /\ WaitsOn(elem_avaiable) = "get"
  BY <1>1, CallerHoldsAUnit DEF WaitsOn
<1>3. /\ WaitersCalled'
      /\ Cardinality(Granted("put"))' = Cardinality(Granted("put")) - 1
      /\ \/ /\ units' = [units EXCEPT ![elem_avaiable] = @ + 1]
            /\ Cardinality(Granted("get"))' = Cardinality(Granted("get"))
         \/ /\ units' = units
            /\ Cardinality(Granted("get"))' = Cardinality(Granted("get")) + 1
  BY <1>1, <1>2, PostHandsOver
<1>4. Len(head)' = Len(head) + 1
  <2> head \in Seq(Messages) /\ <<t, step[t]>> \in Messages
    BY <1>1, QueueFacts DEF Calls, Messages
  <2> QED BY <1>1, AppendProperties
<1>5. /\ units[elem_avaiable] \in Nat /\ units[space_avaiable] \in Nat /\ Limit \in Nat
      /\ units \in [Semaphore -> 0..Limit] /\ Len(head) \in Nat
      /\ Cardinality(Granted("get")) \in Nat /\ Cardinality(Granted("put")) \in Nat
  BY QueueFacts
<1>6. /\ units'[space_avaiable] = units[space_avaiable]
      /\ \/ /\ units'[elem_avaiable] = units[elem_avaiable] + 1
            /\ Cardinality(Granted("get"))' = Cardinality(Granted("get"))
         \/ /\ units'[elem_avaiable] = units[elem_avaiable]
            /\ Cardinality(Granted("get"))' = Cardinality(Granted("get")) + 1
  BY <1>3, <1>5
<1>7. UnitsAddUp'
  BY <1>3, <1>4, <1>5, <1>6, SMTT(40) DEF QueueInv, UnitsAddUp
<1> QED BY <1>3, <1>7

LEMMA GetPreserves ==
    ASSUME QueueConstants, QueueInv, SyncInv', NEW t \in Thread, GetRemoves(t)
    PROVE  WaitersCalled' /\ UnitsAddUp'
<1> USE DEF QueueConstants
<1>1. /\ Calls(t, "get") /\ waited[t] /\ sem_post(space_avaiable, 1)
      /\ waited' = [waited EXCEPT ![t] = FALSE] /\ Advance(t)
      /\ head' = Tail(head) /\ head # <<>>
  BY DEF GetRemoves
<1>2. units[space_avaiable] < Limit /\ WaitsOn(space_avaiable) = "put"
  BY <1>1, CallerHoldsAUnit DEF WaitsOn
<1>3. /\ WaitersCalled'
      /\ Cardinality(Granted("get"))' = Cardinality(Granted("get")) - 1
      /\ \/ /\ units' = [units EXCEPT ![space_avaiable] = @ + 1]
            /\ Cardinality(Granted("put"))' = Cardinality(Granted("put"))
         \/ /\ units' = units
            /\ Cardinality(Granted("put"))' = Cardinality(Granted("put")) + 1
  BY <1>1, <1>2, PostHandsOver
<1>4. Len(head)' = Len(head) - 1
  <2> head \in Seq(Messages)
    BY QueueFacts
  <2> QED BY <1>1, HeadTailProperties
<1>5. /\ units[elem_avaiable] \in Nat /\ units[space_avaiable] \in Nat /\ Limit \in Nat
      /\ units \in [Semaphore -> 0..Limit] /\ Len(head) \in Nat
      /\ Cardinality(Granted("get")) \in Nat /\ Cardinality(Granted("put")) \in Nat
  BY QueueFacts
<1>6. /\ units'[elem_avaiable] = units[elem_avaiable]
      /\ \/ /\ units'[space_avaiable] = units[space_avaiable] + 1
            /\ Cardinality(Granted("put"))' = Cardinality(Granted("put"))
         \/ /\ units'[space_avaiable] = units[space_avaiable]
            /\ Cardinality(Granted("put"))' = Cardinality(Granted("put")) + 1
  BY <1>3, <1>5
<1>7. UnitsAddUp'
  BY <1>3, <1>4, <1>5, <1>6, SMTT(40) DEF QueueInv, UnitsAddUp
<1> QED BY <1>3, <1>7

-----------------------------------------------------------------------------
LEMMA QueueInvInit == QueueConstants /\ QueueInit => QueueInv
<1> SUFFICES ASSUME QueueConstants, QueueInit PROVE QueueInv
  OBVIOUS
<1>1. SyncInv /\ waiters = [s \in Sync |-> <<>>] /\ Semaphore \subseteq Sync
  BY SyncInvInit DEF QueueInit, SyncInit, Sync
<1>2. WaitInv
  BY <1>1, Empty DEF WaitInv, NobodyWaitsInVain, RequestsAreUnits, Sync
<1>3. \A c : Granted(c) = {}
  BY DEF QueueInit, Granted
<1>4. UnitsAddUp
  <2>1. /\ units[elem_avaiable] = 0 /\ units[space_avaiable] = Limit
        /\ Len(head) = 0 /\ Limit \in Nat
    BY LimitAssumption, EmptySeq DEF QueueInit, QueueConstants
  <2>2. Cardinality(Granted("get")) = 0 /\ Cardinality(Granted("put")) = 0
    BY <1>3, FS_EmptySet
  <2> QED BY <2>1, <2>2 DEF UnitsAddUp
<1>5. QueueTypes /\ WaitersCalled
  BY <1>1, Empty, EmptySeq DEF QueueInit, QueueTypes, WaitersCalled
<1> QED BY <1>2, <1>4, <1>5 DEF QueueInv

(* Every step of the program preserves the queue's invariant. *)
LEMMA QueueInvNext ==
    QueueConstants /\ QueueInv /\ [QueueNext]_<<allVars, queueVars>> => QueueInv'
<1> SUFFICES ASSUME QueueConstants, QueueInv, [QueueNext]_<<allVars, queueVars>> PROVE QueueInv'
  OBVIOUS
<1>1. SyncInv' /\ WaitInv'
  BY QueueStepSynchronizes, WaitInvNext DEF QueueInv, WaitInv
<1>2. /\ elem_avaiable \in Semaphore /\ space_avaiable \in Semaphore
      /\ WaitsOn(elem_avaiable) = "get" /\ WaitsOn(space_avaiable) = "put"
      /\ head \in Seq(Messages)
      /\ step \in [Thread -> Nat] /\ waited \in [Thread -> BOOLEAN]
  BY QueueFacts DEF QueueConstants, WaitsOn
<1>3. ASSUME NEW t \in Thread, PutWaits(t) \/ GetWaits(t)
      PROVE  WaitersCalled' /\ UnitsAddUp' /\ QueueTypes'
  <2>1. PICK s \in Semaphore : WaitFor(t, WaitsOn(s), s)
    BY <1>2, <1>3 DEF PutWaits, GetWaits
  <2>2. QueueTypes'
    BY <1>2, <2>1 DEF WaitFor, QueueTypes
  <2> QED BY <1>1, <2>1, <2>2, WaitTakes, WaitBlocks
<1>4. ASSUME NEW t \in Thread, PutInserts(t)
      PROVE  WaitersCalled' /\ UnitsAddUp' /\ QueueTypes'
  <2>1. <<t, step[t]>> \in Messages
    BY <1>4 DEF PutInserts, Calls, Messages
  <2>2. head' \in Seq(Messages)
    BY <1>2, <1>4, <2>1, AppendProperties DEF PutInserts
  <2>3. QueueTypes'
    BY <1>2, <1>4, <2>2 DEF PutInserts, Advance, QueueTypes
  <2> QED BY <1>1, <1>4, <2>3, PutPreserves
<1>5. ASSUME NEW t \in Thread, GetRemoves(t)
      PROVE  WaitersCalled' /\ UnitsAddUp' /\ QueueTypes'
  <2>1. head' \in Seq(Messages)
    BY <1>2, <1>5, HeadTailProperties DEF GetRemoves
  <2>2. QueueTypes'
    BY <1>2, <1>5, <2>1 DEF GetRemoves, Advance, QueueTypes
  <2> QED BY <1>1, <1>5, <2>2, GetPreserves
<1>6. ASSUME NEW t \in Thread, Yields(t)
      PROVE  WaitersCalled' /\ UnitsAddUp' /\ QueueTypes'
  <2>1. ~waited[t] /\ UNCHANGED <<waiters, waited, request, units, head, allocated>>
    BY <1>6 DEF Yields, Calls, Call, QueueInv, WaitersCalled, syncVars, ut_yield, vars
  <2>2. QueueTypes'
    BY <1>2, <1>6, <2>1 DEF Yields, Advance, QueueTypes
  <2>3. \A u \in Thread : waited[u] => step'[u] = step[u] /\ u \in allocated'
    BY <1>2, <1>6, <2>1 DEF Yields, Advance, QueueInv, WaitersCalled
  <2> QED BY <1>1, <2>1, <2>2, <2>3, GrantedStays
<1>7. ASSUME NEW t \in Thread, Exits(t)
      PROVE  WaitersCalled' /\ UnitsAddUp' /\ QueueTypes'
  <2>1. /\ ~waited[t] /\ allocated' = allocated \ {t}
        /\ UNCHANGED <<waiters, waited, request, units, head, step>>
    BY <1>7 DEF Exits, QueueInv, WaitersCalled, syncVars, queueVars, ut_exit
  <2>2. QueueTypes'
    BY <1>2, <2>1 DEF QueueTypes
  <2>3. \A u \in Thread : waited[u] => step'[u] = step[u] /\ u \in allocated'
    BY <2>1 DEF QueueInv, WaitersCalled
  <2> QED BY <1>1, <2>1, <2>2, <2>3, GrantedStays
<1>8. ASSUME NEW t \in Thread, MainCreates(t)
      PROVE  WaitersCalled' /\ UnitsAddUp' /\ QueueTypes'
  <2>1. /\ ~waited[t] /\ allocated' = allocated \cup {t}
        /\ UNCHANGED <<waiters, waited, request, units, head>>
    BY <1>8 DEF MainCreates, QueueInv, WaitersCalled, syncVars, ut_create
  <2>2. QueueTypes'
    BY <1>2, <1>8, <2>1 DEF MainCreates, QueueTypes
  <2>3. \A u \in Thread : waited[u] => step'[u] = step[u] /\ u \in allocated'
    BY <1>2, <1>8, <2>1 DEF MainCreates, QueueInv, WaitersCalled
  <2> QED BY <1>1, <2>1, <2>2, <2>3, GrantedStays
<1>9. ASSUME MainRuns \/ RunReturns
      PROVE  WaitersCalled' /\ UnitsAddUp' /\ QueueTypes'
  <2>1. UNCHANGED <<waiters, waited, request, units, head, step, allocated>>
    BY <1>9 DEF MainRuns, RunReturns, syncVars, queueVars, ut_run, ut_run_returns
  <2>2. QueueTypes'
    BY <1>2, <2>1 DEF QueueTypes
  <2>3. \A u \in Thread : waited[u] => step'[u] = step[u] /\ u \in allocated'
    BY <2>1 DEF QueueInv, WaitersCalled
  <2> QED BY <1>1, <2>1, <2>2, <2>3, GrantedStays
<1>10. ASSUME UNCHANGED <<allVars, queueVars>>
       PROVE  WaitersCalled' /\ UnitsAddUp' /\ QueueTypes'
  <2>1. UNCHANGED <<waiters, waited, request, units, head, step, allocated>>
    BY <1>10 DEF allVars, queueVars
  <2>2. QueueTypes'
    BY <1>2, <2>1 DEF QueueTypes
  <2>3. \A u \in Thread : waited[u] => step'[u] = step[u] /\ u \in allocated'
    BY <2>1 DEF QueueInv, WaitersCalled
  <2> QED BY <1>1, <2>1, <2>2, <2>3, GrantedStays
<1>11. WaitersCalled' /\ UnitsAddUp' /\ QueueTypes'
  BY <1>3, <1>4, <1>5, <1>6, <1>7, <1>8, <1>9, <1>10 DEF QueueNext, ThreadStep
<1> QED BY <1>1, <1>11 DEF QueueInv

(* A queue_put is a put when there is room, a queue_get is a get, and every *)
(* other step leaves the messages alone.                                    *)
LEMMA QueueStepIsFifoStep ==
    QueueConstants /\ QueueInv /\ QueueNext => [Fifo!FifoNext]_<<head, taken>>
<1> SUFFICES ASSUME QueueConstants, QueueInv, QueueNext PROVE [Fifo!FifoNext]_<<head, taken>>
  OBVIOUS
<1>1. ASSUME NEW t \in Thread, PutInserts(t) PROVE Fifo!FifoNext
  <2>1. <<t, step[t]>> \in Messages
    BY <1>1 DEF PutInserts, Calls, Messages
  <2>2. Len(head) < Limit
    BY <1>1, CallerHoldsAUnit DEF PutInserts
  <2> QED BY <1>1, <2>1, <2>2 DEF PutInserts, Fifo!FifoNext, Fifo!Put
<1>2. ASSUME NEW t \in Thread, GetRemoves(t) PROVE Fifo!FifoNext
  BY <1>2 DEF GetRemoves, Fifo!FifoNext, Fifo!Get
<1>3. ASSUME NEW t \in Thread, MainCreates(t) \/ PutWaits(t) \/ GetWaits(t) \/ Yields(t) \/ Exits(t)
      PROVE  UNCHANGED <<head, taken>>
  BY <1>3 DEF MainCreates, PutWaits, GetWaits, WaitFor, Yields, Exits, queueVars
<1>4. CASE MainRuns \/ RunReturns
  BY <1>4 DEF MainRuns, RunReturns, queueVars
<1> QED BY <1>1, <1>2, <1>3, <1>4 DEF QueueNext, ThreadStep
=============================================================================
