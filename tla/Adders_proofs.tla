---------------------------- MODULE Adders_proofs ----------------------------
(***************************************************************************)
(* What holds of par_adder and its latch for every number of ranges, of    *)
(* calls and of array sizes: no work item outlives the call that submitted *)
(* it.                                                                     *)
(***************************************************************************)
EXTENDS Adders, FiniteSetTheorems, NaturalsInduction, WellFoundedInduction, TLAPS

(* The ranges of the call in progress that have not counted down yet. *)
Undone == {i \in Ctx : pc[<<calls, i>>] \in {"none", "queued", "start"}}

AdderTypes ==
    /\ calls \in 0..Calls
    /\ next \in 0..NPROCESSORS
    /\ pc \in [Signaller \cup Waiter ->
                 {"none", "submit", "queued", "start", "broadcast", "wait", "check", "done"}]
    /\ pc[main] \in {"none", "submit", "start", "wait", "check", "done"}
    /\ \A s \in Signaller : pc[s] \in {"none", "queued", "start", "broadcast", "done"}

(* Where the items of former, present and later calls are. *)
ItemsInOrder ==
    \A s \in Signaller :
        /\ s[1] < calls => pc[s] \in {"broadcast", "done"}
        /\ s[1] > calls => pc[s] = "none"
        /\ s[1] = calls => (pc[s] = "none" <=> s[2] >= next)

(* The counter of the latch is the number of ranges that are not done, and  *)
(* par_adder is past its wait only when there are none.                     *)
CounterCountsRanges ==
    /\ pc[main] = "none" <=> calls = 0
    /\ counter = IF calls = 0 THEN 0 ELSE Cardinality(Undone)
    /\ pc[main] \in {"start", "wait", "check", "done"} => next = NPROCESSORS
    /\ pc[main] = "done" => counter = 0

AdderInv == AdderTypes /\ ItemsInOrder /\ CounterCountsRanges

-----------------------------------------------------------------------------
(* The items are pairs of a call and a context, and main is none of them.   *)
LEMMA ItemFacts ==
    /\ NPROCESSORS \in Nat \ {0}
    /\ Waiter = {main} /\ main \notin Signaller
    /\ \A s \in Signaller : s = <<s[1], s[2]>> /\ s[1] \in 1..Calls /\ s[2] \in Ctx
    /\ \A n \in 1..Calls, i \in Ctx : <<n, i>> \in Signaller
BY AdderAssumption, LatchAssumption DEF NPROCESSORS, Ctx, Items

(* Sets of contexts are finite, and all of them are NPROCESSORS many. *)
LEMMA ContextsAreFinite ==
    /\ IsFiniteSet(Ctx) /\ Cardinality(Ctx) = NPROCESSORS
    /\ \A S \in SUBSET Ctx : /\ IsFiniteSet(S)
                             /\ Cardinality(S) \in Nat
                             /\ Cardinality(S) = 0 <=> S = {}
<1>1. NPROCESSORS \in Nat \ {0}
  BY ItemFacts
<1>2. IsFiniteSet(Ctx) /\ Cardinality(Ctx) = NPROCESSORS
  <2>1. 0 \in Int /\ NPROCESSORS - 1 \in Int /\ ~(0 > NPROCESSORS - 1)
        /\ NPROCESSORS - 1 - 0 + 1 = NPROCESSORS
    BY <1>1
  <2>2. IsFiniteSet(0..NPROCESSORS-1)
        /\ Cardinality(0..NPROCESSORS-1) =
             IF 0 > NPROCESSORS - 1 THEN 0 ELSE NPROCESSORS - 1 - 0 + 1
    BY <2>1, FS_Interval
  <2> QED BY <2>1, <2>2 DEF Ctx
<1> QED BY <1>2, FS_Subset, FS_EmptySet, FS_CardinalityType

-----------------------------------------------------------------------------
(* Before the first call there are no items and the counter is down. *)
THEOREM AdderInit == Init => AdderInv
<1> SUFFICES ASSUME Init PROVE AdderInv
  OBVIOUS
<1>1. Calls \in Nat /\ NPROCESSORS \in Nat \ {0}
  BY AdderAssumption, ItemFacts
<1> QED BY <1>1, ItemFacts DEF Init, AdderInv, AdderTypes, ItemsInOrder, CounterCountsRanges

(* Steps that leave the latch's counter and the calls alone, and move no    *)
(* item past the point where it counts down.                                *)
LEMMA QuietStep ==
    ASSUME AdderInv, AdderTypes', ItemsInOrder',
           UNCHANGED <<calls, counter>>,
           calls # 0 => Undone' = Undone,
           pc'[main] # "none" <=> pc[main] # "none",
           pc'[main] \in {"start", "wait", "check", "done"} => next' = NPROCESSORS,
           pc'[main] = "done" => counter = 0
    PROVE  AdderInv'
BY DEF AdderInv, CounterCountsRanges, Undone

(* Every step of main, of an item and of the condition variable keeps the  *)
(* invariant; cdl_signal is the one that takes a range out of Undone.       *)
LEMMA AdderStep == AdderInv /\ [AdderNext]_allVars => AdderInv'
<1> SUFFICES ASSUME AdderInv, [AdderNext]_allVars PROVE AdderInv'
  OBVIOUS
<1> USE ItemFacts, ContextsAreFinite
<1>1. AdderTypes /\ ItemsInOrder /\ CounterCountsRanges
  BY DEF AdderInv
<1>2. CASE CallParAdder
  <2> USE <1>2 DEF CallParAdder, GoAndWake
  <2>1. counter = 0
    BY <1>1 DEF CounterCountsRanges
  <2>2. \A s \in Signaller : s[1] = calls => pc[s] \in {"broadcast", "done"}
    <3> SUFFICES ASSUME NEW s \in Signaller, s[1] = calls
                 PROVE  pc[s] \in {"broadcast", "done"}
      OBVIOUS
    <3>1. calls # 0 /\ Undone = {}
      <4>1. calls # 0
        OBVIOUS
      <4>2. Cardinality(Undone) = 0 /\ Undone \in SUBSET Ctx
        BY <1>1, <2>1, <4>1 DEF CounterCountsRanges, Undone
      <4> QED BY <4>1, <4>2
    <3>2. pc[<<calls, s[2]>>] \notin {"none", "queued", "start"}
      BY <3>1 DEF Undone
    <3> QED BY <1>1, <3>2 DEF AdderTypes
  <2>3. \A s \in Signaller : pc'[s] = pc[s]
    BY <1>1 DEF AdderTypes
  <2>4. pc'[main] = "submit"
    BY <1>1 DEF AdderTypes
  <2>5. calls \in Nat /\ calls' = calls + 1 /\ calls' \in 1..Calls /\ Calls \in Nat
    BY <1>1, AdderAssumption DEF AdderTypes
  <2>6. AdderTypes'
    BY <1>1, <2>3, <2>4, <2>5 DEF AdderTypes
  <2>7. ItemsInOrder'
    <3> SUFFICES ASSUME NEW s \in Signaller
                 PROVE  /\ s[1] < calls' => pc'[s] \in {"broadcast", "done"}
                        /\ s[1] > calls' => pc'[s] = "none"
                        /\ s[1] = calls' => (pc'[s] = "none" <=> s[2] >= next')
      BY DEF ItemsInOrder
    <3>1. s[1] \in Int /\ s[2] \in Nat /\ next' = 0
      BY DEF Ctx
    <3> QED BY <1>1, <2>2, <2>3, <2>5, <3>1 DEF ItemsInOrder
  <2>8. Undone' = Ctx
    <3>1. \A i \in Ctx : pc'[<<calls', i>>] = "none"
      <4> SUFFICES ASSUME NEW i \in Ctx PROVE pc'[<<calls', i>>] = "none"
        OBVIOUS
      <4>1. <<calls', i>> \in Signaller /\ <<calls', i>>[1] > calls
        BY <2>5
      <4> QED BY <1>1, <2>3, <4>1 DEF ItemsInOrder
    <3> QED BY <3>1 DEF Undone, Ctx
  <2> QED BY <2>4, <2>5, <2>6, <2>7, <2>8 DEF AdderInv, CounterCountsRanges
<1>3. CASE Submit
  <2> USE <1>3 DEF Submit
  <2>1. calls # 0 /\ calls \in 1..Calls /\ next \in Ctx /\ <<calls, next>> \in Signaller
    BY <1>1 DEF AdderTypes, CounterCountsRanges, Ctx
  <2>2. /\ pc'[<<calls, next>>] = "queued"
        /\ \A t \in Signaller \cup Waiter : t # <<calls, next>> => pc'[t] = pc[t]
    BY <1>1, <2>1 DEF AdderTypes
  <2>3. pc[<<calls, next>>] = "none"
    BY <1>1, <2>1 DEF ItemsInOrder, Ctx
  <2>4. pc'[main] = "submit"
    BY <2>1, <2>2
  <2>5. AdderTypes'
    BY <1>1, <2>1, <2>2, <2>4 DEF AdderTypes, Ctx
  <2>6. ItemsInOrder'
    <3> SUFFICES ASSUME NEW s \in Signaller
                 PROVE  /\ s[1] < calls' => pc'[s] \in {"broadcast", "done"}
                        /\ s[1] > calls' => pc'[s] = "none"
                        /\ s[1] = calls' => (pc'[s] = "none" <=> s[2] >= next')
      BY DEF ItemsInOrder
    <3>1. s[1] \in Int /\ s[2] \in Nat /\ next \in Nat /\ calls \in Int /\ calls' = calls
          /\ next' = next + 1
      BY <2>1 DEF Ctx
    <3>2. CASE s = <<calls, next>>
      BY <2>2, <3>1, <3>2
    <3>3. CASE s # <<calls, next>>
      <4>1. s[1] = calls => s[2] # next
        BY <3>3
      <4> QED BY <1>1, <2>2, <3>1, <3>3, <4>1 DEF ItemsInOrder
    <3> QED BY <3>2, <3>3
  <2>7. Undone' = Undone
    <3>1. \A i \in Ctx : pc'[<<calls, i>>] \in {"none", "queued", "start"}
                           <=> pc[<<calls, i>>] \in {"none", "queued", "start"}
      <4> SUFFICES ASSUME NEW i \in Ctx
                   PROVE  pc'[<<calls, i>>] \in {"none", "queued", "start"}
                            <=> pc[<<calls, i>>] \in {"none", "queued", "start"}
        OBVIOUS
      <4>1. CASE i = next
        BY <2>2, <2>3, <4>1
      <4>2. CASE i # next
        BY <2>1, <2>2, <4>2
      <4> QED BY <4>1, <4>2
    <3> QED BY <3>1 DEF Undone, Ctx
  <2> QED BY <2>4, <2>5, <2>6, <2>7, QuietStep
<1>4. CASE CallCdlWait
  <2> USE <1>4 DEF CallCdlWait, GoAndWake, adderVars
  <2>1. pc'[main] = "start" /\ \A s \in Signaller : pc'[s] = pc[s]
    BY <1>1 DEF AdderTypes
  <2>2. AdderTypes' /\ ItemsInOrder'
    BY <1>1, <2>1 DEF AdderTypes, ItemsInOrder
  <2>3. calls # 0 => Undone' = Undone
    BY <1>1, <2>1 DEF Undone, Ctx, AdderTypes
  <2> QED BY <2>1, <2>2, <2>3, QuietStep
<1>5. CASE WaitAndAdd
  <2> USE <1>5 DEF WaitAndAdd, cdl_wait, GoAndWake
  <2>1. /\ pc'[main] = IF counter > 0 THEN "wait" ELSE "done"
        /\ \A s \in Signaller : pc'[s] = pc[s]
    BY <1>1 DEF AdderTypes
  <2>2. AdderTypes' /\ ItemsInOrder'
    BY <1>1, <2>1 DEF AdderTypes, ItemsInOrder
  <2>3. calls # 0 => Undone' = Undone
    BY <1>1, <2>1 DEF Undone, Ctx, AdderTypes
  <2>4. pc'[main] = "done" => counter = 0
    <3>1. counter \in Nat
      BY <1>1 DEF CounterCountsRanges, Undone
    <3> QED BY <2>1, <3>1
  <2>5. next' = NPROCESSORS
    BY <1>1 DEF CounterCountsRanges
  <2> QED BY <2>1, <2>2, <2>3, <2>4, <2>5, QuietStep
<1>6. ASSUME NEW s \in Signaller, worker_func(s) PROVE AdderInv'
  <2> USE <1>6 DEF worker_func
  <2>1. pc'[s] = "start" /\ \A t \in Signaller \cup Waiter : t # s => pc'[t] = pc[t]
    BY <1>1 DEF AdderTypes
  <2>2. s[1] = calls
    <3>1. s[1] \in Int /\ calls \in Int
      BY <1>1 DEF AdderTypes
    <3> QED BY <1>1, <3>1 DEF ItemsInOrder
  <2>3. AdderTypes' /\ ItemsInOrder'
    BY <1>1, <2>1, <2>2 DEF AdderTypes, ItemsInOrder
  <2>4. Undone' = Undone
    <3>1. \A i \in Ctx : pc'[<<calls, i>>] \in {"none", "queued", "start"}
                           <=> pc[<<calls, i>>] \in {"none", "queued", "start"}
      BY <1>1, <2>1, <2>2 DEF AdderTypes
    <3> QED BY <3>1 DEF Undone, Ctx
  <2>5. pc'[main] = pc[main]
    BY <2>1
  <2> QED BY <1>1, <2>3, <2>4, <2>5, QuietStep DEF CounterCountsRanges
<1>7. ASSUME NEW s \in Signaller, Signals(s) PROVE AdderInv'
  <2> USE DEF GoAndWake, adderVars
  <2>1. CASE cdl_signal(s)
    <3> USE <1>7, <2>1 DEF Signals, cdl_signal
    <3>1. /\ pc[s] = "start" /\ pc'[s] \in {"broadcast", "done"}
          /\ \A t \in Signaller \cup Waiter : t # s => pc'[t] = pc[t]
      BY <1>1 DEF AdderTypes
    <3>2. s[1] = calls /\ calls # 0 /\ calls' = calls /\ next' = next
      <4>1. s[1] \in Int /\ calls \in Int
        BY <1>1 DEF AdderTypes
      <4> QED BY <1>1, <3>1, <4>1 DEF ItemsInOrder, Broadcasts
    <3>3. AdderTypes' /\ ItemsInOrder' /\ pc'[main] = pc[main]
      BY <1>1, <3>1, <3>2 DEF AdderTypes, ItemsInOrder
    <3>4. s[2] \in Undone /\ Undone' = Undone \ {s[2]}
      <4>1. <<calls, s[2]>> = s /\ s[2] \in Ctx
        BY <3>2
      <4>2. \A i \in Ctx : i # s[2] => pc'[<<calls, i>>] = pc[<<calls, i>>]
        BY <1>1, <3>1, <3>2 DEF AdderTypes
      <4> QED BY <3>1, <3>2, <4>1, <4>2 DEF Undone, Ctx
    <3>5. Cardinality(Undone') = Cardinality(Undone) - 1 /\ Cardinality(Undone) \in Nat
      <4>1. IsFiniteSet(Undone)
        BY DEF Undone
      <4> QED BY <3>4, <4>1, FS_RemoveElement, FS_CardinalityType
    <3>6. counter' = Cardinality(Undone')
      BY <1>1, <3>2, <3>5 DEF CounterCountsRanges
    <3>7. pc[main] # "done"
      <4>1. Undone # {} /\ Cardinality(Undone) # 0
        BY <3>4 DEF Undone
      <4> QED BY <1>1, <3>2, <4>1 DEF CounterCountsRanges
    <3> QED BY <1>1, <3>2, <3>3, <3>6, <3>7 DEF AdderInv, CounterCountsRanges
  <2>2. CASE Broadcasts(s)
    <3> USE <1>7, <2>2 DEF Signals, Broadcasts, Completed
    <3>1. /\ pc[s] = "broadcast" /\ pc'[s] = "done"
          /\ \A t \in Signaller : t # s => pc'[t] = pc[t]
          /\ pc'[main] = pc[main] \/ (pc[main] = "wait" /\ pc'[main] = "check")
      BY <1>1 DEF AdderTypes
    <3>2. AdderTypes' /\ ItemsInOrder'
      BY <1>1, <3>1 DEF AdderTypes, ItemsInOrder
    <3>3. calls # 0 => Undone' = Undone
      <4> SUFFICES ASSUME calls # 0, NEW i \in Ctx
                   PROVE  pc'[<<calls, i>>] \in {"none", "queued", "start"}
                            <=> pc[<<calls, i>>] \in {"none", "queued", "start"}
        BY <1>7 DEF Undone, Ctx
      <4>1. <<calls, i>> \in Signaller
        BY <1>1 DEF AdderTypes
      <4> QED BY <3>1, <4>1
    <3> QED BY <1>1, <3>1, <3>2, <3>3, QuietStep DEF CounterCountsRanges
  <2> QED BY <1>7, <2>1, <2>2 DEF Signals
<1>8. CASE WakesSpuriously
  <2> USE <1>8 DEF WakesSpuriously, SpuriousWakeup, GoAndWake, adderVars
  <2>1. pc'[main] = "check" /\ \A s \in Signaller : pc'[s] = pc[s]
    BY <1>1 DEF AdderTypes
  <2>2. AdderTypes' /\ ItemsInOrder'
    BY <1>1, <2>1 DEF AdderTypes, ItemsInOrder
  <2>3. calls # 0 => Undone' = Undone
    BY <1>1, <2>1 DEF Undone, Ctx, AdderTypes
  <2> QED BY <1>1, <2>1, <2>2, <2>3, QuietStep DEF CounterCountsRanges
<1>9. CASE UNCHANGED allVars
  BY <1>1, <1>9 DEF allVars, latchVars, adderVars, AdderInv, AdderTypes, ItemsInOrder,
                    CounterCountsRanges, Undone, Ctx
<1> QED BY <1>2, <1>3, <1>4, <1>5, <1>6, <1>7, <1>8, <1>9 DEF AdderNext, ItemStep, MainStep

(* The adder inside the composition: it takes its own steps, or stands still *)
(* while the first latch runs.                                              *)
LEMMA StepsOfTheAdder == [AddersNext]_addersVars => [AdderNext]_allVars
BY DEF AddersNext, addersVars, allVars, latchVars, adderVars

(* The latch counts the ranges of the call in progress, always. *)
THEOREM AdderInvariant == AddersSpec => []AdderInv
<1>1. AddersInit => AdderInv
  BY AdderInit DEF AddersInit
<1>2. AdderInv /\ [AddersNext]_addersVars => AdderInv'
  BY AdderStep, StepsOfTheAdder
<1> QED BY <1>1, <1>2, PTL DEF AddersSpec

-----------------------------------------------------------------------------
(* When par_adder is not running, every item of every call so far is past   *)
(* its last access to the contexts and to the counter of the latch, both    *)
(* locals of par_adder: for any number of ranges, items and calls.          *)
THEOREM NothingOutlivesTheCall == AddersSpec => []NoItemOutlivesTheCall
<1>1. AdderInv => NoItemOutlivesTheCall
  <2> SUFFICES ASSUME AdderInv, pc[main] \in {"none", "done"}
               PROVE  /\ counter = 0
                      /\ \A s \in Signaller : pc[s] \in {"none", "done", "broadcast"}
    BY DEF NoItemOutlivesTheCall
  <2>1. AdderTypes /\ ItemsInOrder /\ CounterCountsRanges
    BY DEF AdderInv
  <2>2. counter = 0
    BY <2>1 DEF CounterCountsRanges
  <2>3. ASSUME NEW s \in Signaller PROVE pc[s] \in {"none", "done", "broadcast"}
    <3>1. s[1] \in 1..Calls /\ s[2] \in Ctx /\ s = <<s[1], s[2]>> /\ calls \in Nat
          /\ Calls \in Nat
      BY <2>1, ItemFacts, AdderAssumption DEF AdderTypes
    <3>2. CASE s[1] # calls
      BY <2>1, <3>1, <3>2 DEF ItemsInOrder
    <3>3. CASE s[1] = calls
      <4>1. calls # 0
        BY <3>1, <3>3
      <4>2. Undone \in SUBSET Ctx /\ Cardinality(Undone) = 0
        BY <2>1, <2>2, <4>1 DEF CounterCountsRanges, Undone
      <4>3. Undone = {}
        BY <4>2, ContextsAreFinite
      <4>4. pc[<<calls, s[2]>>] \notin {"none", "queued", "start"}
        BY <3>1, <4>3 DEF Undone
      <4> QED BY <2>1, <3>1, <3>3, <4>4 DEF AdderTypes
    <3> QED BY <3>2, <3>3
  <2> QED BY <2>2, <2>3
<1> QED BY <1>1, AdderInvariant, PTL
-----------------------------------------------------------------------------
(* The latches open in time.                                                *)

(* No step of the adder loses a wake-up: the signal that brings the counter *)
(* to zero has its broadcast to come, and the broadcast wakes main.         *)
LEMMA SleeperStep ==
    AdderInv /\ SleeperWillBeWoken /\ [AdderNext]_allVars => SleeperWillBeWoken'
<1> SUFFICES ASSUME AdderInv, SleeperWillBeWoken, [AdderNext]_allVars,
                    counter' <= 0, pc'[main] = "wait"
             PROVE  \E s \in Signaller : pc'[s] = "broadcast"
  BY ItemFacts DEF SleeperWillBeWoken, Completed
<1> USE ItemFacts
<1>1. AdderTypes /\ AdderTypes' /\ counter \in Nat /\ counter' \in Nat
  <2>1. AdderInv'
    BY AdderStep
  <2>2. AdderTypes /\ CounterCountsRanges /\ AdderTypes' /\ CounterCountsRanges'
    BY <2>1 DEF AdderInv
  <2>3. Undone \in SUBSET Ctx /\ Undone' \in SUBSET Ctx
    BY DEF Undone, Ctx
  <2>4. Cardinality(Undone) \in Nat /\ Cardinality(Undone') \in Nat
    BY <2>3, ContextsAreFinite
  <2> QED BY <2>2, <2>4 DEF CounterCountsRanges
<1>2. ASSUME counter = 0, pc[main] = "wait", \A s \in Signaller : pc[s] = "broadcast" => pc'[s] = pc[s]
      PROVE  \E s \in Signaller : pc'[s] = "broadcast"
  BY <1>2 DEF SleeperWillBeWoken, Completed
<1>3. CASE CallParAdder
  BY <1>1, <1>3 DEF CallParAdder, GoAndWake, AdderTypes
<1>4. CASE Submit
  <2>1. calls \in 0..Calls /\ pc[main] = "submit"
    BY <1>1, <1>4 DEF Submit, AdderTypes
  <2>2. pc'[main] = pc[main] \/ pc'[main] = "queued"
    BY <1>1, <1>4 DEF Submit, AdderTypes
  <2> QED BY <2>1, <2>2
<1>5. CASE CallCdlWait
  BY <1>1, <1>5 DEF CallCdlWait, GoAndWake, AdderTypes
<1>6. CASE WaitAndAdd
  BY <1>1, <1>6 DEF WaitAndAdd, cdl_wait, GoAndWake, AdderTypes
<1>7. ASSUME NEW s \in Signaller, worker_func(s)
      PROVE  \E r \in Signaller : pc'[r] = "broadcast"
  <2>1. /\ counter = 0 /\ pc[main] = "wait" /\ pc[s] = "queued"
        /\ \A r \in Signaller : r # s => pc'[r] = pc[r]
    BY <1>1, <1>7 DEF worker_func, AdderTypes
  <2> QED BY <1>2, <2>1
<1>8. ASSUME NEW s \in Signaller, cdl_signal(s)
      PROVE  \E r \in Signaller : pc'[r] = "broadcast"
  <2>1. counter' = 0
    BY <1>1
  <2>2. pc'[s] = "broadcast"
    BY <1>1, <1>8, <2>1 DEF cdl_signal, GoAndWake, AdderTypes
  <2> QED BY <2>2
<1>9. ASSUME NEW s \in Signaller, Broadcasts(s)
      PROVE  FALSE
  <2>1. pc[s] = "broadcast" /\ pc'[main] = IF main \in Completed THEN "check" ELSE pc[main]
    BY <1>1, <1>9 DEF Broadcasts, GoAndWake, AdderTypes
  <2> QED BY <2>1 DEF Completed
<1>10. CASE WakesSpuriously
  BY <1>1, <1>10 DEF WakesSpuriously, SpuriousWakeup, GoAndWake, AdderTypes
<1>11. CASE UNCHANGED allVars
  BY <1>1, <1>2, <1>11 DEF allVars, latchVars
<1> QED BY <1>3, <1>4, <1>5, <1>6, <1>7, <1>8, <1>9, <1>10, <1>11
        DEF AdderNext, ItemStep, MainStep, Signals

(* The first latch: what was let through and not surprised came after the   *)
(* last signal, and an open latch has no sleeper, since a signal that finds *)
(* the counter down already need not wake anybody.                          *)
FirstInv ==
    /\ first_counter \in Int
    /\ first_pc \in [FirstSignaller \cup FirstWaiter -> {"start", "wait", "woken", "done"}]
    /\ \A w \in FirstWaiter :
          first_pc[w] \in {"woken", "done"} => first_counter <= 0 \/ w \in surprised
    /\ first_counter <= 0 => \A w \in FirstWaiter : first_pc[w] # "wait"

LEMMA FirstStep == FirstInv /\ FirstNext => FirstInv'
<1> SUFFICES ASSUME FirstInv, FirstNext PROVE FirstInv'
  OBVIOUS
<1> USE FirstAssumption DEF FirstInv
<1>1. ASSUME NEW s \in FirstSignaller, FirstSignal(s) PROVE FirstInv'
  <2>1. /\ s \notin FirstWaiter /\ first_counter' = first_counter - 1 /\ surprised' = surprised
        /\ first_pc' \in [FirstSignaller \cup FirstWaiter -> {"start", "wait", "woken", "done"}]
    BY <1>1 DEF FirstSignal, Sleeping
  <2>2. CASE first_counter' = 0
    <3>1. \A w \in FirstWaiter : first_pc'[w] = IF first_pc[w] = "wait" THEN "woken" ELSE first_pc[w]
      BY <1>1, <2>1, <2>2 DEF FirstSignal, Sleeping
    <3> QED BY <2>1, <2>2, <3>1
  <2>3. CASE first_counter' # 0
    <3>1. \A w \in FirstWaiter : first_pc'[w] = first_pc[w]
      BY <1>1, <2>1, <2>3 DEF FirstSignal, Sleeping
    <3>2. first_counter' <= 0 => first_counter <= 0
      BY <2>1, <2>3
    <3>3. first_counter <= 0 => first_counter' <= 0
      BY <2>1
    <3> QED BY <2>1, <3>1, <3>2, <3>3
  <2> QED BY <2>2, <2>3
<1>2. ASSUME NEW w \in FirstWaiter, FirstWait(w) PROVE FirstInv'
  BY <1>2 DEF FirstWait
<1>3. ASSUME NEW w \in FirstWaiter, FirstWaitReturns(w) PROVE FirstInv'
  BY <1>3 DEF FirstWaitReturns
<1>4. ASSUME NEW w \in FirstWaiter, FirstWakesSpuriously(w) PROVE FirstInv'
  BY <1>4 DEF FirstWakesSpuriously
<1> QED BY <1>1, <1>2, <1>3, <1>4 DEF FirstNext

(* Of each program what its invariant says; the other one stands still. *)
LatchesInv == AdderInv /\ SleeperWillBeWoken /\ (kind = "first" => FirstInv)

(* The latch of par_adder loses no wake-up between the last signal and the  *)
(* broadcast, and the first latch opens only for a spurious wake-up before  *)
(* the last signal, and then for everybody: for any number of ranges, calls,*)
(* signals and waiters.                                                     *)
THEOREM LatchesOpen == AddersSpec => []LatchesOpenInTime
<1>1. AddersInit => LatchesInv
  <2> SUFFICES ASSUME AddersInit PROVE LatchesInv
    OBVIOUS
  <2>1. Init /\ AdderInv
    BY AdderInit DEF AddersInit
  <2>2. SleeperWillBeWoken
    BY <2>1 DEF Init, SleeperWillBeWoken, Completed
  <2>3. kind = "first" => FirstInv
    BY FirstAssumption DEF AddersInit, FirstInit, FirstInv
  <2> QED BY <2>1, <2>2, <2>3 DEF LatchesInv
<1>2. LatchesInv /\ [AddersNext]_addersVars => LatchesInv'
  <2> SUFFICES ASSUME LatchesInv, [AddersNext]_addersVars PROVE LatchesInv'
    OBVIOUS
  <2>1. [AdderNext]_allVars /\ kind' = kind
    BY DEF AddersNext, addersVars, allVars, latchVars, adderVars
  <2>2. AdderInv' /\ SleeperWillBeWoken'
    BY <2>1, AdderStep, SleeperStep DEF LatchesInv
  <2>3. ASSUME kind = "first" PROVE FirstInv'
    <3>1. CASE FirstNext
      BY <2>3, <3>1, FirstStep DEF LatchesInv
    <3>2. CASE UNCHANGED firstVars
      BY <2>3, <3>2 DEF LatchesInv, FirstInv, firstVars
    <3> QED BY <2>3, <3>1, <3>2 DEF AddersNext, addersVars, FirstNext
  <2> QED BY <2>1, <2>2, <2>3 DEF LatchesInv
<1>3. LatchesInv => LatchesOpenInTime
  BY DEF LatchesInv, FirstInv, LatchesOpenInTime, FirstOpensInTime, Sleeping
<1> QED BY <1>1, <1>2, <1>3, PTL DEF AddersSpec

-----------------------------------------------------------------------------
(* Induction on the natural numbers, over a set rather than a predicate, and *)
(* sums by it.                                                               *)
LessThan == {ss \in Nat \X Nat : ss[1] < ss[2]}

(* The element a fold takes out of a set. *)
Chosen(s) == CHOOSE x \in s : TRUE

(* g adds the elements of f over each subset of S. *)
IsSum(g, f, S) ==
    g = [s \in SUBSET S |-> IF s = {} THEN 0 ELSE f[Chosen(s)] + g[s \ {Chosen(s)}]]

(* SumFunction is such a sum, over the whole domain, if there is one. *)
LEMMA SumIsAFold ==
    ASSUME NEW f, \E g : IsSum(g, f, DOMAIN f)
    PROVE  \E g : IsSum(g, f, DOMAIN f) /\ SumFunction(f) = g[DOMAIN f]
<1> DEFINE S == DOMAIN f
  iter[s \in SUBSET S] == IF s = {} THEN 0 ELSE f[Chosen(s)] + iter[s \ {Chosen(s)}]
<1>1. SumFunction(f) = iter[S]
  BY DEF SumFunction, SumFunctionOnSet, FoldFunctionOnSet, MapThenFoldSet, Chosen
<1>2. iter = [s \in SUBSET S |-> IF s = {} THEN 0 ELSE f[Chosen(s)] + iter[s \ {Chosen(s)}]]
  BY Zenon DEF IsSum
<1> QED BY <1>1, <1>2 DEF IsSum

(* The order of the natural numbers is well founded. *)
LEMMA LessThanIsWellFounded == IsWellFoundedOn(LessThan, Nat)
BY NatLessThanWellFounded, Zenon DEF OpToRel, LessThan

(* A set with 0 that has with each number the next has them all. *)
LEMMA SetInduction ==
    ASSUME NEW S, 0 \in S, \A k \in Nat : k \in S => k+1 \in S
    PROVE  Nat \subseteq S
<1> DEFINE T == Nat \ S
<1> SUFFICES ASSUME T # {} PROVE FALSE
  OBVIOUS
<1>1. PICK k \in T : \A m \in T : ~(<<m, k>> \in LessThan)
  <2> T \subseteq Nat
    OBVIOUS
  <2> HIDE DEF T
  <2> QED BY LessThanIsWellFounded, WFMin
<1>2. k # 0 /\ k \in Nat
  OBVIOUS
<1>3. k-1 \in Nat /\ k-1 < k /\ (k-1)+1 = k
  BY <1>2
<1>4. <<k-1, k>> \in LessThan
  BY <1>2, <1>3 DEF LessThan
<1> QED BY <1>1, <1>3, <1>4

(* The subsets of S with no more than k elements.                           *)
UpTo(S, k) == {s \in SUBSET S : Cardinality(s) <= k}

IsSumUpTo(g, f, S, k) ==
    g = [s \in UpTo(S, k) |-> IF s = {} THEN 0 ELSE f[Chosen(s)] + g[s \ {Chosen(s)}]]

(* Taking the chosen element out of a set. *)
LEMMA OneIsChosen ==
    ASSUME NEW S, IsFiniteSet(S), NEW s \in SUBSET S, s # {}
    PROVE  /\ Chosen(s) \in s
           /\ s \ {Chosen(s)} \in SUBSET S
           /\ Cardinality(s) \in Nat /\ Cardinality(s) > 0
           /\ Cardinality(s \ {Chosen(s)}) = Cardinality(s) - 1
<1>1. Chosen(s) \in s
  BY DEF Chosen
<1>2. IsFiniteSet(s) /\ Cardinality(s) \in Nat
  BY FS_Subset, FS_CardinalityType
<1>3. Cardinality(s) # 0
  BY <1>2, FS_EmptySet
<1>4. Cardinality(s \ {Chosen(s)}) = Cardinality(s) - 1
  BY <1>1, <1>2, FS_RemoveElement
<1>5. s \ {Chosen(s)} \in SUBSET S
  OBVIOUS
<1> QED BY <1>1, <1>2, <1>3, <1>4, <1>5

(* The recursion defines the sum of sets of any size. *)
LEMMA SumUpToExists ==
    ASSUME NEW f, NEW S, IsFiniteSet(S)
    PROVE  \A k \in Nat : \E g : IsSumUpTo(g, f, S, k)
<1> DEFINE T == {k \in Nat : \E g : IsSumUpTo(g, f, S, k)}
<1>1. 0 \in T
  <2> DEFINE g == [s \in UpTo(S, 0) |-> 0]
  <2>1. \A s \in UpTo(S, 0) : s = {}
    BY FS_Subset, FS_EmptySet, FS_CardinalityType DEF UpTo
  <2>2. IsSumUpTo(g, f, S, 0)
    BY <2>1 DEF IsSumUpTo
  <2> QED BY <2>2
<1>2. ASSUME NEW k \in Nat, k \in T PROVE k+1 \in T
  <2>1. PICK g : IsSumUpTo(g, f, S, k)
    BY <1>2
  <2> DEFINE g2 == [s \in UpTo(S, k+1) |-> IF s = {} THEN 0 ELSE f[Chosen(s)] + g[s \ {Chosen(s)}]]
  <2>2. ASSUME NEW s \in UpTo(S, k+1), s # {}
        PROVE  g2[s \ {Chosen(s)}] = g[s \ {Chosen(s)}]
    <3> DEFINE r == s \ {Chosen(s)}
    <3>1. s \in SUBSET S /\ Cardinality(s) <= k+1
      BY DEF UpTo
    <3>2. r \in SUBSET S /\ Cardinality(r) \in Nat /\ Cardinality(r) <= k
      BY <2>2, <3>1, OneIsChosen
    <3>3. r \in UpTo(S, k) /\ r \in UpTo(S, k+1)
      BY <3>2 DEF UpTo
    <3> HIDE DEF r
    <3>4. g2[r] = IF r = {} THEN 0 ELSE f[Chosen(r)] + g[r \ {Chosen(r)}]
      BY <3>3
    <3>5. g[r] = IF r = {} THEN 0 ELSE f[Chosen(r)] + g[r \ {Chosen(r)}]
      BY <2>1, <3>3 DEF IsSumUpTo
    <3> QED BY <3>4, <3>5 DEF r
  <2>3. g2 = [s \in UpTo(S, k+1) |-> IF s = {} THEN 0 ELSE f[Chosen(s)] + g2[s \ {Chosen(s)}]]
    BY <2>2
  <2> HIDE DEF g2
  <2>4. IsSumUpTo(g2, f, S, k+1)
    BY <2>3 DEF IsSumUpTo
  <2> QED BY <2>4
<1> HIDE DEF T
<1>3. Nat \subseteq T
  BY <1>1, <1>2, SetInduction
<1> QED BY <1>3 DEF T

(* So it defines the sum of every subset of a finite set. *)
LEMMA SumExists ==
    ASSUME NEW f, NEW S, IsFiniteSet(S)
    PROVE  \E g : IsSum(g, f, S)
<1>1. Cardinality(S) \in Nat
  BY FS_CardinalityType
<1>2. UpTo(S, Cardinality(S)) = SUBSET S
  BY FS_Subset DEF UpTo
<1>3. PICK g : IsSumUpTo(g, f, S, Cardinality(S))
  BY <1>1, SumUpToExists
<1> QED BY <1>2, <1>3 DEF IsSum, IsSumUpTo

(* The sum of equal numbers is their product with how many there are. *)
LEMMA SumOfEquals ==
    ASSUME NEW f, IsFiniteSet(DOMAIN f), NEW v \in Nat, \A x \in DOMAIN f : f[x] = v
    PROVE  SumFunction(f) = Cardinality(DOMAIN f) * v
<1> DEFINE S == DOMAIN f
<1>1. PICK g : IsSum(g, f, S) /\ SumFunction(f) = g[S]
  BY SumExists, SumIsAFold
<1> DEFINE T == {k \in Nat : \A s \in SUBSET S : Cardinality(s) = k => g[s] = k * v}
<1>2. 0 \in T
  <2>1. ASSUME NEW s \in SUBSET S, Cardinality(s) = 0 PROVE g[s] = 0
    <3>1. s = {}
      BY <2>1, FS_Subset, FS_EmptySet
    <3> QED BY <1>1, <3>1 DEF IsSum
  <2> QED BY <2>1
<1>3. ASSUME NEW k \in Nat, k \in T PROVE k+1 \in T
  <2> SUFFICES ASSUME NEW s \in SUBSET S, Cardinality(s) = k+1 PROVE g[s] = (k+1) * v
    OBVIOUS
  <2> DEFINE r == s \ {Chosen(s)}
  <2>1. s # {}
    BY FS_EmptySet
  <2>2. r \in SUBSET S /\ Cardinality(r) = k /\ Chosen(s) \in S
    BY <2>1, OneIsChosen
  <2>3. g[s] = f[Chosen(s)] + g[r]
    BY <1>1, <2>1 DEF IsSum
  <2>4. g[r] = k * v /\ f[Chosen(s)] = v
    BY <1>3, <2>2
  <2> QED BY <2>3, <2>4
<1>4. Cardinality(S) \in T
  <2> HIDE DEF T
  <2>1. Nat \subseteq T
    BY <1>2, <1>3, SetInduction
  <2> QED BY <2>1, FS_CardinalityType
<1> QED BY <1>1, <1>4

(* Division with its remainder, and products, for ranges of equal length. *)
LEMMA Division ==
    ASSUME NEW a \in Nat, NEW N \in Nat \ {0}
    PROVE  /\ a \div N \in Nat /\ N * (a \div N) \in Nat
           /\ N * (a \div N) = a - (a % N)
           /\ N * (a \div N) <= a
OBVIOUS

(* The k-th of N ranges of length r ends within N of them. *)
LEMMA Products ==
    ASSUME NEW N \in Nat \ {0}, NEW k \in 0..N-1, NEW r \in Nat
    PROVE  /\ k * r \in Nat /\ k * r + r <= N * r
           /\ k * r + r - k * r = r
OBVIOUS

-----------------------------------------------------------------------------
(* The sum.  A range is what Submit made it from then on, and its result is *)
(* its length once its item has run.                                        *)
ContextTypes ==
    /\ size \in Nat
    /\ contexts \in [Ctx -> [pstart : Nat, pend : Nat, result : Nat]]

RangesAreCut ==
    calls # 0 => \A i \in Ctx :
        /\ pc[<<calls, i>>] # "none" => /\ contexts[i].pstart = i * range_size
                                        /\ contexts[i].pend = i * range_size + range_size
        /\ pc[<<calls, i>>] \in {"start", "broadcast", "done"} => contexts[i].result = range_size

SumInv == ContextTypes /\ RangesAreCut /\ SumIsComplete

(* A range has its length, and the last one does not pass the end.          *)
LEMMA Ranges ==
    ASSUME NEW i \in Ctx, size \in Nat
    PROVE  /\ range_size \in Nat /\ i * range_size \in Nat
           /\ RangeEnd(i * range_size) = i * range_size + range_size
           /\ (i * range_size + range_size) - i * range_size = range_size
           /\ NPROCESSORS * range_size = size - (size % NPROCESSORS)
<1>1. NPROCESSORS \in Nat \ {0} /\ i \in 0..NPROCESSORS-1
  BY ItemFacts DEF Ctx
<1>2. /\ range_size \in Nat /\ NPROCESSORS * range_size = size - (size % NPROCESSORS)
      /\ NPROCESSORS * range_size \in Nat /\ NPROCESSORS * range_size <= size
  BY <1>1, Division DEF range_size
<1>3. /\ i * range_size \in Nat /\ i * range_size + range_size <= NPROCESSORS * range_size
      /\ i * range_size + range_size - i * range_size = range_size
  BY <1>1, <1>2, Products
<1>4. ~(i * range_size + range_size > size)
  <2> DEFINE p == i * range_size
             q == NPROCESSORS * range_size
  <2>1. p \in Nat /\ q \in Int /\ range_size \in Nat /\ p + range_size <= q /\ q <= size
    BY ONLY <1>2, <1>3
  <2> HIDE DEF p, q
  <2>2. ~(p + range_size > size)
    BY <2>1
  <2> QED BY <2>2 DEF p
<1> QED BY <1>2, <1>3, <1>4 DEF RangeEnd

(* A step after which each item is where it was or has already run before.  *)
LEMMA NoItemRuns ==
    ASSUME SumInv, UNCHANGED <<size, contexts, calls>>,
           calls # 0 => \A i \in Ctx :
               \/ pc'[<<calls, i>>] = pc[<<calls, i>>]
               \/ {pc[<<calls, i>>], pc'[<<calls, i>>]} \subseteq {"start", "broadcast", "done"},
           SumIsComplete'
    PROVE  SumInv'
<1>1. ContextTypes' /\ range_size' = range_size
  BY DEF SumInv, ContextTypes, range_size
<1>2. RangesAreCut'
  BY <1>1 DEF SumInv, RangesAreCut
<1> QED BY <1>1, <1>2 DEF SumInv

(* When all the ranges are done their results make the whole sum.           *)
LEMMA ResultsAddUp ==
    ASSUME AdderInv, SumInv, calls # 0, Undone = {}
    PROVE  SumFunction([i \in Ctx |-> contexts[i].result]) = size - (size % NPROCESSORS)
<1> DEFINE f == [i \in Ctx |-> contexts[i].result]
<1>1. ASSUME NEW i \in Ctx PROVE f[i] = range_size
  <2>1. <<calls, i>> \in Signaller
    BY ItemFacts DEF AdderInv, AdderTypes
  <2>2. pc[<<calls, i>>] \in {"start", "broadcast", "done"}
    BY <2>1 DEF AdderInv, AdderTypes, Undone
  <2> QED BY <2>2 DEF SumInv, RangesAreCut
<1>2. 0 \in Ctx /\ size \in Nat
  BY ItemFacts DEF Ctx, SumInv, ContextTypes
<1>3. range_size \in Nat /\ NPROCESSORS * range_size = size - (size % NPROCESSORS)
  BY <1>2, Ranges
<1>4. DOMAIN f = Ctx /\ IsFiniteSet(Ctx) /\ Cardinality(Ctx) = NPROCESSORS
  BY ContextsAreFinite
<1> HIDE DEF f
<1>5. SumFunction(f) = NPROCESSORS * range_size
  BY <1>1, <1>3, <1>4, SumOfEquals
<1> QED BY <1>3, <1>5 DEF f

(* Before the first call no range is cut. *)
LEMMA SumInit == Init => SumInv
BY AdderAssumption DEF Init, SumInv, ContextTypes, RangesAreCut, SumIsComplete

(* Every step keeps the ranges, and the one that ends the wait adds them.   *)
LEMMA SumStep == AdderInv /\ SumInv /\ [AdderNext]_allVars => SumInv'
<1> SUFFICES ASSUME AdderInv, SumInv, [AdderNext]_allVars PROVE SumInv'
  OBVIOUS
<1> USE ItemFacts
<1>1. AdderTypes /\ ItemsInOrder /\ CounterCountsRanges /\ size \in Nat
      /\ contexts \in [Ctx -> [pstart : Nat, pend : Nat, result : Nat]]
  BY DEF AdderInv, SumInv, ContextTypes
<1>2. \A i \in Ctx : calls # 0 => <<calls, i>> \in Signaller
  BY <1>1 DEF AdderTypes
<1>3. CASE CallParAdder
  <2>1. UNCHANGED <<size, contexts, total>> /\ calls' = calls + 1 /\ calls \in Nat
        /\ pc'[main] = "submit" /\ \A s \in Signaller : pc'[s] = pc[s]
    BY <1>1, <1>3 DEF CallParAdder, GoAndWake, AdderTypes
  <2>2. ASSUME NEW i \in Ctx PROVE pc'[<<calls', i>>] = "none"
    <3>1. calls' \in 1..Calls
      BY <1>3, <2>1, AdderAssumption DEF CallParAdder
    <3>2. <<calls', i>> \in Signaller
      BY <3>1
    <3>3. <<calls', i>>[1] > calls
      BY <2>1
    <3> QED BY <1>1, <2>1, <3>2, <3>3 DEF ItemsInOrder
  <2> QED BY <1>1, <2>1, <2>2 DEF SumInv, ContextTypes, RangesAreCut, SumIsComplete
<1>4. CASE Submit
  <2>1. calls # 0 /\ next \in Ctx /\ <<calls, next>> \in Signaller /\ UNCHANGED <<size, calls, total>>
    BY <1>1, <1>4 DEF Submit, AdderTypes, CounterCountsRanges, Ctx
  <2>2. /\ pc'[<<calls, next>>] = "queued" /\ pc'[main] = "submit"
        /\ \A i \in Ctx : i # next => pc'[<<calls, i>>] = pc[<<calls, i>>]
    BY <1>1, <1>2, <1>4, <2>1 DEF Submit, AdderTypes
  <2>3. /\ range_size \in Nat /\ next * range_size \in Nat
        /\ RangeEnd(next * range_size) = next * range_size + range_size
    BY <1>1, <2>1, Ranges
  <2>4. /\ contexts' \in [Ctx -> [pstart : Nat, pend : Nat, result : Nat]]
        /\ contexts'[next].pstart = next * range_size
        /\ contexts'[next].pend = next * range_size + range_size
        /\ \A i \in Ctx : i # next => contexts'[i] = contexts[i]
    <3> DEFINE p == next * range_size
               c == [pstart |-> p, pend |-> p + range_size, result |-> 0]
    <3>1. contexts' = [contexts EXCEPT ![next] = c]
      BY <1>4, <2>3 DEF Submit
    <3>2. c \in [pstart : Nat, pend : Nat, result : Nat] /\ c.pstart = p /\ c.pend = p + range_size
      BY <2>3
    <3> HIDE DEF c
    <3>3. /\ contexts' \in [Ctx -> [pstart : Nat, pend : Nat, result : Nat]] /\ contexts'[next] = c
          /\ \A i \in Ctx : i # next => contexts'[i] = contexts[i]
      BY <1>1, <2>1, <3>1, <3>2
    <3> QED BY <3>2, <3>3
  <2>5. range_size' = range_size
    BY <2>1 DEF range_size
  <2>6. ContextTypes'
    BY <1>1, <2>1, <2>4 DEF ContextTypes
  <2>7. RangesAreCut'
    <3> SUFFICES ASSUME NEW i \in Ctx
                 PROVE  /\ pc'[<<calls, i>>] # "none" =>
                              /\ contexts'[i].pstart = i * range_size
                              /\ contexts'[i].pend = i * range_size + range_size
                        /\ pc'[<<calls, i>>] \in {"start", "broadcast", "done"} =>
                              contexts'[i].result = range_size
      BY <2>1, <2>5 DEF RangesAreCut
    <3>1. CASE i = next
      BY <2>2, <2>4, <3>1
    <3>2. CASE i # next
      BY <2>1, <2>2, <2>4, <3>2 DEF SumInv, RangesAreCut
    <3> QED BY <3>1, <3>2
  <2> QED BY <2>2, <2>6, <2>7 DEF SumInv, SumIsComplete
<1>5. CASE CallCdlWait
  <2>1. /\ UNCHANGED <<size, contexts, calls>> /\ pc'[main] = "start"
        /\ \A s \in Signaller : pc'[s] = pc[s]
    BY <1>1, <1>5 DEF CallCdlWait, GoAndWake, AdderTypes, adderVars
  <2> QED BY <1>2, <2>1, NoItemRuns DEF SumIsComplete
<1>6. CASE WaitAndAdd
  <2>1. /\ UNCHANGED <<size, contexts, calls>> /\ \A s \in Signaller : pc'[s] = pc[s]
        /\ pc'[main] = IF counter > 0 THEN "wait" ELSE "done"
        /\ pc'[main] = "done" => total' = SumFunction([i \in Ctx |-> contexts[i].result])
        /\ pc[main] # "none"
    BY <1>1, <1>6 DEF WaitAndAdd, cdl_wait, GoAndWake, AdderTypes
  <2>2. SumIsComplete'
    <3> SUFFICES ASSUME pc'[main] = "done" PROVE total' = size' - (size' % NPROCESSORS)
      BY DEF SumIsComplete
    <3>1. Undone \in SUBSET Ctx /\ calls # 0 /\ counter = Cardinality(Undone)
      BY <1>1, <2>1 DEF Undone, CounterCountsRanges
    <3>2. Cardinality(Undone) \in Nat /\ ~(Cardinality(Undone) > 0)
      BY <2>1, <3>1, ContextsAreFinite
    <3>3. Undone = {}
      BY <3>1, <3>2, ContextsAreFinite
    <3> QED BY <2>1, <3>1, <3>3, ResultsAddUp
  <2> QED BY <1>2, <2>1, <2>2, NoItemRuns
<1>7. ASSUME NEW s \in Signaller, worker_func(s) PROVE SumInv'
  <2>1. s[1] = calls /\ calls # 0 /\ s[2] \in Ctx /\ s = <<calls, s[2]>> /\ UNCHANGED <<size, calls, total>>
    <3>1. s[1] \in 1..Calls /\ calls \in Int /\ pc[s] = "queued"
      BY <1>1, <1>7 DEF AdderTypes, worker_func
    <3>2. s[1] = calls
      BY <1>1, <3>1 DEF ItemsInOrder
    <3> QED BY <1>7, <3>1, <3>2 DEF worker_func
  <2>2. /\ pc[s] = "queued" /\ pc'[s] = "start" /\ pc'[main] = pc[main]
        /\ \A i \in Ctx : i # s[2] => pc'[<<calls, i>>] = pc[<<calls, i>>]
    BY <1>1, <1>2, <1>7, <2>1 DEF worker_func, AdderTypes
  <2>3. /\ contexts[s[2]].pstart = s[2] * range_size
        /\ contexts[s[2]].pend = s[2] * range_size + range_size
    BY <2>1, <2>2 DEF SumInv, RangesAreCut
  <2>4. contexts[s[2]].pend - contexts[s[2]].pstart = range_size /\ range_size \in Nat
    BY <1>1, <2>1, <2>3, Ranges
  <2>5. /\ contexts' \in [Ctx -> [pstart : Nat, pend : Nat, result : Nat]]
        /\ contexts'[s[2]].pstart = contexts[s[2]].pstart /\ contexts'[s[2]].pend = contexts[s[2]].pend
        /\ contexts'[s[2]].result = range_size
        /\ \A i \in Ctx : i # s[2] => contexts'[i] = contexts[i]
    <3>1. contexts' = [contexts EXCEPT ![s[2]].result = range_size]
      BY <1>7, <2>4 DEF worker_func
    <3> QED BY <1>1, <2>1, <2>4, <3>1
  <2>6. range_size' = range_size /\ ContextTypes'
    BY <1>1, <2>1, <2>5 DEF range_size, ContextTypes
  <2>7. RangesAreCut'
    <3> SUFFICES ASSUME NEW i \in Ctx
                 PROVE  /\ pc'[<<calls, i>>] # "none" =>
                              /\ contexts'[i].pstart = i * range_size
                              /\ contexts'[i].pend = i * range_size + range_size
                        /\ pc'[<<calls, i>>] \in {"start", "broadcast", "done"} =>
                              contexts'[i].result = range_size
      BY <2>1, <2>6 DEF RangesAreCut
    <3>1. CASE i = s[2]
      BY <2>3, <2>5, <3>1
    <3>2. CASE i # s[2]
      BY <2>1, <2>2, <2>5, <3>2 DEF SumInv, RangesAreCut
    <3> QED BY <3>1, <3>2
  <2>8. SumIsComplete'
    BY <2>1, <2>2 DEF SumInv, SumIsComplete
  <2> QED BY <2>6, <2>7, <2>8 DEF SumInv
<1>8. ASSUME NEW s \in Signaller, Signals(s) PROVE SumInv'
  <2>1. /\ UNCHANGED <<size, contexts, total, calls>>
        /\ pc[s] \in {"start", "broadcast"} /\ pc'[s] \in {"broadcast", "done"}
        /\ \A t \in Signaller : t # s => pc'[t] = pc[t]
        /\ pc'[main] \in {pc[main], "check"}
    BY <1>1, <1>8 DEF Signals, cdl_signal, Broadcasts, GoAndWake, AdderTypes, adderVars, Completed
  <2>2. \A i \in Ctx : calls # 0 =>
          \/ pc'[<<calls, i>>] = pc[<<calls, i>>]
          \/ {pc[<<calls, i>>], pc'[<<calls, i>>]} \subseteq {"start", "broadcast", "done"}
    BY <1>2, <2>1
  <2>3. SumIsComplete'
    BY <2>1 DEF SumInv, SumIsComplete
  <2> QED BY <2>1, <2>2, <2>3, NoItemRuns
<1>9. CASE WakesSpuriously
  <2>1. /\ UNCHANGED <<size, contexts, calls>> /\ pc'[main] = "check"
        /\ \A s \in Signaller : pc'[s] = pc[s]
    BY <1>1, <1>9 DEF WakesSpuriously, SpuriousWakeup, GoAndWake, AdderTypes, adderVars
  <2> QED BY <1>2, <2>1, NoItemRuns DEF SumIsComplete
<1>10. CASE UNCHANGED allVars
  <2>1. UNCHANGED <<size, contexts, calls, total, pc>>
    BY <1>10 DEF allVars, latchVars, adderVars
  <2> QED BY <2>1, NoItemRuns DEF SumInv, SumIsComplete
<1> QED BY <1>3, <1>4, <1>5, <1>6, <1>7, <1>8, <1>9, <1>10 DEF AdderNext, ItemStep, MainStep

(* par_adder returns the sum of all elements but the remainder of the       *)
(* division of the array, in whatever order its items run, for any size,    *)
(* any number of ranges and any number of calls in the same frame.          *)
THEOREM TheSumIsComplete == AddersSpec => []SumIsComplete
<1>1. AddersInit => AdderInv /\ SumInv
  BY AdderInit, SumInit DEF AddersInit
<1>2. (AdderInv /\ SumInv) /\ [AddersNext]_addersVars => (AdderInv /\ SumInv)'
  BY AdderStep, SumStep, StepsOfTheAdder
<1>3. AdderInv /\ SumInv => SumIsComplete
  BY DEF SumInv
<1> QED BY <1>1, <1>2, <1>3, PTL DEF AddersSpec
=============================================================================
