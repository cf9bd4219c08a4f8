------------------------ MODULE CyclicBarrier_proofs ------------------------
(***************************************************************************)
(* What holds of the barrier for every number of threads, of phases, and   *)
(* every width of the round counter, two values being enough.              *)
(***************************************************************************)
EXTENDS CyclicBarrier, FiniteSetTheorems, TLAPS

(* Threads of the current round, and those that have not noticed yet that   *)
(* theirs is over.                                                          *)
Arrived == {t \in Thread : pc[t] # "work" /\ r[t] = round}
Late(t) == pc[t] # "work" /\ r[t] # round

Serials == {t \in Thread : serial[t] /\ ~Late(t)}

BarrierTypes == TypeOK /\ arrived < parties

(* After g rounds: a thread that is late still has g-1 calls behind it, the *)
(* others g.  The counter of rounds is only compared, never used to count.  *)
AfterRounds(g) ==
    /\ g \in 0..Phases
    /\ \A t \in Thread : phase[t] = IF Late(t) THEN g - 1 ELSE g
    /\ arrived = Cardinality(Arrived)
    /\ g > 0 => Cardinality(Serials) = 1

BarrierInv == BarrierTypes /\ \E g \in 0..Phases : AfterRounds(g)

-----------------------------------------------------------------------------
(* Sets of threads are finite. *)
LEMMA ThreadsAreFinite ==
    /\ IsFiniteSet(Thread) /\ parties \in Nat \ {0}
    /\ IsFiniteSet(Arrived) /\ Cardinality(Arrived) \in Nat
    /\ IsFiniteSet(Arrived')
<1>1. IsFiniteSet(Thread) /\ Thread # {}
  BY ThreadAssumption
<1>2. Arrived \in SUBSET Thread /\ Arrived' \in SUBSET Thread
  BY DEF Arrived
<1> QED BY <1>1, <1>2, FS_Subset, FS_EmptySet, FS_CardinalityType DEF parties

(* Opening the next round changes the counter, because it has two values. *)
LEMMA RoundsDiffer ==
    ASSUME round \in 0..RoundMod-1
    PROVE  (round + 1) % RoundMod \in 0..RoundMod-1 /\ (round + 1) % RoundMod # round
<1>1. RoundMod \in Nat /\ RoundMod >= 2
  BY RoundAssumption
<1>2. CASE round + 1 < RoundMod
  <2>1. (round + 1) % RoundMod = round + 1
    BY <1>1, <1>2
  <2> QED BY <1>1, <1>2, <2>1
<1>3. CASE round + 1 = RoundMod
  <2>1. (round + 1) % RoundMod = 0
    BY <1>1, <1>3
  <2> QED BY <1>1, <1>3, <2>1
<1> QED BY <1>1, <1>2, <1>3

(* Before anybody arrives no round is over. *)
LEMMA BarrierInit == Init => BarrierInv
<1> SUFFICES ASSUME Init PROVE BarrierInv
  OBVIOUS
<1>1. Arrived = {} /\ \A t \in Thread : ~Late(t)
  BY DEF Init, Arrived, Late
<1>2. Cardinality(Arrived) = 0
  BY <1>1, FS_EmptySet
<1>3. BarrierTypes
  BY ThreadsAreFinite, RoundAssumption, PhasesAssumption DEF Init, BarrierTypes, TypeOK
<1>4. AfterRounds(0)
  BY <1>1, <1>2, PhasesAssumption DEF Init, AfterRounds
<1> QED BY <1>3, <1>4, PhasesAssumption DEF BarrierInv

(* A thread that arrives before the last one joins the round. *)
LEMMA ArrivalStep ==
    ASSUME BarrierTypes, NEW g \in 0..Phases, AfterRounds(g), NEW t \in Thread,
           barrier_await(t), NotLastArrives(t)
    PROVE  BarrierTypes' /\ AfterRounds(g)'
<1> USE DEF barrier_await, NotLastArrives
<1>1. TypeOK /\ arrived < parties /\ parties \in Nat /\ parties' = parties
  BY ThreadsAreFinite DEF BarrierTypes, parties
<1>2. /\ pc'[t] = "wait" /\ r'[t] = round /\ round' = round
      /\ \A u \in Thread : u # t => pc'[u] = pc[u] /\ r'[u] = r[u]
  BY <1>1 DEF TypeOK
<1>3. BarrierTypes'
  BY <1>1, <1>2 DEF BarrierTypes, TypeOK
<1>4. \A u \in Thread : Late(u)' <=> Late(u)
  BY <1>2 DEF Late
<1>5. Arrived' = Arrived \cup {t} /\ t \notin Arrived
  BY <1>2 DEF Arrived
<1>6. Cardinality(Arrived') = Cardinality(Arrived) + 1
  BY <1>5, ThreadsAreFinite, FS_AddElement
<1>7. Serials' = Serials
  BY <1>4 DEF Serials
<1> QED BY <1>3, <1>4, <1>6, <1>7 DEF AfterRounds

(* The last thread finds all others in its round and leaves them late. *)
LEMMA LastStep ==
    ASSUME BarrierTypes, NEW g \in 0..Phases, AfterRounds(g), NEW t \in Thread,
           barrier_await(t), LastArrives(t)
    PROVE  BarrierTypes' /\ g + 1 \in 0..Phases /\ AfterRounds(g+1)'
<1> USE DEF barrier_await, LastArrives
<1>1. TypeOK /\ parties \in Nat \ {0} /\ g \in Nat /\ Phases \in Nat
  BY ThreadsAreFinite, PhasesAssumption DEF BarrierTypes
<1>2. round \in 0..RoundMod-1 /\ round' \in 0..RoundMod-1 /\ round' # round
  BY <1>1, RoundsDiffer DEF TypeOK
<1>3. /\ pc'[t] = "work"
      /\ \A u \in Thread : u # t => r'[u] = r[u] /\ (pc[u] # "work" <=> pc'[u] # "work")
  BY <1>1 DEF TypeOK, AllArrived
<1>4. \A u \in Thread : u # t => u \in Arrived
  <2>1. t \notin Arrived /\ Arrived \cup {t} \in SUBSET Thread
    BY DEF Arrived
  <2>2. Cardinality(Arrived \cup {t}) = parties
    BY <2>1, ThreadsAreFinite, FS_AddElement DEF AfterRounds
  <2>3. Arrived \cup {t} = Thread
    BY <2>1, <2>2, ThreadsAreFinite, FS_Subset DEF parties
  <2> QED BY <2>3
<1>5. g + 1 \in 0..Phases /\ phase[t] = g
  BY <1>1 DEF AfterRounds, Late
<1>6. BarrierTypes'
  <2>1. r' \in [Thread -> 0..RoundMod-1] /\ serial' \in [Thread -> BOOLEAN]
        /\ phase' \in [Thread -> 0..Phases]
    BY <1>1, <1>2, <1>5 DEF TypeOK
  <2>2. pc' \in [Thread -> {"work", "wait", "check"}]
    BY <1>1 DEF TypeOK
  <2> QED BY <1>1, <1>2, <2>1, <2>2 DEF BarrierTypes, TypeOK, parties
<1>7. \A u \in Thread : u # t => Late(u)' /\ phase'[u] = g
  BY <1>1, <1>2, <1>3, <1>4 DEF Late, Arrived, AfterRounds, TypeOK
<1>8. ~Late(t)' /\ phase'[t] = g + 1 /\ serial'[t] = TRUE
  BY <1>1, <1>3, <1>5 DEF Late, TypeOK
<1>9. Arrived' = {} /\ Serials' = {t}
  BY <1>7, <1>8, <1>3 DEF Arrived, Late, Serials
<1>10. Cardinality(Arrived') = 0 /\ Cardinality(Serials') = 1
  BY <1>9, FS_EmptySet, FS_Singleton
<1>11. \A u \in Thread : phase'[u] = IF Late(u)' THEN (g + 1) - 1 ELSE g + 1
  BY <1>1, <1>7, <1>8
<1> QED BY <1>5, <1>6, <1>10, <1>11 DEF AfterRounds

(* A thread whose wait returned goes back to it, or is late no more. *)
LEMMA RecheckStep ==
    ASSUME BarrierTypes, NEW g \in 0..Phases, AfterRounds(g), NEW t \in Thread, Rechecks(t)
    PROVE  BarrierTypes' /\ AfterRounds(g)'
<1> USE DEF Rechecks
<1>1. TypeOK /\ g \in Nat /\ Phases \in Nat /\ parties' = parties
  BY PhasesAssumption DEF BarrierTypes, parties
<1>2. \A u \in Thread : u # t => pc'[u] = pc[u] /\ phase'[u] = phase[u] /\ serial'[u] = serial[u]
  BY <1>1 DEF TypeOK
<1>3. round' = round /\ r' = r /\ arrived' = arrived
  OBVIOUS
<1>4. CASE round = r[t]
  <2>1. pc'[t] = "wait" /\ phase' = phase /\ serial' = serial
    BY <1>1, <1>4 DEF TypeOK
  <2>2. \A u \in Thread : Late(u)' <=> Late(u)
    BY <1>2, <1>3, <1>4, <2>1 DEF Late
  <2>3. Arrived' = Arrived /\ Serials' = Serials
    BY <1>2, <1>3, <2>1, <2>2 DEF Arrived, Serials
  <2>4. BarrierTypes'
    BY <1>1, <1>3, <1>4, <2>1 DEF BarrierTypes, TypeOK
  <2> QED BY <1>3, <2>1, <2>2, <2>3, <2>4 DEF AfterRounds
<1>5. CASE round # r[t]
  <2>1. phase[t] = g - 1 /\ t \notin Arrived /\ t \notin Serials
    BY <1>5 DEF AfterRounds, Late, Arrived, Serials
  <2>2. pc'[t] = "work" /\ phase'[t] = g /\ serial'[t] = FALSE
    BY <1>1, <1>5, <2>1 DEF TypeOK
  <2>3. \A u \in Thread : Late(u)' <=> (u # t /\ Late(u))
    BY <1>2, <1>3, <2>2 DEF Late
  <2>4. Arrived' = Arrived /\ Serials' = Serials
    BY <1>2, <1>3, <2>1, <2>2, <2>3 DEF Arrived, Serials
  <2>5. BarrierTypes'
    <3>1. g \in 0..Phases
      OBVIOUS
    <3> QED BY <1>1, <1>3, <1>5, <2>1, <2>2, <3>1 DEF BarrierTypes, TypeOK
  <2>6. \A u \in Thread : phase'[u] = IF Late(u)' THEN g - 1 ELSE g
    BY <1>2, <2>2, <2>3 DEF AfterRounds
  <2> QED BY <1>3, <2>4, <2>5, <2>6 DEF AfterRounds
<1> QED BY <1>4, <1>5

(* A spurious wake-up tells nobody anything. *)
LEMMA SpuriousStep ==
    ASSUME BarrierTypes, NEW g \in 0..Phases, AfterRounds(g), NEW t \in Thread,
           SpuriousWakeup(t)
    PROVE  BarrierTypes' /\ AfterRounds(g)'
<1> USE DEF SpuriousWakeup
<1>1. TypeOK /\ parties' = parties
  BY DEF BarrierTypes, parties
<1>2. \A u \in Thread : pc'[u] # "work" <=> pc[u] # "work"
  BY <1>1 DEF TypeOK
<1>3. \A u \in Thread : Late(u)' <=> Late(u)
  BY <1>2 DEF Late
<1>4. Arrived' = Arrived /\ Serials' = Serials
  BY <1>2, <1>3 DEF Arrived, Serials
<1>5. BarrierTypes'
  BY <1>1 DEF BarrierTypes, TypeOK
<1> QED BY <1>3, <1>4, <1>5 DEF AfterRounds

-----------------------------------------------------------------------------
(* The invariant holds after any number of rounds. *)
THEOREM BarrierInvariant == Spec => []BarrierInv
<1>1. BarrierInv /\ [Next]_vars => BarrierInv'
  <2> SUFFICES ASSUME BarrierInv, [Next]_vars PROVE BarrierInv'
    OBVIOUS
  <2>1. BarrierTypes
    BY DEF BarrierInv
  <2>2. PICK g \in 0..Phases : AfterRounds(g)
    BY DEF BarrierInv
  <2>3. ASSUME NEW t \in Thread, barrier_await(t) PROVE BarrierInv'
    BY <2>1, <2>2, <2>3, ArrivalStep, LastStep DEF barrier_await, BarrierInv
  <2>4. ASSUME NEW t \in Thread, Rechecks(t) PROVE BarrierInv'
    BY <2>1, <2>2, <2>4, RecheckStep DEF BarrierInv
  <2>5. ASSUME NEW t \in Thread, SpuriousWakeup(t) PROVE BarrierInv'
    BY <2>1, <2>2, <2>5, SpuriousStep DEF BarrierInv
  <2>6. CASE UNCHANGED vars
    BY <2>1, <2>2, <2>6 DEF vars, BarrierInv, BarrierTypes, TypeOK, AfterRounds, Arrived, Late,
                            Serials
  <2> QED BY <2>3, <2>4, <2>5, <2>6 DEF Next
<1> QED BY <1>1, BarrierInit, PTL DEF Spec

(* The types of the barrier: never more arrivals than parties. *)
THEOREM BarrierIsTyped == Spec => []TypeOK
<1>1. BarrierInv => TypeOK
  BY DEF BarrierInv, BarrierTypes
<1> QED BY <1>1, BarrierInvariant, PTL

(* "after this point, all three threads have completed", for any number of  *)
(* threads and phases, whatever wakes them.                                 *)
THEOREM BarrierHolds == Spec => []NobodyPassesEarly
<1>1. BarrierInv => NobodyPassesEarly
  <2> SUFFICES ASSUME BarrierInv, NEW t \in Thread, NEW u \in Thread
               PROVE  phase[t] <= Arrivals(u)
    BY DEF NobodyPassesEarly
  <2>1. PICK g \in 0..Phases : AfterRounds(g)
    BY DEF BarrierInv
  <2>2. g \in Nat /\ phase[t] \in Int /\ phase[t] <= g /\ Arrivals(u) >= g
    BY <2>1, PhasesAssumption DEF AfterRounds, Late, Arrivals
  <2>3. Arrivals(u) \in Int
    BY <2>1, PhasesAssumption DEF AfterRounds, Late, Arrivals
  <2> QED BY <2>2, <2>3
<1> QED BY <1>1, BarrierInvariant, PTL

(* Exactly one call of each round returned SERIAL_THREAD. *)
THEOREM OneThreadIsSerial == Spec => []OneSerialThread
<1>1. BarrierInv => OneSerialThread
  <2> SUFFICES ASSUME BarrierInv, NEW n \in 1..Phases,
                      \A t \in Thread : pc[t] = "work" /\ phase[t] = n
               PROVE  Cardinality({t \in Thread : serial[t]}) = 1
    BY DEF OneSerialThread
  <2>1. PICK g \in 0..Phases : AfterRounds(g)
    BY DEF BarrierInv
  <2>2. \A t \in Thread : ~Late(t) /\ phase[t] = g
    BY <2>1 DEF AfterRounds, Late
  <2>3. g > 0
    BY <2>2, ThreadAssumption, PhasesAssumption
  <2>4. Serials = {t \in Thread : serial[t]}
    BY <2>2 DEF Serials
  <2> QED BY <2>1, <2>3, <2>4 DEF AfterRounds
<1> QED BY <1>1, BarrierInvariant, PTL
=============================================================================
