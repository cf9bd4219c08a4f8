-------------------------- MODULE UPrograms_proofs --------------------------
(***************************************************************************)
(* What holds of the programs of module UPrograms, for every set of        *)
(* threads and every program: the bounded queue, the threads that can be   *)
(* joined, the lists of list.h, and the machine of the first user threads, *)
(* in this order.                                                          *)
(***************************************************************************)
EXTENDS UPrograms, ListLinks, SequencesExt, TLAPS, SequenceTheorems, FiniteSetTheorems,
        WellFoundedInduction

UProgramsNext == QueueStep \/ JoinStep \/ MachineStep \/ ListStep

-----------------------------------------------------------------------------
(* Induction on the natural numbers, over a set rather than a predicate. *)
LessThan == {ss \in Nat \X Nat : ss[1] < ss[2]}

LEMMA LessThanIsWellFounded == IsWellFoundedOn(LessThan, Nat)
BY NatLessThanWellFounded, Zenon DEF OpToRel, LessThan

LEMMA SetInduction ==
    ASSUME NEW S, 0 \in S, \A n \in Nat : n \in S => n+1 \in S
    PROVE  Nat \subseteq S
<1> DEFINE T == Nat \ S
<1> SUFFICES ASSUME T # {} PROVE FALSE
  OBVIOUS
<1>1. PICK n \in T : \A m \in T : ~(<<m, n>> \in LessThan)
  <2> T \subseteq Nat
    OBVIOUS
  <2> HIDE DEF T
  <2> QED BY LessThanIsWellFounded, WFMin
<1>2. n # 0 /\ n \in Nat
  OBVIOUS
<1>3. n-1 \in Nat /\ n-1 < n /\ (n-1)+1 = n
  BY <1>2
<1>4. <<n-1, n>> \in LessThan
  BY <1>2, <1>3 DEF LessThan
<1> QED BY <1>1, <1>3, <1>4

(* f is the walk of m steps along the links l, from h in the direction d. *)
IsWalk(l, h, d, m, f) == f = [n \in 0..m |-> IF n = 0 THEN h ELSE l[f[n-1]][d]]

(* There is a walk of any number of steps. *)
LEMMA WalkExists ==
    ASSUME NEW l, NEW h, NEW d
    PROVE  \A m \in Nat : \E f : IsWalk(l, h, d, m, f)
<1> DEFINE S == {m \in Nat : \E f : f = [n \in 0..m |-> IF n = 0 THEN h ELSE l[f[n-1]][d]]}
<1>1. 0 \in S
  <2> DEFINE f == [n \in 0..0 |-> h]
  <2> f = [n \in 0..0 |-> IF n = 0 THEN h ELSE l[f[n-1]][d]]
    OBVIOUS
  <2> QED OBVIOUS
<1>2. ASSUME NEW m \in Nat, m \in S PROVE m+1 \in S
  <2>1. PICK f : f = [n \in 0..m |-> IF n = 0 THEN h ELSE l[f[n-1]][d]]
    BY <1>2
  <2> DEFINE g == [n \in 0..m+1 |-> IF n \in 0..m THEN f[n] ELSE l[f[m]][d]]
  <2>2. ASSUME NEW n \in 0..m+1 PROVE g[n] = IF n = 0 THEN h ELSE l[g[n-1]][d]
    <3>1. CASE n = 0
      BY <2>1, <3>1
    <3>2. CASE n \in 1..m
      <4>1. n \in 0..m /\ n-1 \in 0..m /\ n # 0 /\ n-1 \in 0..m+1
        BY <3>2
      <4>2. f[n] = l[f[n-1]][d]
        BY <2>1, <4>1
      <4> QED BY <4>1, <4>2
    <3>3. CASE n = m+1
      <4>1. n \notin 0..m /\ n-1 = m /\ n # 0 /\ m \in 0..m+1 /\ m \in 0..m
        BY <3>3
      <4> QED BY <4>1
    <3> QED BY <3>1, <3>2, <3>3
  <2>3. g = [n \in 0..m+1 |-> IF n = 0 THEN h ELSE l[g[n-1]][d]]
    BY <2>2
  <2> HIDE DEF g
  <2> QED BY <2>3
<1>3. Nat \subseteq S
  <2> HIDE DEF S
  <2> QED BY <1>1, <1>2, SetInduction
<1> QED BY <1>3 DEF IsWalk

-----------------------------------------------------------------------------
(* The i-th entry of the circle that h and q make; h closes it. *)
At(h, q, i) == IF i \in 1..Len(q) THEN q[i] ELSE h

(* The entries of l read q from h on in the direction d. *)
Reads(l, h, q, d) ==
    /\ IsInjective(q) /\ h \notin Range(q)
    /\ {h} \cup Range(q) \subseteq DOMAIN l
    /\ \A i \in 0..Len(q) : l[At(h, q, i)][d] = At(h, q, i+1)

LEMMA WalkReads ==
    ASSUME NEW l, NEW h, NEW d, NEW S, NEW q \in Seq(S), IsFiniteSet(DOMAIN l), Reads(l, h, q, d)
    PROVE  Walk(l, h, d) = q
<1> DEFINE size == Cardinality(DOMAIN l)
           at[n \in 0..size] == IF n = 0 THEN h ELSE l[at[n-1]][d]
           ends == {n \in 0..size-1 : at[n+1] = h /\ \A m \in 1..n : at[m] # h}
           len == IF ends = {} THEN size ELSE CHOOSE n \in ends : TRUE
           k == Len(q)
<1>1. Walk(l, h, d) = [n \in 1..len |-> at[n]]
  BY DEF Walk
<1>2. k \in Nat /\ DOMAIN q = 1..k /\ size \in Nat
  BY LenProperties, FS_CardinalityType
<1>3. k+1 <= size
  <2> DEFINE f == [i \in 0..k |-> At(h, q, i)]
  <2>1. f \in [0..k -> DOMAIN l]
    BY <1>2 DEF Reads, At, Range
  <2>2. \A i \in 0..k, j \in 0..k : f[i] = f[j] => i = j
    BY <1>2, SMTT(40) DEF Reads, At, Range, IsInjective
  <2>3. f \in Injection(0..k, DOMAIN l)
    BY <2>1, <2>2 DEF Injection, IsInjective
  <2>4. IsFiniteSet(0..k) /\ Cardinality(0..k) = k+1
    BY <1>2, FS_Interval
  <2> HIDE DEF f
  <2>5. Cardinality(0..k) <= Cardinality(DOMAIN l)
    BY <2>3, <2>4, FS_Injection, FS_CardinalityType
  <2> QED BY <2>4, <2>5
<1> HIDE DEF size
<1>4. at = [n \in 0..size |-> IF n = 0 THEN h ELSE l[at[n-1]][d]]
  <2>1. \E f : IsWalk(l, h, d, size, f)
    BY <1>2, WalkExists
  <2>2. \E f : f = [n \in 0..size |-> IF n = 0 THEN h ELSE l[f[n-1]][d]]
    BY <2>1, Zenon DEF IsWalk
  <2> QED BY <2>2, Zenon DEF at
<1> HIDE DEF at
<1>5. \A n \in 0..k+1 : at[n] = At(h, q, n)
  <2> DEFINE T == {n \in Nat : n <= k+1 => at[n] = At(h, q, n)}
  <2>1. 0 \in T
    BY <1>2, <1>4 DEF At
  <2>2. ASSUME NEW n \in Nat, n \in T PROVE n+1 \in T
    <3> SUFFICES ASSUME n+1 <= k+1 PROVE at[n+1] = At(h, q, n+1)
      OBVIOUS
    <3>1. at[n] = At(h, q, n) /\ n \in 0..k
      BY <1>2, <2>2
    <3>2. n+1 \in 0..size /\ n+1 # 0 /\ (n+1)-1 = n
      BY <1>2, <1>3
    <3>3. at[n+1] = l[at[n]][d]
      BY <1>4, <3>2
    <3> QED BY <3>1, <3>3 DEF Reads
  <2>3. Nat \subseteq T
    <3> HIDE DEF T
    <3> QED BY <2>1, <2>2, SetInduction
  <2> QED BY <1>2, <2>3
<1>6. at[k+1] = h /\ \A n \in 1..k : at[n] = q[n] /\ at[n] # h
  BY <1>2, <1>5 DEF At, Reads, Range
<1>7. ends = {k}
  <2>1. k \in ends
    BY <1>2, <1>3, <1>6
  <2>2. ASSUME NEW n \in ends PROVE n = k
    <3>1. n \in Nat /\ at[n+1] = h /\ \A m \in 1..n : at[m] # h
      BY <1>2
    <3>2. CASE n < k
      <4> n+1 \in 1..k
        BY <1>2, <3>1, <3>2
      <4> QED BY <1>6, <3>1
    <3>3. CASE n > k
      <4> k+1 \in 1..n
        BY <1>2, <3>1, <3>3
      <4> QED BY <1>6, <3>1
    <3> HIDE DEF k, ends
    <3> QED BY <1>2, <3>1, <3>2, <3>3
  <2> QED BY <2>1, <2>2
<1>8. len = k
  BY <1>7
<1>9. q = [n \in 1..k |-> q[n]] /\ \A n \in 1..k : at[n] = q[n]
  BY <1>2, <1>6
<1> HIDE DEF len, k
<1>10. [n \in 1..k |-> at[n]] = [n \in 1..k |-> q[n]]
  BY <1>9
<1> QED BY <1>1, <1>8, <1>9, <1>10

-----------------------------------------------------------------------------
(* l links the entries of q, after h and in this order, to a circle. *)
Circle(l, h, q) ==
    /\ IsInjective(q) /\ h \notin Range(q)
    /\ {h} \cup Range(q) \subseteq DOMAIN l
    /\ \A i \in 0..Len(q) : /\ l[At(h, q, i)].flink = At(h, q, i+1)
                            /\ l[At(h, q, i+1)].blink = At(h, q, i)

Links(N, V) == [N -> [flink : V, blink : V]]

(* l2 is l with e linked in between p and s. *)
LinkedIn(l, l2, p, e, s) ==
    \A x \in DOMAIN l :
       /\ l2[x].flink = IF x = e THEN s ELSE IF x = p THEN e ELSE l[x].flink
       /\ l2[x].blink = IF x = e THEN p ELSE IF x = s THEN e ELSE l[x].blink

(* l2 is l with what is between p and s taken out. *)
LinkedOut(l, l2, p, s) ==
    \A x \in DOMAIN l :
       /\ l2[x].flink = IF x = p THEN s ELSE l[x].flink
       /\ l2[x].blink = IF x = s THEN p ELSE l[x].blink

(* r is q with e inserted after position n. *)
IsInsertion(q, r, n, e) ==
    /\ n \in 0..Len(q) /\ Len(r) = Len(q) + 1
    /\ \A i \in 1..Len(r) : r[i] = IF i <= n THEN q[i] ELSE IF i = n+1 THEN e ELSE q[i-1]

LEMMA AtIsInjective ==
    ASSUME NEW h, NEW S, NEW q \in Seq(S), IsInjective(q), h \notin Range(q)
    PROVE  /\ Len(q) \in Nat /\ At(h, q, 0) = h /\ At(h, q, Len(q)+1) = h
           /\ \A i \in 1..Len(q) : At(h, q, i) = q[i] /\ q[i] \in Range(q) /\ q[i] # h
           /\ \A i, j \in 0..Len(q) : At(h, q, i) = At(h, q, j) => i = j
           /\ \A i, j \in 1..Len(q)+1 : At(h, q, i) = At(h, q, j) => i = j
<1>1. Len(q) \in Nat /\ DOMAIN q = 1..Len(q)
  BY LenProperties
<1>2. At(h, q, 0) = h /\ At(h, q, Len(q)+1) = h
  BY <1>1 DEF At
<1>3. \A i \in 1..Len(q) : At(h, q, i) = q[i] /\ q[i] \in Range(q) /\ q[i] # h
  BY <1>1 DEF At, Range
<1>4. \A i, j \in 1..Len(q) : q[i] = q[j] => i = j
  BY <1>1 DEF IsInjective
<1>5. /\ \A i \in 0..Len(q) : i = 0 \/ i \in 1..Len(q)
      /\ \A i \in 1..Len(q)+1 : i = Len(q)+1 \/ i \in 1..Len(q)
  BY <1>1
<1> QED BY <1>1, <1>2, <1>3, <1>4, <1>5

LEMMA AtInInsertion ==
    ASSUME NEW h, NEW S, NEW q \in Seq(S), NEW T, NEW r \in Seq(T), NEW n, NEW e,
           IsInsertion(q, r, n, e)
    PROVE  \A i \in 0..Len(q)+2 :
              At(h, r, i) = IF i <= n THEN At(h, q, i) ELSE IF i = n+1 THEN e ELSE At(h, q, i-1)
<1>1. Len(q) \in Nat /\ n \in Nat /\ n <= Len(q) /\ Len(r) = Len(q) + 1
  BY LenProperties DEF IsInsertion
<1> SUFFICES ASSUME NEW i \in 0..Len(q)+2
             PROVE  At(h, r, i) = IF i <= n THEN At(h, q, i)
                                  ELSE IF i = n+1 THEN e ELSE At(h, q, i-1)
  OBVIOUS
<1>2. CASE i = 0
  BY <1>1, <1>2 DEF At
<1>3. CASE i = Len(q)+2
  BY <1>1, <1>3 DEF At
<1>4. CASE i \in 1..Len(r)
  <2>1. i \in Nat /\ (i <= n => i \in 1..Len(q)) /\ (i > n+1 => i-1 \in 1..Len(q))
    BY <1>1, <1>4
  <2> QED BY <1>1, <1>4, <2>1 DEF At, IsInsertion
<1> QED BY <1>1, <1>2, <1>3, <1>4

LEMMA InsertionIsInjective ==
    ASSUME NEW h, NEW S, NEW q \in Seq(S), NEW T, NEW r \in Seq(T), NEW n, NEW e,
           IsInsertion(q, r, n, e)
    PROVE  /\ Range(r) = Range(q) \cup {e}
           /\ IsInjective(q) /\ e \notin Range(q) => IsInjective(r)
           /\ IsInjective(r) => IsInjective(q) /\ e \notin Range(q)
<1>1. /\ Len(q) \in Nat /\ n \in Nat /\ n <= Len(q) /\ Len(r) = Len(q) + 1
      /\ DOMAIN q = 1..Len(q) /\ DOMAIN r = 1..Len(q)+1
  BY LenProperties DEF IsInsertion
<1>2. \A i \in 1..Len(q) : i <= n => i \in 1..Len(r) /\ r[i] = q[i]
  BY <1>1 DEF IsInsertion
<1>3. \A i \in 1..Len(q) : i > n => i+1 \in 1..Len(r) /\ r[i+1] = q[i]
  BY <1>1 DEF IsInsertion
<1>4. n+1 \in 1..Len(r) /\ r[n+1] = e
  BY <1>1 DEF IsInsertion
<1>5. \A j \in 1..Len(r) : \/ j <= n /\ j \in 1..Len(q) /\ r[j] = q[j]
                           \/ j = n+1
                           \/ j > n+1 /\ j-1 \in 1..Len(q) /\ j-1 > n /\ r[j] = q[j-1]
  BY <1>1 DEF IsInsertion
<1>6. Range(r) = Range(q) \cup {e}
  <2>1. \A x \in Range(r) : x \in Range(q) \cup {e}
    BY <1>1, <1>4, <1>5 DEF Range
  <2>2. \A x \in Range(q) : x \in Range(r)
    BY <1>1, <1>2, <1>3 DEF Range
  <2>3. e \in Range(r)
    BY <1>1, <1>4 DEF Range
  <2> QED BY <2>1, <2>2, <2>3
<1>7. ASSUME IsInjective(q), e \notin Range(q) PROVE IsInjective(r)
  <2>1. /\ \A i, j \in 1..Len(q) : q[i] = q[j] => i = j
        /\ \A i \in 1..Len(q) : q[i] # e
    BY <1>1, <1>7 DEF IsInjective, Range
  <2>2. ASSUME NEW i \in 1..Len(r), NEW j \in 1..Len(r), r[i] = r[j] PROVE i = j
    BY <1>1, <1>4, <1>5, <2>1, <2>2
  <2> QED BY <1>1, <2>2 DEF IsInjective
<1>8. ASSUME IsInjective(r) PROVE IsInjective(q) /\ e \notin Range(q)
  <2>1. \A i, j \in 1..Len(r) : r[i] = r[j] => i = j
    BY <1>1, <1>8 DEF IsInjective
  <2>2. ASSUME NEW i \in 1..Len(q), NEW j \in 1..Len(q), q[i] = q[j] PROVE i = j
    BY <1>1, <1>2, <1>3, <2>1, <2>2
  <2>3. ASSUME NEW i \in 1..Len(q), q[i] = e PROVE FALSE
    BY <1>1, <1>2, <1>3, <1>4, <2>1, <2>3
  <2> QED BY <1>1, <2>2, <2>3 DEF IsInjective, Range
<1> QED BY <1>6, <1>7, <1>8

(* An entry that is not in the circle can be linked in anywhere. *)
LEMMA CircleGrows ==
    ASSUME NEW l, NEW l2, DOMAIN l2 = DOMAIN l, NEW h,
           NEW S, NEW q \in Seq(S), NEW T, NEW r \in Seq(T), NEW n, NEW e \in DOMAIN l,
           Circle(l, h, q), IsInsertion(q, r, n, e), e \notin Range(q), e # h,
           LinkedIn(l, l2, At(h, q, n), e, At(h, q, n+1))
    PROVE  Circle(l2, h, r)
<1>1. IsInjective(r) /\ h \notin Range(r) /\ {h} \cup Range(r) \subseteq DOMAIN l2
  BY InsertionIsInjective DEF Circle
<1>2. /\ Len(q) \in Nat /\ n \in 0..Len(q) /\ Len(r) = Len(q) + 1
      /\ \A i, j \in 0..Len(q) : At(h, q, i) = At(h, q, j) => i = j
      /\ \A i, j \in 1..Len(q)+1 : At(h, q, i) = At(h, q, j) => i = j
  BY AtIsInjective DEF Circle, IsInsertion
<1>3. \A i \in 0..Len(q)+1 : At(h, q, i) \in DOMAIN l /\ At(h, q, i) # e
  <2>1. \A i \in 0..Len(q)+1 : At(h, q, i) \in {h} \cup Range(q)
    BY AtIsInjective, <1>2 DEF At, Circle
  <2> QED BY <2>1 DEF Circle
<1>4. \A i \in 0..Len(q) : /\ l[At(h, q, i)].flink = At(h, q, i+1)
                           /\ l[At(h, q, i+1)].blink = At(h, q, i)
  BY DEF Circle
<1>5. \A i \in 0..Len(q)+2 :
        At(h, r, i) = IF i <= n THEN At(h, q, i) ELSE IF i = n+1 THEN e ELSE At(h, q, i-1)
  BY AtInInsertion
<1>6. /\ l2[At(h, q, n)].flink = e /\ l2[e].flink = At(h, q, n+1)
      /\ \A x \in DOMAIN l : x # e /\ x # At(h, q, n) => l2[x].flink = l[x].flink
      /\ l2[At(h, q, n+1)].blink = e /\ l2[e].blink = At(h, q, n)
      /\ \A x \in DOMAIN l : x # e /\ x # At(h, q, n+1) => l2[x].blink = l[x].blink
  <2>1. n \in 0..Len(q)+1 /\ n+1 \in 0..Len(q)+1
    BY <1>2
  <2> QED BY <1>3, <2>1 DEF LinkedIn
<1>7. ASSUME NEW i \in 0..Len(r)
      PROVE  l2[At(h, r, i)].flink = At(h, r, i+1) /\ l2[At(h, r, i+1)].blink = At(h, r, i)
  <2>1. CASE i < n
    <3>1. At(h, r, i) = At(h, q, i) /\ At(h, r, i+1) = At(h, q, i+1)
      BY <1>2, <1>5, <2>1
    <3>2. At(h, q, i) # At(h, q, n) /\ At(h, q, i+1) # At(h, q, n+1)
      BY <1>2, <2>1
    <3>3. i \in 0..Len(q) /\ i \in 0..Len(q)+1 /\ i+1 \in 0..Len(q)+1
      BY <1>2, <2>1
    <3> QED BY <1>3, <1>4, <1>6, <3>1, <3>2, <3>3
  <2>2. CASE i = n
    <3>1. At(h, r, i) = At(h, q, n) /\ At(h, r, i+1) = e
      BY <1>2, <1>5, <2>2
    <3> QED BY <1>6, <3>1
  <2>3. CASE i = n+1
    <3>1. At(h, r, i) = e /\ At(h, r, i+1) = At(h, q, n+1)
      BY <1>2, <1>5, <2>3
    <3> QED BY <1>6, <3>1
  <2>4. CASE i > n+1
    <3>1. At(h, r, i) = At(h, q, i-1) /\ At(h, r, i+1) = At(h, q, i)
      BY <1>2, <1>5, <2>4
    <3>2. At(h, q, i-1) # At(h, q, n) /\ At(h, q, i) # At(h, q, n+1)
      BY <1>2, <2>4
    <3>3. i-1 \in 0..Len(q) /\ i-1 \in 0..Len(q)+1 /\ i \in 0..Len(q)+1 /\ (i-1)+1 = i
      BY <1>2, <2>4
    <3> QED BY <1>3, <1>4, <1>6, <3>1, <3>2, <3>3
  <2> QED BY <1>2, <2>1, <2>2, <2>3, <2>4
<1> QED BY <1>1, <1>7 DEF Circle

(* Any entry of the circle can be taken out. *)
LEMMA CircleShrinks ==
    ASSUME NEW l, NEW l2, DOMAIN l2 = DOMAIN l, NEW h,
           NEW S, NEW q \in Seq(S), NEW T, NEW r \in Seq(T), NEW n, NEW e,
           Circle(l, h, r), IsInsertion(q, r, n, e),
           LinkedOut(l, l2, At(h, q, n), At(h, q, n+1))
    PROVE  Circle(l2, h, q)
<1>1. /\ IsInjective(q) /\ h \notin Range(q) /\ {h} \cup Range(q) \subseteq DOMAIN l2
      /\ e \notin Range(q) /\ e # h
  BY InsertionIsInjective DEF Circle
<1>2. /\ Len(q) \in Nat /\ n \in 0..Len(q) /\ Len(r) = Len(q) + 1
      /\ \A i, j \in 0..Len(q) : At(h, q, i) = At(h, q, j) => i = j
      /\ \A i, j \in 1..Len(q)+1 : At(h, q, i) = At(h, q, j) => i = j
  BY <1>1, AtIsInjective DEF IsInsertion
<1>3. \A i \in 0..Len(q)+1 : At(h, q, i) \in DOMAIN l
  <2>1. \A i \in 0..Len(q)+1 : At(h, q, i) \in {h} \cup Range(q)
    BY <1>1, AtIsInjective, <1>2 DEF At
  <2> QED BY <1>1, <2>1
<1>4. \A i \in 0..Len(r) : /\ l[At(h, r, i)].flink = At(h, r, i+1)
                           /\ l[At(h, r, i+1)].blink = At(h, r, i)
  BY DEF Circle
<1>5. \A i \in 0..Len(q)+2 :
        At(h, r, i) = IF i <= n THEN At(h, q, i) ELSE IF i = n+1 THEN e ELSE At(h, q, i-1)
  BY AtInInsertion
<1>6. /\ l2[At(h, q, n)].flink = At(h, q, n+1) /\ l2[At(h, q, n+1)].blink = At(h, q, n)
      /\ \A x \in DOMAIN l : x # At(h, q, n) => l2[x].flink = l[x].flink
      /\ \A x \in DOMAIN l : x # At(h, q, n+1) => l2[x].blink = l[x].blink
  <2>1. n \in 0..Len(q)+1 /\ n+1 \in 0..Len(q)+1
    BY <1>2
  <2> QED BY <1>3, <2>1 DEF LinkedOut
<1>7. ASSUME NEW i \in 0..Len(q)
      PROVE  l2[At(h, q, i)].flink = At(h, q, i+1) /\ l2[At(h, q, i+1)].blink = At(h, q, i)
  <2>1. i \in 0..Len(q)+1 /\ i+1 \in 0..Len(q)+1
    BY <1>2
  <2>2. CASE i < n
    <3>1. At(h, r, i) = At(h, q, i) /\ At(h, r, i+1) = At(h, q, i+1) /\ i \in 0..Len(r)
      BY <1>2, <1>5, <2>2
    <3>2. At(h, q, i) # At(h, q, n) /\ At(h, q, i+1) # At(h, q, n+1)
      BY <1>2, <2>2
    <3> QED BY <1>3, <1>4, <1>6, <2>1, <3>1, <3>2
  <2>3. CASE i = n
    BY <1>6, <2>3
  <2>4. CASE i > n
    <3> DEFINE j == i+1
    <3>0. /\ j \in 0..Len(q)+2 /\ j+1 \in 0..Len(q)+2 /\ j \in 0..Len(r)
          /\ j > n+1 /\ j-1 = i /\ (j+1)-1 = i+1
      BY <1>2, <2>4
    <3>1. /\ At(h, r, j) = At(h, q, i) /\ At(h, r, j+1) = At(h, q, i+1)
          /\ j \in 0..Len(r)
      <4> HIDE DEF j
      <4> QED BY <1>2, <1>5, <3>0
    <3>2. At(h, q, i) # At(h, q, n) /\ At(h, q, i+1) # At(h, q, n+1)
      BY <1>2, <2>4
    <3> QED BY <1>3, <1>4, <1>6, <2>1, <3>1, <3>2
  <2> QED BY <1>2, <2>2, <2>3, <2>4
<1> QED BY <1>1, <1>7 DEF Circle

(* Who reads the links of a circle gets its sequence, forwards and backwards. *)
LEMMA CircleIsRead ==
    ASSUME NEW l, NEW h, NEW S, NEW q \in Seq(S), IsFiniteSet(DOMAIN l), Circle(l, h, q)
    PROVE  /\ Walk(l, h, "flink") = q
           /\ Walk(l, h, "blink") = [n \in 1..Len(q) |-> q[Len(q) + 1 - n]]
           /\ is_list_empty(l, h) <=> q = <<>>
<1>1. Walk(l, h, "flink") = q
  <2> Reads(l, h, q, "flink")
    BY DEF Reads, Circle
  <2> QED BY WalkReads
<1>2. /\ Len(q) \in Nat /\ DOMAIN q = 1..Len(q) /\ q \in [1..Len(q) -> S]
      /\ \A i \in 1..Len(q) : q[i] # h
  BY LenProperties DEF Circle, Range
<1>3. Walk(l, h, "blink") = [n \in 1..Len(q) |-> q[Len(q) + 1 - n]]
  <2> DEFINE r == [n \in 1..Len(q) |-> q[Len(q) + 1 - n]]
  <2>1. r \in Seq(S) /\ Len(r) = Len(q) /\ DOMAIN r = 1..Len(q)
    <3>1. r \in [1..Len(q) -> S]
      BY <1>2
    <3> HIDE DEF r
    <3> QED BY <1>2, <3>1, SeqDef, LenProperties
  <2>2. \A i \in 0..Len(q)+1 : At(h, r, i) = At(h, q, Len(q) + 1 - i)
    BY <1>2, <2>1 DEF At
  <2>3. \A i \in 0..Len(r) : l[At(h, r, i)].blink = At(h, r, i+1)
    <3> HIDE DEF r
    <3> TAKE i \in 0..Len(r)
    <3>1. i \in Nat /\ i <= Len(q)
      BY <1>2, <2>1
    <3>2. ASSUME NEW k \in Nat, i <= k
          PROVE  /\ k-i \in 0..k /\ k-i+1 = k+1-i /\ i \in 0..k+1 /\ i+1 \in 0..k+1
                 /\ k-i = k+1-(i+1)
      BY <3>1, <3>2
    <3>3. /\ Len(q)-i \in 0..Len(q) /\ Len(q)-i+1 = Len(q)+1-i /\ i \in 0..Len(q)+1
          /\ i+1 \in 0..Len(q)+1 /\ Len(q)-i = Len(q)+1-(i+1)
      BY <1>2, <3>1, <3>2
    <3> QED BY <2>2, <3>3 DEF Circle
  <2>4. \A i \in 1..Len(q) : r[i] = q[Len(q)+1-i] /\ Len(q)+1-i \in 1..Len(q)
    BY <1>2
  <2>5. IsInjective(r)
    BY <1>2, <2>1, <2>4 DEF IsInjective, Circle
  <2>6. Range(r) \subseteq Range(q)
    BY <1>2, <2>1, <2>4 DEF Range
  <2>7. Reads(l, h, r, "blink")
    <3> HIDE DEF r
    <3> QED BY <2>3, <2>5, <2>6 DEF Reads, Circle
  <2> HIDE DEF r
  <2>8. Walk(l, h, "blink") = r
    BY <2>1, <2>7, WalkReads
  <2> QED BY <2>8 DEF r
<1>4. is_list_empty(l, h) <=> q = <<>>
  <2>1. l[At(h, q, 0)].flink = At(h, q, 0+1) /\ At(h, q, 0) = h
    BY <1>2 DEF Circle, At
  <2>2. CASE Len(q) = 0
    BY <1>2, <2>1, <2>2, EmptySeq DEF At, is_list_empty
  <2>3. CASE Len(q) > 0
    <3>1. 1 \in 1..Len(q) /\ q # <<>>
      BY <1>2, <2>3
    <3> QED BY <1>2, <2>1, <3>1 DEF At, is_list_empty
  <2> QED BY <1>2, <2>2, <2>3
<1> QED BY <1>1, <1>3, <1>4

(* Only the links of the head and of the entries matter. *)
LEMMA CircleIsLocal ==
    ASSUME NEW l, NEW l2, NEW h, NEW S, NEW q \in Seq(S), DOMAIN l2 = DOMAIN l, Circle(l, h, q),
           \A x \in {h} \cup Range(q) : l2[x] = l[x]
    PROVE  Circle(l2, h, q)
<1>1. \A i \in 0..Len(q)+1 : At(h, q, i) \in {h} \cup Range(q)
  BY AtIsInjective DEF At, Circle
<1>2. \A i \in 0..Len(q) : i \in 0..Len(q)+1 /\ i+1 \in 0..Len(q)+1
  BY LenProperties
<1> QED BY <1>1, <1>2 DEF Circle

-----------------------------------------------------------------------------
WithFlink(l, x, v) == [l EXCEPT ![x].flink = v]
WithBlink(l, x, v) == [l EXCEPT ![x].blink = v]
WithEntry(l, x, u, v) == [l EXCEPT ![x] = Linked(u, v)]

(* Writing one link, or both of an entry. *)
LEMMA OneLink ==
    ASSUME NEW N, NEW V, NEW l \in Links(N, V), NEW x \in N, NEW v \in V
    PROVE  /\ WithFlink(l, x, v) \in Links(N, V)
           /\ \A y \in N : /\ WithFlink(l, x, v)[y].flink = IF y = x THEN v ELSE l[y].flink
                           /\ WithFlink(l, x, v)[y].blink = l[y].blink
           /\ WithBlink(l, x, v) \in Links(N, V)
           /\ \A y \in N : /\ WithBlink(l, x, v)[y].blink = IF y = x THEN v ELSE l[y].blink
                           /\ WithBlink(l, x, v)[y].flink = l[y].flink
<1>1. /\ WithFlink(l, x, v) \in Links(N, V)
      /\ \A y \in N : /\ WithFlink(l, x, v)[y].flink = IF y = x THEN v ELSE l[y].flink
                      /\ WithFlink(l, x, v)[y].blink = l[y].blink
  BY DEF Links, WithFlink
<1>2. /\ WithBlink(l, x, v) \in Links(N, V)
      /\ \A y \in N : /\ WithBlink(l, x, v)[y].blink = IF y = x THEN v ELSE l[y].blink
                      /\ WithBlink(l, x, v)[y].flink = l[y].flink
  BY DEF Links, WithBlink
<1> QED BY <1>1, <1>2

LEMMA OneEntry ==
    ASSUME NEW N, NEW V, NEW l \in Links(N, V), NEW x \in N, NEW u \in V, NEW v \in V
    PROVE  /\ WithEntry(l, x, u, v) \in Links(N, V)
           /\ \A y \in N : /\ WithEntry(l, x, u, v)[y].flink = IF y = x THEN u ELSE l[y].flink
                           /\ WithEntry(l, x, u, v)[y].blink = IF y = x THEN v ELSE l[y].blink
BY DEF Links, Linked, WithEntry

LEMMA FieldsAreLinks ==
    ASSUME NEW N, NEW V, NEW l \in Links(N, V)
    PROVE  DOMAIN l = N /\ \A x \in N : l[x].flink \in V /\ l[x].blink \in V
BY DEF Links

LEMMA LinkingIn ==
    ASSUME NEW N, NEW V, N \subseteq V, NEW l \in Links(N, V),
           NEW p \in N, NEW e \in N, NEW s \in N, e # p, e # s
    PROVE  LET a == WithEntry(l, e, s, p)
               b == WithBlink(WithFlink(a, p, e), s, e)
               c == WithFlink(WithBlink(a, s, e), p, e)
           IN  /\ b \in Links(N, V) /\ LinkedIn(l, b, p, e, s)
               /\ c \in Links(N, V) /\ LinkedIn(l, c, p, e, s)
<1> DEFINE a == WithEntry(l, e, s, p)
<1>0. DOMAIN l = N /\ {p, s, e} \subseteq V /\ l \in Links(N, V)
  BY FieldsAreLinks
<1>1. a \in Links(N, V) /\ \A y \in N : /\ a[y].flink = IF y = e THEN s ELSE l[y].flink
                                        /\ a[y].blink = IF y = e THEN p ELSE l[y].blink
  BY <1>0 DEF Links, WithEntry, Linked
<1> HIDE DEF a
<1> DEFINE f == WithFlink(a, p, e)
           b == WithBlink(f, s, e)
           g == WithBlink(a, s, e)
           c == WithFlink(g, p, e)
<1>2. f \in Links(N, V) /\ \A y \in N : /\ f[y].flink = IF y = p THEN e ELSE a[y].flink
                                        /\ f[y].blink = a[y].blink
  BY <1>0, <1>1, OneLink
<1>3. g \in Links(N, V) /\ \A y \in N : /\ g[y].blink = IF y = s THEN e ELSE a[y].blink
                                        /\ g[y].flink = a[y].flink
  BY <1>0, <1>1, OneLink
<1> HIDE DEF f, g
<1>4. b \in Links(N, V) /\ \A y \in N : /\ b[y].blink = IF y = s THEN e ELSE f[y].blink
                                        /\ b[y].flink = f[y].flink
  BY <1>0, <1>2, OneLink
<1>5. c \in Links(N, V) /\ \A y \in N : /\ c[y].flink = IF y = p THEN e ELSE g[y].flink
                                        /\ c[y].blink = g[y].blink
  BY <1>0, <1>3, OneLink
<1> HIDE DEF b, c
<1>6. LinkedIn(l, b, p, e, s) /\ LinkedIn(l, c, p, e, s)
  BY <1>0, <1>1, <1>2, <1>3, <1>4, <1>5 DEF LinkedIn
<1> QED BY <1>4, <1>5, <1>6 DEF a, b, c, f, g

LEMMA LinkingOut ==
    ASSUME NEW N, NEW V, N \subseteq V, NEW l \in Links(N, V), NEW p \in N, NEW s \in N
    PROVE  LET b == WithBlink(WithFlink(l, p, s), s, p)
               c == WithFlink(WithBlink(l, s, p), p, s)
           IN  /\ b \in Links(N, V) /\ LinkedOut(l, b, p, s)
               /\ c \in Links(N, V) /\ LinkedOut(l, c, p, s)
<1>0. DOMAIN l = N /\ p \in V /\ s \in V /\ l \in Links(N, V)
  BY FieldsAreLinks
<1> DEFINE f == WithFlink(l, p, s)
           b == WithBlink(f, s, p)
           g == WithBlink(l, s, p)
           c == WithFlink(g, p, s)
<1>2. f \in Links(N, V) /\ \A y \in N : /\ f[y].flink = IF y = p THEN s ELSE l[y].flink
                                        /\ f[y].blink = l[y].blink
  BY <1>0 DEF Links, WithFlink, WithBlink
<1>3. g \in Links(N, V) /\ \A y \in N : /\ g[y].blink = IF y = s THEN p ELSE l[y].blink
                                        /\ g[y].flink = l[y].flink
  BY <1>0 DEF Links, WithFlink, WithBlink
<1> HIDE DEF f, g
<1>4. b \in Links(N, V) /\ \A y \in N : /\ b[y].blink = IF y = s THEN p ELSE f[y].blink
                                        /\ b[y].flink = f[y].flink
  BY <1>0, <1>2, OneLink
<1>5. c \in Links(N, V) /\ \A y \in N : /\ c[y].flink = IF y = p THEN s ELSE g[y].flink
                                        /\ c[y].blink = g[y].blink
  BY <1>0, <1>3, OneLink
<1> HIDE DEF b, c
<1>6. LinkedOut(l, b, p, s) /\ LinkedOut(l, c, p, s)
  BY <1>0, <1>2, <1>3, <1>4, <1>5 DEF LinkedOut
<1> QED BY <1>4, <1>5, <1>6 DEF b, c, f, g

(* Each operation of list.h, on links whose head h, or whose entries p, e   *)
(* and s, are in order.                                                     *)
LEMMA Insertions ==
    ASSUME NEW N, NEW V, N \subseteq V, NEW l \in Links(N, V), NEW h \in N, NEW e \in N, h # e,
           l[h].flink \in N, l[h].blink \in N, l[h].flink # e, l[h].blink # e
    PROVE  /\ insert_tail_list(l, h, e) \in Links(N, V)
           /\ LinkedIn(l, insert_tail_list(l, h, e), l[h].blink, e, h)
           /\ \A l2 \in {insert_head_list(l, h, e), insert_list_after(l, h, e)} :
                 l2 \in Links(N, V) /\ LinkedIn(l, l2, h, e, l[h].flink)
<1> DEFINE a(p, s) == WithEntry(l, e, s, p)
           b(p, s) == WithBlink(WithFlink(a(p, s), p, e), s, e)
           c(p, s) == WithFlink(WithBlink(a(p, s), s, e), p, e)
<1>1. insert_tail_list(l, h, e) = b(l[h].blink, h)
  BY DEF insert_tail_list, WithEntry, WithFlink, WithBlink
<1>2. insert_head_list(l, h, e) = c(h, l[h].flink)
  BY DEF insert_head_list, WithEntry, WithFlink, WithBlink
<1>3. insert_list_after(l, h, e) = b(h, l[h].flink)
  BY DEF insert_list_after, WithEntry, WithFlink, WithBlink
<1>4. \A p, s \in N : p # e /\ s # e =>
        /\ b(p, s) \in Links(N, V) /\ LinkedIn(l, b(p, s), p, e, s)
        /\ c(p, s) \in Links(N, V) /\ LinkedIn(l, c(p, s), p, e, s)
  BY LinkingIn
<1> HIDE DEF b, c
<1> QED BY <1>1, <1>2, <1>3, <1>4

LEMMA Removals ==
    ASSUME NEW N, NEW V, N \subseteq V, NEW l \in Links(N, V), NEW p \in N, NEW e \in N, NEW s \in N,
           l[p].flink = e, l[e].blink = p, l[e].flink = s, l[s].blink = e
    PROVE  \A l2 \in {remove_entry_list(l, e), remove_list_entry(l, e),
                      remove_head_list(l, p), remove_tail_list(l, s)} :
              l2 \in Links(N, V) /\ LinkedOut(l, l2, p, s)
<1> DEFINE b == WithBlink(WithFlink(l, p, s), s, p)
           c == WithFlink(WithBlink(l, s, p), p, s)
<1>1. remove_entry_list(l, e) = b
  BY DEF remove_entry_list, WithFlink, WithBlink
<1>2. remove_list_entry(l, e) = b
  BY DEF remove_list_entry, WithFlink, WithBlink
<1>3. remove_head_list(l, p) = b
  BY DEF remove_head_list, WithFlink, WithBlink
<1>4. remove_tail_list(l, s) = c
  BY DEF remove_tail_list, WithFlink, WithBlink
<1>5. /\ b \in Links(N, V) /\ LinkedOut(l, b, p, s)
      /\ c \in Links(N, V) /\ LinkedOut(l, c, p, s)
  BY LinkingOut
<1> HIDE DEF b, c
<1> QED BY <1>1, <1>2, <1>3, <1>4, <1>5

-----------------------------------------------------------------------------
(* The entries of a circle and their neighbours. *)
LEMMA Neighbours ==
    ASSUME NEW l, NEW h, NEW S, NEW q \in Seq(S), Circle(l, h, q)
    PROVE  /\ Len(q) \in Nat /\ At(h, q, 0) = h /\ At(h, q, Len(q)+1) = h
           /\ \A i \in 0..Len(q)+1 : At(h, q, i) \in {h} \cup Range(q)
           /\ \A i \in 0..Len(q) : /\ l[At(h, q, i)].flink = At(h, q, i+1)
                                   /\ l[At(h, q, i+1)].blink = At(h, q, i)
           /\ \A i \in 0..Len(q)+1 : /\ l[At(h, q, i)].flink \in {h} \cup Range(q)
                                     /\ l[At(h, q, i)].blink \in {h} \cup Range(q)
           /\ l[h].flink = At(h, q, 1) /\ l[h].blink = At(h, q, Len(q))
<1>1. Len(q) \in Nat /\ At(h, q, 0) = h /\ At(h, q, Len(q)+1) = h
  BY AtIsInjective DEF Circle
<1>2. \A i \in 0..Len(q)+1 : At(h, q, i) \in {h} \cup Range(q)
  BY AtIsInjective DEF At, Circle
<1>3. \A i \in 0..Len(q) : /\ l[At(h, q, i)].flink = At(h, q, i+1)
                           /\ l[At(h, q, i+1)].blink = At(h, q, i)
  BY DEF Circle
<1>4. l[h].flink = At(h, q, 1) /\ l[h].blink = At(h, q, Len(q))
  <2>1. 0 \in 0..Len(q) /\ Len(q) \in 0..Len(q) /\ 0+1 = 1
    BY <1>1
  <2> QED BY <1>1, <1>3, <2>1
<1>5. ASSUME NEW i \in 0..Len(q)+1
      PROVE  l[At(h, q, i)].flink \in {h} \cup Range(q) /\ l[At(h, q, i)].blink \in {h} \cup Range(q)
  <2>1. CASE i = 0 \/ i = Len(q)+1
    <3>1. 1 \in 0..Len(q)+1 /\ Len(q) \in 0..Len(q)+1
      BY <1>1
    <3> QED BY <1>1, <1>2, <1>4, <2>1, <3>1
  <2>2. CASE i \in 1..Len(q)
    <3>1. i \in 0..Len(q) /\ i+1 \in 0..Len(q)+1 /\ i-1 \in 0..Len(q) /\ i-1 \in 0..Len(q)+1
          /\ (i-1)+1 = i
      BY <1>1, <2>2
    <3> QED BY <1>2, <1>3, <3>1
  <2> QED BY <1>1, <2>1, <2>2
<1> QED BY <1>1, <1>2, <1>3, <1>4, <1>5

LEMMA CircleInserts ==
    ASSUME NEW N, NEW V, N \subseteq V, NEW l \in Links(N, V), NEW h \in N,
           NEW S, NEW q \in Seq(S), NEW T, NEW r \in Seq(T), NEW n, NEW e \in N,
           Circle(l, h, q), IsInsertion(q, r, n, e), e \notin Range(q), e # h,
           NEW l2,
           \/ l2 = insert_list_after(l, At(h, q, n), e)
           \/ n = 0 /\ l2 = insert_head_list(l, h, e)
           \/ n = Len(q) /\ l2 = insert_tail_list(l, h, e)
    PROVE  l2 \in Links(N, V) /\ Circle(l2, h, r)
<1> DEFINE p == At(h, q, n)
           s == At(h, q, n+1)
<1>1. /\ p \in N /\ s \in N /\ p # e /\ s # e
      /\ l[p].flink = s /\ l[p].blink \in N /\ l[p].blink # e
      /\ l[h].flink \in N /\ l[h].flink # e /\ l[h].blink \in N /\ l[h].blink # e
      /\ n = 0 => p = h /\ l[h].flink = s
      /\ n = Len(q) => s = h /\ l[h].blink = p
  <2>1. DOMAIN l = N
    BY FieldsAreLinks
  <2>2. n \in 0..Len(q) /\ n \in 0..Len(q)+1 /\ n+1 \in 0..Len(q)+1 /\ 0 \in 0..Len(q)+1
    BY Neighbours DEF IsInsertion
  <2>3. \A x \in {h} \cup Range(q) : x \in N /\ x # e
    BY <2>1 DEF Circle
  <2> QED BY <2>2, <2>3, Neighbours
<1> HIDE DEF p, s
<1>2. l2 \in Links(N, V) /\ LinkedIn(l, l2, p, e, s)
  <2>1. CASE l2 = insert_list_after(l, p, e)
    <3> l2 \in {insert_head_list(l, p, e), insert_list_after(l, p, e)}
      BY <2>1
    <3> QED BY <1>1, Insertions
  <2>2. CASE n = 0 /\ l2 = insert_head_list(l, h, e)
    <3> l2 \in {insert_head_list(l, h, e), insert_list_after(l, h, e)}
      BY <2>2
    <3> QED BY <1>1, <2>2, Insertions
  <2>3. CASE n = Len(q) /\ l2 = insert_tail_list(l, h, e)
    BY <1>1, <2>3, Insertions
  <2> QED BY <2>1, <2>2, <2>3 DEF p
<1>3. DOMAIN l2 = DOMAIN l /\ e \in DOMAIN l
  BY <1>2, FieldsAreLinks
<1>4. Circle(l2, h, r)
  BY <1>2, <1>3, CircleGrows DEF p, s
<1> QED BY <1>2, <1>4

LEMMA CircleRemoves ==
    ASSUME NEW N, NEW V, N \subseteq V, NEW l \in Links(N, V), NEW h \in N,
           NEW S, NEW q \in Seq(S), NEW T, NEW r \in Seq(T), NEW n, NEW e,
           Circle(l, h, r), IsInsertion(q, r, n, e),
           NEW l2,
           \/ l2 \in {remove_entry_list(l, e), remove_list_entry(l, e)}
           \/ n = 0 /\ l2 = remove_head_list(l, h)
           \/ n = Len(q) /\ l2 = remove_tail_list(l, h)
    PROVE  /\ l2 \in Links(N, V) /\ Circle(l2, h, q)
           /\ WasLast(l, e) <=> q = <<>>
<1> DEFINE p == At(h, q, n)
           s == At(h, q, n+1)
<1>1. /\ Len(q) \in Nat /\ n \in 0..Len(q) /\ Len(r) = Len(q) + 1
      /\ IsInjective(q) /\ h \notin Range(q) /\ Range(q) \subseteq Range(r) /\ e \in Range(r)
  <2>1. IsInjective(r) /\ h \notin Range(r)
    BY DEF Circle
  <2>2. Range(r) = Range(q) \cup {e} /\ IsInjective(q)
    BY <2>1, InsertionIsInjective
  <2>3. Len(q) \in Nat /\ n \in 0..Len(q) /\ Len(r) = Len(q) + 1
    BY LenProperties DEF IsInsertion
  <2> QED BY <2>1, <2>2, <2>3
<1>2. p = At(h, r, n) /\ e = At(h, r, n+1) /\ s = At(h, r, n+2)
  <2>1. /\ n \in 0..Len(q)+2 /\ n+1 \in 0..Len(q)+2 /\ n+2 \in 0..Len(q)+2
        /\ n <= n /\ ~(n+1 <= n) /\ n+1 = n+1 /\ ~(n+2 <= n) /\ n+2 # n+1 /\ (n+2)-1 = n+1
    BY <1>1
  <2> QED BY <2>1, AtInInsertion
<1>3. /\ p \in N /\ e \in N /\ s \in N
      /\ l[p].flink = e /\ l[e].blink = p /\ l[e].flink = s /\ l[s].blink = e
      /\ n = 0 => p = h
      /\ n = Len(q) => s = h
  <2>1. DOMAIN l = N
    BY FieldsAreLinks
  <2>2. /\ n \in 0..Len(r) /\ n \in 0..Len(r)+1 /\ n+1 \in 0..Len(r) /\ n+1 \in 0..Len(r)+1
        /\ n+2 \in 0..Len(r)+1 /\ (n+1)+1 = n+2
    BY <1>1
  <2>3. \A x \in {h} \cup Range(r) : x \in N
    BY <2>1 DEF Circle
  <2>4. p \in {h} \cup Range(r) /\ s \in {h} \cup Range(r)
    BY <1>2, <2>2, Neighbours
  <2>5. /\ l[p].flink = e /\ l[e].blink = p /\ l[e].flink = s /\ l[s].blink = e
    BY <1>2, <2>2, Neighbours
  <2>6. /\ n = 0 => p = h
        /\ n = Len(q) => s = h
    BY <1>1, AtIsInjective
  <2> QED BY <1>1, <2>3, <2>4, <2>5, <2>6
<1>4. WasLast(l, e) <=> q = <<>>
  <2>1. WasLast(l, e) <=> s = p
    BY <1>3 DEF WasLast
  <2>2. s = p <=> Len(q) = 0
    <3>1. CASE Len(q) = 0
      <4> n = 0 /\ n = Len(q)
        BY <1>1, <3>1
      <4> QED BY <1>3, <3>1
    <3>2. CASE Len(q) > 0
      <4>1. CASE n = 0
        <5> 1 \in 1..Len(q) /\ n+1 = 1
          BY <1>1, <3>2, <4>1
        <5> QED BY <1>1, <3>2, <4>1, AtIsInjective
      <4>2. CASE n = Len(q)
        <5> n \in 1..Len(q)
          BY <1>1, <3>2, <4>2
        <5> QED BY <1>1, <3>2, <4>2, AtIsInjective
      <4>3. CASE n # 0 /\ n # Len(q)
        <5> n \in 0..Len(q) /\ n+1 \in 0..Len(q) /\ n # n+1
          BY <1>1, <4>3
        <5> QED BY <1>1, <3>2, AtIsInjective
      <4> QED BY <4>1, <4>2, <4>3
    <3> QED BY <1>1, <3>1, <3>2
  <2>3. Len(q) = 0 <=> q = <<>>
    BY EmptySeq
  <2> QED BY <2>1, <2>2, <2>3
<1> HIDE DEF p, s
<1>5. l2 \in Links(N, V) /\ LinkedOut(l, l2, p, s)
  <2> l2 \in {remove_entry_list(l, e), remove_list_entry(l, e),
              remove_head_list(l, p), remove_tail_list(l, s)}
    BY <1>3
  <2> QED BY <1>3, Removals
<1>6. Circle(l2, h, q)
  <2> DOMAIN l2 = DOMAIN l
    BY <1>5, FieldsAreLinks
  <2> QED BY <1>5, CircleShrinks DEF p, s
<1> QED BY <1>4, <1>5, <1>6

-----------------------------------------------------------------------------
LEMMA EmptyCircle ==
    ASSUME NEW N, NEW V, N \subseteq V, NEW l \in Links(N, V), NEW h \in N
    PROVE  init_list_head(l, h) \in Links(N, V) /\ Circle(init_list_head(l, h), h, <<>>)
<1>1. /\ init_list_head(l, h) \in Links(N, V)
      /\ init_list_head(l, h)[h].flink = h /\ init_list_head(l, h)[h].blink = h
  BY DEF init_list_head, Links, Linked
<1>2. Len(<<>>) = 0 /\ DOMAIN <<>> = {}
  OBVIOUS
<1>3. DOMAIN init_list_head(l, h) = N
  BY <1>1, FieldsAreLinks
<1>4. 0..0 = {0}
  OBVIOUS
<1> QED BY <1>1, <1>2, <1>3, <1>4 DEF Circle, At, IsInjective, Range

(* r is a followed by b. *)
IsJoin(a, b, r) ==
    /\ Len(r) = Len(a) + Len(b)
    /\ \A i \in 1..Len(a) : r[i] = a[i]
    /\ \A i \in 1..Len(b) : r[Len(a)+i] = b[i]

LEMMA Joined ==
    ASSUME NEW S, NEW a \in Seq(S), NEW b \in Seq(S)
    PROVE  a \o b \in Seq(S) /\ IsJoin(a, b, a \o b)
<1>1. Len(a) \in Nat /\ Len(b) \in Nat
  BY LenProperties
<1>2. /\ a \o b \in Seq(S) /\ Len(a \o b) = Len(a) + Len(b)
      /\ \A i \in 1..Len(a) + Len(b) : (a \o b)[i] = IF i <= Len(a) THEN a[i] ELSE b[i - Len(a)]
  BY ConcatProperties
<1>3. ASSUME NEW i \in 1..Len(b) PROVE (a \o b)[Len(a)+i] = b[i]
  <2>1. /\ Len(a)+i \in 1..Len(a)+Len(b) /\ ~(Len(a)+i <= Len(a))
        /\ (Len(a)+i) - Len(a) = i
    BY <1>1
  <2> QED BY <1>2, <2>1
<1>4. \A i \in 1..Len(a) : (a \o b)[i] = a[i]
  BY <1>1, <1>2
<1> QED BY <1>2, <1>3, <1>4 DEF IsJoin

LEMMA Slice ==
    ASSUME NEW S, NEW q \in Seq(S), NEW n \in DOMAIN q
    PROVE  /\ n \in Nat /\ Len(q)-n \in Nat /\ n-1 \in Nat
           /\ SubSeq(q, 1, n) \in Seq(S) /\ Len(SubSeq(q, 1, n)) = n
           /\ \A i \in 1..n : SubSeq(q, 1, n)[i] = q[i]
           /\ SubSeq(q, 1, n-1) \in Seq(S) /\ Len(SubSeq(q, 1, n-1)) = n-1
           /\ \A i \in 1..n-1 : SubSeq(q, 1, n-1)[i] = q[i]
           /\ SubSeq(q, n+1, Len(q)) \in Seq(S) /\ Len(SubSeq(q, n+1, Len(q))) = Len(q)-n
           /\ \A i \in 1..Len(q)-n : SubSeq(q, n+1, Len(q))[i] = q[n+i]
<1>1. n \in Nat /\ Len(q) \in Nat /\ n <= Len(q) /\ n >= 1 /\ DOMAIN q = 1..Len(q)
  BY LenProperties
<1>2. \A i \in 1..Len(q) : q[i] \in S
  BY <1>1, ElementOfSeq
<1>3. /\ SubSeq(q, 1, n) \in Seq(S) /\ Len(SubSeq(q, 1, n)) = n
      /\ \A i \in 1..n : SubSeq(q, 1, n)[i] = q[i]
  BY <1>1, <1>2, SubSeqProperties
<1>4. /\ SubSeq(q, 1, n-1) \in Seq(S) /\ Len(SubSeq(q, 1, n-1)) = n-1
      /\ \A i \in 1..n-1 : SubSeq(q, 1, n-1)[i] = q[i]
  BY <1>1, <1>2, SubSeqProperties
<1>5. /\ SubSeq(q, n+1, Len(q)) \in Seq(S) /\ Len(SubSeq(q, n+1, Len(q))) = Len(q)-n
      /\ \A i \in 1..Len(q)-n : SubSeq(q, n+1, Len(q))[i] = q[n+i]
  BY <1>1, <1>2, SubSeqProperties
<1> QED BY <1>1, <1>3, <1>4, <1>5, SMTT(40)

(* r is q with e after the first n entries, said by positions in both parts. *)
LEMMA InsertionByParts ==
    ASSUME NEW S, NEW q \in Seq(S), NEW r \in Seq(S), NEW n \in 0..Len(q), NEW e,
           Len(r) = Len(q)+1,
           \A i \in 1..n : r[i] = q[i], r[n+1] = e, \A i \in 1..Len(q)-n : r[n+1+i] = q[n+i]
    PROVE  IsInsertion(q, r, n, e)
<1>0. Len(q) \in Nat
  BY LenProperties
<1>1. ASSUME NEW i \in 1..Len(r)
      PROVE  r[i] = IF i <= n THEN q[i] ELSE IF i = n+1 THEN e ELSE q[i-1]
  <2>0. i \in Nat /\ n \in Nat /\ i <= Len(q)+1 /\ 1 <= i
    BY <1>0
  <2>1. CASE i > n+1
    <3> DEFINE j == i-(n+1)
    <3>1. j \in 1..Len(q)-n /\ n+1+j = i /\ n+j = i-1
      BY <1>0, <2>0, <2>1
    <3> HIDE DEF j
    <3>2. r[n+1+j] = q[n+j]
      BY <3>1
    <3>3. ~(i <= n) /\ i # n+1
      BY <2>0, <2>1
    <3> QED BY <3>1, <3>2, <3>3
  <2>2. CASE i <= n
    <3> i \in 1..n
      BY <2>0, <2>2
    <3> QED BY <2>2
  <2>3. CASE i = n+1
    <3> ~(i <= n)
      BY <2>0, <2>3
    <3> QED BY <2>3
  <2> QED BY <2>0, <2>1, <2>2, <2>3
<1> QED BY <1>1 DEF IsInsertion

(* A sequence in three parts, the second of one element. *)
LEMMA ThreeParts ==
    ASSUME NEW S, NEW a \in Seq(S), NEW x \in S, NEW b \in Seq(S)
    PROVE  (a \o <<x>>) \o b \in Seq(S) /\ IsJoin(Append(a, x), b, (a \o <<x>>) \o b)
<1>1. a \o <<x>> = Append(a, x) /\ Append(a, x) \in Seq(S)
  BY AppendIsConcat, AppendProperties
<1> DEFINE ab == Append(a, x)
<1>2. ab \in Seq(S)
  BY <1>1
<1> HIDE DEF ab
<1>3. ab \o b \in Seq(S) /\ IsJoin(ab, b, ab \o b)
  BY <1>2, Joined
<1> QED BY <1>1, <1>3 DEF ab

(* What the operations do to the sequence. *)
LEMMA SequenceEdits ==
    ASSUME NEW S, NEW q \in Seq(S), NEW e \in S
    PROVE  /\ Append(q, e) \in Seq(S) /\ IsInsertion(q, Append(q, e), Len(q), e)
           /\ <<e>> \o q \in Seq(S) /\ IsInsertion(q, <<e>> \o q, 0, e)
           /\ \A n \in DOMAIN q : /\ InsertAt(q, n+1, e) \in Seq(S)
                                  /\ IsInsertion(q, InsertAt(q, n+1, e), n, e)
           /\ q # <<>> => /\ Tail(q) \in Seq(S) /\ IsInsertion(Tail(q), q, 0, q[1])
                          /\ Front(q) \in Seq(S)
                          /\ IsInsertion(Front(q), q, Len(Front(q)), q[Len(q)])
           /\ \A n \in DOMAIN q : /\ RemoveAt(q, n) \in Seq(S)
                                  /\ IsInsertion(RemoveAt(q, n), q, n-1, q[n])
<1>0. Len(q) \in Nat /\ DOMAIN q = 1..Len(q) /\ \A i \in 1..Len(q) : q[i] \in S
  BY LenProperties, ElementOfSeq
<1>1. Append(q, e) \in Seq(S) /\ IsInsertion(q, Append(q, e), Len(q), e)
  BY <1>0, AppendProperties DEF IsInsertion
<1>2. <<e>> \o q \in Seq(S) /\ IsInsertion(q, <<e>> \o q, 0, e)
  <2> DEFINE one == <<e>>
             r == one \o q
  <2>1. one \in Seq(S) /\ Len(one) = 1 /\ one[1] = e /\ 1 \in 1..Len(one)
    OBVIOUS
  <2> HIDE DEF one
  <2>2. r \in Seq(S) /\ IsJoin(one, q, r)
    BY <2>1, Joined
  <2> HIDE DEF r
  <2>3. /\ Len(r) = Len(q) + 1 /\ 0 \in 0..Len(q)
        /\ \A i \in 1..0 : r[i] = q[i]
        /\ r[0+1] = e
        /\ \A i \in 1..Len(q)-0 : r[0+1+i] = q[0+i]
    BY <1>0, <2>1, <2>2 DEF IsJoin
  <2>4. IsInsertion(q, r, 0, e)
    BY <2>2, <2>3, InsertionByParts
  <2> QED BY <2>2, <2>4 DEF r, one
<1>3. ASSUME NEW n \in DOMAIN q
      PROVE  InsertAt(q, n+1, e) \in Seq(S) /\ IsInsertion(q, InsertAt(q, n+1, e), n, e)
  <2> DEFINE a == SubSeq(q, 1, n)
             b == SubSeq(q, n+1, Len(q))
             r == (a \o <<e>>) \o b
  <2>1. a \in Seq(S) /\ Len(a) = n /\ n \in 0..Len(q) /\ \A i \in 1..n : a[i] = q[i]
    BY <1>0, Slice
  <2>2. b \in Seq(S) /\ Len(b) = Len(q)-n /\ \A i \in 1..Len(q)-n : b[i] = q[n+i]
    BY Slice, SMTT(40)
  <2>3. InsertAt(q, n+1, e) = r
    <3> (n+1)-1 = n
      BY <1>0
    <3> QED BY DEF InsertAt
  <2> HIDE DEF a, b
  <2>4. r \in Seq(S) /\ IsJoin(Append(a, e), b, r)
    BY <2>1, <2>2, ThreeParts
  <2>7. Len(Append(a, e)) = n+1 /\ Append(a, e)[n+1] = e /\ \A i \in 1..n : Append(a, e)[i] = a[i]
    BY <2>1, AppendProperties
  <2> HIDE DEF r
  <2>5. /\ Len(r) = Len(q)+1
        /\ \A i \in 1..n : r[i] = q[i]
        /\ r[n+1] = e
        /\ \A i \in 1..Len(q)-n : r[n+1+i] = q[n+i]
    <3>1. n+1 \in 1..n+1 /\ n+1+(Len(q)-n) = Len(q)+1 /\ \A i \in 1..n : i \in 1..n+1
      BY <1>0, <2>1
    <3> DEFINE c == Append(a, e)
    <3>2. Len(c) = n+1 /\ c[n+1] = e /\ (\A i \in 1..n : c[i] = a[i]) /\ IsJoin(c, b, r)
      BY <2>4, <2>7
    <3> HIDE DEF c
    <3>3. Len(r) = Len(q)+1 /\ r[n+1] = e
      BY <2>2, <3>1, <3>2 DEF IsJoin
    <3>4. \A i \in 1..n : r[i] = q[i]
      BY <2>1, <3>1, <3>2 DEF IsJoin
    <3>5. \A i \in 1..Len(q)-n : r[n+1+i] = q[n+i]
      BY <2>2, <3>2 DEF IsJoin
    <3> QED BY <3>3, <3>4, <3>5
  <2>6. IsInsertion(q, r, n, e)
    BY <2>1, <2>4, <2>5, InsertionByParts
  <2> QED BY <2>3, <2>4, <2>6
<1>4. ASSUME q # <<>>
      PROVE  /\ Tail(q) \in Seq(S) /\ IsInsertion(Tail(q), q, 0, q[1])
             /\ Front(q) \in Seq(S) /\ IsInsertion(Front(q), q, Len(Front(q)), q[Len(q)])
  <2>1. Len(q) > 0 /\ Tail(q) \in Seq(S) /\ Len(Tail(q)) = Len(q)-1
        /\ \A i \in 1..Len(q)-1 : Tail(q)[i] = q[i+1]
    BY <1>0, <1>4, HeadTailProperties, EmptySeq
  <2>2. ASSUME NEW i \in 1..Len(q)
        PROVE  q[i] = IF i <= 0 THEN Tail(q)[i] ELSE IF i = 0+1 THEN q[1] ELSE Tail(q)[i-1]
    <3>1. CASE i = 1
      BY <3>1
    <3>2. CASE i > 1
      <4> i-1 \in 1..Len(q)-1 /\ (i-1)+1 = i
        BY <1>0, <3>2
      <4> QED BY <1>0, <2>1, <3>2
    <3> QED BY <1>0, <3>1, <3>2
  <2>3. IsInsertion(Tail(q), q, 0, q[1])
    BY <1>0, <2>1, <2>2 DEF IsInsertion
  <2>4. Front(q) \in Seq(S) /\ Len(Front(q)) = Len(q)-1 /\ \A i \in 1..Len(q)-1 : Front(q)[i] = q[i]
    BY <1>0, <2>1, SubSeqProperties DEF Front
  <2> DEFINE f == Front(q)
  <2>5. /\ Len(f) \in 0..Len(f) /\ Len(q) = Len(f)+1 /\ \A i \in 1..Len(f) : q[i] = f[i]
        /\ q[Len(f)+1] = q[Len(q)]
        /\ \A i \in 1..Len(f)-Len(f) : q[Len(f)+1+i] = f[Len(f)+i]
    BY <1>0, <2>1, <2>4
  <2> HIDE DEF f
  <2>6. IsInsertion(f, q, Len(f), q[Len(q)])
    <3>1. f \in Seq(S)
      BY <2>4 DEF f
    <3> QED BY <2>5, <3>1, InsertionByParts
  <2> QED BY <2>1, <2>3, <2>4, <2>6 DEF f
<1>5. ASSUME NEW n \in DOMAIN q
      PROVE  RemoveAt(q, n) \in Seq(S) /\ IsInsertion(RemoveAt(q, n), q, n-1, q[n])
  <2> DEFINE a == SubSeq(q, 1, n-1)
             b == SubSeq(q, n+1, Len(q))
             r == a \o b
  <2>1. a \in Seq(S) /\ Len(a) = n-1 /\ n \in Nat /\ n-1 \in Nat /\ \A i \in 1..n-1 : a[i] = q[i]
    BY Slice, SMTT(40)
  <2>2. b \in Seq(S) /\ Len(b) = Len(q)-n /\ Len(q)-n \in Nat /\ \A i \in 1..Len(q)-n : b[i] = q[n+i]
    BY Slice, SMTT(40)
  <2>3. RemoveAt(q, n) = r
    BY DEF RemoveAt
  <2> HIDE DEF a, b
  <2>5. r \in Seq(S) /\ IsJoin(a, b, r)
    BY <2>1, <2>2, Joined
  <2> HIDE DEF r
  <2>6. /\ n-1 \in 0..Len(r) /\ Len(q) = Len(r)+1
        /\ \A i \in 1..n-1 : q[i] = r[i]
        /\ q[n-1+1] = q[n]
        /\ \A i \in 1..Len(r)-(n-1) : q[n-1+1+i] = r[n-1+i]
    <3>1. Len(r) = Len(q)-1 /\ Len(r)-(n-1) = Len(q)-n /\ n-1+1 = n /\ n-1 \in 0..Len(r)
      BY <1>0, <2>1, <2>2, <2>5 DEF IsJoin
    <3>2. \A i \in 1..n-1 : q[i] = r[i]
      BY <2>1, <2>5 DEF IsJoin
    <3>3. \A i \in 1..Len(q)-n : q[n+i] = r[n-1+i]
      BY <2>1, <2>2, <2>5 DEF IsJoin
    <3> QED BY <1>0, <3>1, <3>2, <3>3
  <2>7. IsInsertion(r, q, n-1, q[n])
    BY <2>5, <2>6, InsertionByParts
  <2> QED BY <2>3, <2>5, <2>7
<1> QED BY <1>1, <1>2, <1>3, <1>4, <1>5

-----------------------------------------------------------------------------
LEMMA SameLists ==
    /\ \A l, h : /\ List!init_list_head(l, h) = init_list_head(l, h)
                 /\ List!is_list_empty(l, h) <=> is_list_empty(l, h)
                 /\ List!WasLast(l, h) = WasLast(l, h)
                 /\ List!remove_entry_list(l, h) = remove_entry_list(l, h)
                 /\ List!remove_list_entry(l, h) = remove_list_entry(l, h)
                 /\ List!remove_head_list(l, h) = remove_head_list(l, h)
                 /\ List!remove_tail_list(l, h) = remove_tail_list(l, h)
                 /\ List!remove_list_first(l, h) = remove_list_entry(l, l[h].flink)
                 /\ List!remove_list_last(l, h) = remove_list_entry(l, l[h].blink)
    /\ \A l, h, e : /\ List!insert_tail_list(l, h, e) = insert_tail_list(l, h, e)
                    /\ List!insert_head_list(l, h, e) = insert_head_list(l, h, e)
                    /\ List!insert_list_after(l, h, e) = insert_list_after(l, h, e)
                    /\ List!insert_list_last(l, h, e) = insert_list_after(l, l[h].blink, e)
                    /\ List!insert_list_first(l, h, e) = insert_list_after(l, h, e)
<1>1. \A l, h : /\ List!init_list_head(l, h) = init_list_head(l, h)
                /\ List!is_list_empty(l, h) <=> is_list_empty(l, h)
                /\ List!WasLast(l, h) = WasLast(l, h)
  BY DEF List!init_list_head, init_list_head, List!Linked, Linked, List!is_list_empty, is_list_empty,
         List!WasLast, WasLast
<1>2. \A l, h : /\ List!remove_entry_list(l, h) = remove_entry_list(l, h)
                /\ List!remove_list_entry(l, h) = remove_list_entry(l, h)
                /\ List!remove_head_list(l, h) = remove_head_list(l, h)
                /\ List!remove_tail_list(l, h) = remove_tail_list(l, h)
  BY DEF List!remove_entry_list, remove_entry_list, List!remove_list_entry, remove_list_entry,
         List!remove_head_list, remove_head_list, List!remove_tail_list, remove_tail_list
<1>3. \A l, h, e : /\ List!insert_tail_list(l, h, e) = insert_tail_list(l, h, e)
                   /\ List!insert_head_list(l, h, e) = insert_head_list(l, h, e)
                   /\ List!insert_list_after(l, h, e) = insert_list_after(l, h, e)
  BY DEF List!insert_tail_list, insert_tail_list, List!insert_head_list, insert_head_list,
         List!insert_list_after, insert_list_after, List!Linked, Linked
<1> QED BY <1>1, <1>2, <1>3 DEF List!remove_list_first, List!remove_list_last,
           List!insert_list_last, List!insert_list_first

LEMMA SameWalk == \A l, h, d : List!Walk(l, h, d) = Walk(l, h, d)
BY DEF List!Walk, Walk, List!Cardinality, Cardinality, List!IsFiniteSet, IsFiniteSet

LEMMA SameEdits ==
    /\ \A q : List!Range(q) = Range(q) /\ List!Front(q) = Front(q) /\ List!Reverse(q) = Reverse(q)
    /\ \A q, n : List!RemoveAt(q, n) = RemoveAt(q, n)
    /\ \A q, n, e : List!InsertAt(q, n, e) = InsertAt(q, n, e)
BY DEF List!Range, Range, List!Front, Front, List!Reverse, Reverse, List!RemoveAt, RemoveAt,
       List!InsertAt, InsertAt

-----------------------------------------------------------------------------
Linkable == Thread \cup {listhead}

ListInv ==
    /\ entries \in Seq(Thread) /\ link \in Links(Linkable, Linkable)
    /\ Circle(link, listhead, entries)
    /\ \A r \in result : r <=> entries = <<>>

ListSound == kind = "list" => ListInv

LEMMA ListInvInit == List!Init => ListInv
<1> SUFFICES ASSUME List!Init PROVE ListInv
  OBVIOUS
<1> DEFINE l == [e \in Linkable |-> Linked(e, e)]
<1>1. l \in Links(Linkable, Linkable)
  BY DEF Links, Linked
<1>2. link = init_list_head(l, listhead)
  BY SameLists DEF List!Init, Linkable, List!Linked, Linked
<1> HIDE DEF l
<1>3. listhead \in Linkable
  BY DEF Linkable
<1>4. link \in Links(Linkable, Linkable) /\ Circle(link, listhead, <<>>)
  BY <1>1, <1>2, <1>3, EmptyCircle
<1> QED BY <1>4 DEF List!Init, ListInv

LEMMA ListInserts ==
    ASSUME ListInv, NEW r \in Seq(Thread), NEW n, NEW e \in Thread, IsInsertion(entries, r, n, e),
           \/ link' = insert_list_after(link, At(listhead, entries, n), e)
           \/ n = 0 /\ link' = insert_head_list(link, listhead, e)
           \/ n = Len(entries) /\ link' = insert_tail_list(link, listhead, e),
           entries' = r, result' = {}, e \notin Range(entries)
    PROVE  ListInv'
<1>1. e \in Linkable /\ listhead \in Linkable /\ e # listhead
  BY KindAssumption DEF Linkable
<1>2. entries \in Seq(Thread) /\ link \in Links(Linkable, Linkable) /\ Circle(link, listhead, entries)
  BY DEF ListInv
<1> DEFINE l2 == link'
<1>3. \/ l2 = insert_list_after(link, At(listhead, entries, n), e)
      \/ n = 0 /\ l2 = insert_head_list(link, listhead, e)
      \/ n = Len(entries) /\ l2 = insert_tail_list(link, listhead, e)
  OBVIOUS
<1> HIDE DEF l2
<1>4. l2 \in Links(Linkable, Linkable) /\ Circle(l2, listhead, r)
  BY <1>1, <1>2, <1>3, CircleInserts
<1> QED BY <1>4 DEF l2, ListInv

LEMMA ListRemoves ==
    ASSUME ListInv, NEW q \in Seq(Thread), NEW n, NEW e, IsInsertion(q, entries, n, e),
           \/ link' \in {remove_entry_list(link, e), remove_list_entry(link, e)}
           \/ n = 0 /\ link' = remove_head_list(link, listhead)
           \/ n = Len(q) /\ link' = remove_tail_list(link, listhead),
           entries' = q, result' \in {{}, {WasLast(link, e)}}
    PROVE  ListInv'
<1>1. listhead \in Linkable
  BY DEF Linkable
<1>2. entries \in Seq(Thread) /\ link \in Links(Linkable, Linkable) /\ Circle(link, listhead, entries)
  BY DEF ListInv
<1> DEFINE l2 == link'
<1>3. \/ l2 \in {remove_entry_list(link, e), remove_list_entry(link, e)}
      \/ n = 0 /\ l2 = remove_head_list(link, listhead)
      \/ n = Len(q) /\ l2 = remove_tail_list(link, listhead)
  OBVIOUS
<1> HIDE DEF l2
<1>4. /\ l2 \in Links(Linkable, Linkable) /\ Circle(l2, listhead, q)
      /\ WasLast(link, e) <=> q = <<>>
  BY <1>1, <1>2, <1>3, CircleRemoves
<1> QED BY <1>4 DEF l2, ListInv

LEMMA ListInvNext == ASSUME ListInv, List!Next PROVE ListInv'
<1>1. entries \in Seq(Thread) /\ Circle(link, listhead, entries) /\ Len(entries) \in Nat
      /\ DOMAIN entries = 1..Len(entries)
  BY LenProperties DEF ListInv
<1>2. /\ At(listhead, entries, 0) = listhead
      /\ link[listhead].flink = At(listhead, entries, 1)
      /\ link[listhead].blink = At(listhead, entries, Len(entries))
      /\ \A n \in DOMAIN entries : At(listhead, entries, n) = entries[n]
  BY <1>1, Neighbours DEF At
<1>3. ASSUME NEW e \in Thread, List!InsertLast(e) PROVE ListInv'
  <2> DEFINE r == Append(entries, e)
  <2>1. IsInsertion(entries, r, Len(entries), e) /\ r \in Seq(Thread)
    BY <1>1, SequenceEdits
  <2>2. /\ e \notin Range(entries) /\ entries' = r /\ result' = {}
        /\ link' \in {insert_tail_list(link, listhead, e),
                      insert_list_after(link, link[listhead].blink, e)}
    BY <1>3, SameLists, SameEdits DEF List!InsertLast, List!Inserts
  <2> HIDE DEF r
  <2>3. \/ link' = insert_list_after(link, At(listhead, entries, Len(entries)), e)
        \/ link' = insert_tail_list(link, listhead, e)
    BY <1>2, <2>2
  <2> QED BY <2>1, <2>2, <2>3, ListInserts
<1>4. ASSUME NEW e \in Thread, List!InsertFirst(e) PROVE ListInv'
  <2> DEFINE r == <<e>> \o entries
  <2>1. IsInsertion(entries, r, 0, e) /\ r \in Seq(Thread)
    BY <1>1, SequenceEdits
  <2>2. /\ e \notin Range(entries) /\ entries' = r /\ result' = {}
        /\ link' \in {insert_head_list(link, listhead, e), insert_list_after(link, listhead, e)}
    BY <1>4, SameLists, SameEdits DEF List!InsertFirst, List!Inserts
  <2> HIDE DEF r
  <2>3. \/ link' = insert_list_after(link, At(listhead, entries, 0), e)
        \/ link' = insert_head_list(link, listhead, e)
    BY <1>2, <2>2
  <2> QED BY <2>1, <2>2, <2>3, ListInserts
<1>5. ASSUME NEW n \in DOMAIN entries, NEW e \in Thread, List!InsertAfter(n, e) PROVE ListInv'
  <2> DEFINE r == InsertAt(entries, n+1, e)
  <2>1. IsInsertion(entries, r, n, e) /\ r \in Seq(Thread)
    BY <1>1, SequenceEdits
  <2>2. /\ e \notin Range(entries) /\ entries' = r /\ result' = {}
        /\ link' = insert_list_after(link, entries[n], e)
    BY <1>5, SameLists, SameEdits DEF List!InsertAfter, List!Inserts
  <2> HIDE DEF r
  <2>3. link' = insert_list_after(link, At(listhead, entries, n), e)
    BY <1>2, <2>2
  <2> QED BY <2>1, <2>2, <2>3, ListInserts
<1>6. CASE List!TakeFirst
  <2>1. entries # <<>> /\ entries' = Tail(entries) /\ result' = {}
        /\ link' \in {remove_head_list(link, listhead), remove_list_entry(link, link[listhead].flink)}
    BY <1>6, SameLists DEF List!TakeFirst
  <2>2. link[listhead].flink = entries[1]
    <3> 1 \in DOMAIN entries
      BY <1>1, <2>1, EmptySeq
    <3> QED BY <1>2
  <2>3. entries[1] \in Thread
    BY <1>1, <2>1, ElementOfSeq, EmptySeq
  <2>4. Tail(entries) \in Seq(Thread) /\ IsInsertion(Tail(entries), entries, 0, entries[1])
    BY <1>1, <2>1, <2>3, SequenceEdits
  <2> QED BY <2>1, <2>2, <2>4, ListRemoves
<1>7. CASE List!TakeLast
  <2>1. entries # <<>> /\ entries' = Front(entries) /\ result' = {}
        /\ link' \in {remove_tail_list(link, listhead), remove_list_entry(link, link[listhead].blink)}
    BY <1>7, SameLists, SameEdits DEF List!TakeLast
  <2>2. link[listhead].blink = entries[Len(entries)]
    <3> Len(entries) \in DOMAIN entries
      BY <1>1, <2>1, EmptySeq
    <3> QED BY <1>2
  <2>3. entries[1] \in Thread
    BY <1>1, <2>1, ElementOfSeq, EmptySeq
  <2>4. /\ Front(entries) \in Seq(Thread)
        /\ IsInsertion(Front(entries), entries, Len(Front(entries)), entries[Len(entries)])
    BY <1>1, <2>1, <2>3, SequenceEdits
  <2> QED BY <2>1, <2>2, <2>4, ListRemoves
<1>8. ASSUME NEW n \in DOMAIN entries, List!TakeEntry(n) PROVE ListInv'
  <2>1. /\ entries' = RemoveAt(entries, n) /\ result' = {WasLast(link, entries[n])}
        /\ link' \in {remove_entry_list(link, entries[n]), remove_list_entry(link, entries[n])}
    BY <1>8, SameLists, SameEdits DEF List!TakeEntry
  <2>2. entries[n] \in Thread
    BY <1>1, ElementOfSeq
  <2>3. RemoveAt(entries, n) \in Seq(Thread) /\ IsInsertion(RemoveAt(entries, n), entries, n-1, entries[n])
    BY <1>1, <2>2, SequenceEdits
  <2> QED BY <2>1, <2>3, ListRemoves
<1> QED BY <1>3, <1>4, <1>5, <1>6, <1>7, <1>8 DEF List!Next

LEMMA ListInvSays == ListInv => List!LinksFollowTheSequence
<1> SUFFICES ASSUME ListInv PROVE List!LinksFollowTheSequence
  OBVIOUS
<1>1. entries \in Seq(Thread) /\ Circle(link, listhead, entries) /\ DOMAIN link = Linkable
      /\ Len(entries) \in Nat
  BY FieldsAreLinks, LenProperties DEF ListInv
<1>2. IsFiniteSet(Linkable)
  BY FiniteAssumption, FS_AddElement DEF Linkable
<1>3. /\ Walk(link, listhead, "flink") = entries
      /\ Walk(link, listhead, "blink") = [n \in 1..Len(entries) |-> entries[Len(entries) + 1 - n]]
      /\ is_list_empty(link, listhead) <=> entries = <<>>
  BY <1>1, <1>2, CircleIsRead
<1>4. [n \in 1..Len(entries) |-> entries[Len(entries) + 1 - n]] = Reverse(entries)
  <2> \A n \in 1..Len(entries) : Len(entries) + 1 - n = (Len(entries) - n) + 1
    BY <1>1
  <2> QED BY DEF Reverse
<1> QED BY <1>3, <1>4, SameLists, SameWalk, SameEdits DEF List!LinksFollowTheSequence, ListInv

LEMMA ListSoundNext == ListSound /\ [UProgramsNext]_allVars => ListSound'
<1> SUFFICES ASSUME ListSound, [UProgramsNext]_allVars, kind' = "list" PROVE ListInv'
  BY DEF ListSound
<1>1. CASE ListStep
  BY <1>1, ListInvNext DEF ListStep, ListSound
<1>2. CASE UNCHANGED allVars
  <2> kind = "list" /\ UNCHANGED <<link, entries, result>>
    BY <1>2 DEF allVars, listVars
  <2> QED BY DEF ListSound, ListInv
<1> QED BY <1>1, <1>2 DEF UProgramsNext, QueueStep, JoinStep, MachineStep

-----------------------------------------------------------------------------
Mapped == INSTANCE USynch_proofs WITH
    Thread <- Process,
    ready_queue <- IF kind = "machine" THEN Machine!ReadyThreads ELSE <<>>,
    running_thread <- IF Switching THEN running_thread ELSE NULL,
    main_thread <- IF Switching THEN main_thread ELSE NULL,
    allocated <- IF kind = "machine" THEN allocated ELSE {},
    number_of_threads <- IF kind # "machine" THEN 0
                         ELSE IF version = "uthread" THEN number_of_threads
                         ELSE Cardinality(allocated)

LEMMA SameMachineLists ==
    /\ \A l, h : /\ Machine!init_list_head(l, h) = init_list_head(l, h)
                 /\ Machine!is_list_empty(l, h) <=> is_list_empty(l, h)
                 /\ Machine!remove_head_list(l, h) = remove_head_list(l, h)
    /\ \A l, h, e : Machine!insert_tail_list(l, h, e) = insert_tail_list(l, h, e)
    /\ \A l, h, d : Machine!Walk(l, h, d) = Walk(l, h, d)
    /\ \A f : Machine!Range(f) = Range(f) /\ (Machine!IsInjective(f) <=> IsInjective(f))
<1>1. \A l, h : /\ Machine!init_list_head(l, h) = init_list_head(l, h)
                /\ Machine!is_list_empty(l, h) <=> is_list_empty(l, h)
                /\ Machine!remove_head_list(l, h) = remove_head_list(l, h)
  BY DEF Machine!init_list_head, init_list_head, Machine!Linked, Linked, Machine!is_list_empty,
         is_list_empty, Machine!remove_head_list, remove_head_list
<1>2. \A l, h, e : Machine!insert_tail_list(l, h, e) = insert_tail_list(l, h, e)
  BY DEF Machine!insert_tail_list, insert_tail_list, Machine!Linked, Linked
<1>3. \A l, h, d : Machine!Walk(l, h, d) = Walk(l, h, d)
  BY DEF Machine!Walk, Walk, Machine!Cardinality, Cardinality, Machine!IsFiniteSet, IsFiniteSet
<1>4. \A f : Machine!Range(f) = Range(f) /\ (Machine!IsInjective(f) <=> IsInjective(f))
  BY DEF Machine!Range, Range, Machine!IsInjective, IsInjective
<1> QED BY <1>1, <1>2, <1>3, <1>4

LEMMA SameMappedScheduler ==
    /\ Mapped!Init <=> Scheduler!Init
    /\ [Mapped!Next]_(Mapped!vars) <=> [Scheduler!Next]_(Scheduler!vars)
<1>1. \A s : Mapped!Wake(s) <=> Scheduler!Wake(s)
  BY DEF Mapped!Wake, Scheduler!Wake, Mapped!ProgramRuns, Scheduler!ProgramRuns, Mapped!Range, Scheduler!Range,
     Mapped!Blocked, Scheduler!Blocked, Mapped!IsInjective, Scheduler!IsInjective, Mapped!ut_activate, Scheduler!ut_activate
<1>2. Mapped!Orders(Mapped!Blocked) = Scheduler!Orders(Scheduler!Blocked)
  BY DEF Mapped!Orders, Scheduler!Orders, Mapped!Blocked, Scheduler!Blocked, Mapped!Range, Scheduler!Range,
     Mapped!Cardinality, Scheduler!Cardinality, Mapped!IsFiniteSet, Scheduler!IsFiniteSet
<1>3. \A t : Mapped!ut_create(t) <=> Scheduler!ut_create(t)
  BY DEF Mapped!ut_create, Scheduler!ut_create, Mapped!ProgramRuns, Scheduler!ProgramRuns,
     Mapped!ut_activate, Scheduler!ut_activate
<1>4. \A q : Mapped!schedule(q) <=> Scheduler!schedule(q)
  BY DEF Mapped!schedule, Scheduler!schedule, Mapped!extract_next_thread, Scheduler!extract_next_thread,
     Mapped!AfterExtract, Scheduler!AfterExtract
<1>5. /\ Mapped!ut_yield <=> Scheduler!ut_yield
      /\ Mapped!ut_deactivate <=> Scheduler!ut_deactivate
      /\ Mapped!ut_exit <=> Scheduler!ut_exit
      /\ Mapped!ut_run <=> Scheduler!ut_run
      /\ Mapped!ut_run_returns <=> Scheduler!ut_run_returns
  BY <1>4 DEF Mapped!ut_yield, Scheduler!ut_yield, Mapped!ut_deactivate, Scheduler!ut_deactivate,
     Mapped!ut_exit, Scheduler!ut_exit, Mapped!ut_run, Scheduler!ut_run, Mapped!ut_run_returns, Scheduler!ut_run_returns
<1>6. Mapped!Next <=> Scheduler!Next
  BY <1>1, <1>2, <1>3, <1>5, Zenon DEF Mapped!Next, Scheduler!Next
<1>7. Mapped!Init <=> Scheduler!Init
  BY DEF Mapped!Init, Scheduler!Init
<1>8. UNCHANGED Mapped!vars <=> UNCHANGED Scheduler!vars
  BY DEF Mapped!vars, Scheduler!vars
<1> QED BY <1>6, <1>7, <1>8

-----------------------------------------------------------------------------
Stacked == Process \cup {Main}
Register == Machine!Register
Address == {"main", "ut_run", "program", "internal_start"}
Filler == {"0x0", "0x00000000", "0x11111111", "0x44444444", "0x55555555", "0x66666666",
           "0x77777777", "0", "?"}
Word == Address \cup Filler \cup (Stacked \X Register \X (1..2))
Registers == [Register -> Word]

(* Restoring t's context from its stack continues at ret with what t left.  *)
SavedWith(t, ret, st, c, lf) ==
    /\ st[t] \in Seq(Word) /\ c[t] = Len(st[t]) /\ c[t] >= 7
    /\ st[t][c[t]-6] = ret
    /\ lf[t] = [regs |-> lf[t].regs, rsp |-> c[t]-7]
    /\ lf[t].regs \in Registers
    /\ \A i \in 1..6 : st[t][c[t]-6+i] = lf[t].regs[Machine!Pushed[i]]

(* Restoring t's context starts t. *)
Startable(t, st, c) ==
    /\ st[t] \in Seq(Word) /\ c[t] = Len(st[t]) /\ c[t] >= 7
    /\ st[t][c[t]-6] = "internal_start" /\ t \in Process

Return(t) == IF t = Main THEN "ut_run" ELSE "program"

SavedIn(t, st, c, lf) == SavedWith(t, Return(t), st, c, lf) \/ Startable(t, st, c)

LEMMA SavedElsewhere ==
    ASSUME NEW t, NEW st, NEW c, NEW lf, NEW st2, NEW c2, NEW lf2,
           SavedIn(t, st, c, lf), st2[t] = st[t], c2[t] = c[t], lf2[t] = lf[t]
    PROVE  SavedIn(t, st2, c2, lf2)
BY DEF SavedIn, SavedWith, Startable

LEMMA PushedOnce ==
    /\ \A i, j \in 1..6 : Machine!Pushed[i] = Machine!Pushed[j] => i = j
    /\ \A i \in 1..6 : Machine!Pushed[i] \in Register
    /\ \A r \in Register : \E i \in 1..6 : r = Machine!Pushed[i]
<1>1. /\ Machine!Pushed[1] = "rbp" /\ Machine!Pushed[2] = "rbx" /\ Machine!Pushed[3] = "r12"
      /\ Machine!Pushed[4] = "r13" /\ Machine!Pushed[5] = "r14" /\ Machine!Pushed[6] = "r15"
      /\ DOMAIN Machine!Pushed = 1..6
  BY DEF Machine!Pushed
<1>2. \A i, j \in 1..6 : Machine!Pushed[i] = Machine!Pushed[j] => i = j
  <2> SUFFICES ASSUME NEW i \in 1..6, NEW j \in 1..6, Machine!Pushed[i] = Machine!Pushed[j] PROVE i = j
    OBVIOUS
  <2>1. i \in {1,2,3,4,5,6} /\ j \in {1,2,3,4,5,6}
    OBVIOUS
  <2> QED BY <1>1, <2>1
<1> QED BY <1>1, <1>2 DEF Register, Machine!Register, Machine!Range

LEMMA OneWord == ASSUME NEW W, NEW x \in W PROVE <<x>> \in Seq(W) /\ Len(<<x>>) = 1 /\ <<x>>[1] = x
OBVIOUS

LEMMA FrameIs ==
    ASSUME NEW ret \in Address, NEW r \in Registers
    PROVE  /\ Machine!Frame(ret, r) \in Seq(Word) /\ Len(Machine!Frame(ret, r)) = 7
           /\ Machine!Frame(ret, r)[1] = ret
           /\ \A i \in 1..6 : Machine!Frame(ret, r)[1+i] = r[Machine!Pushed[i]]
<1> DEFINE one == <<ret>>
<1>1. one \in Seq(Word) /\ Len(one) = 1 /\ one[1] = ret
  <2> ret \in Word
    BY DEF Word
  <2> QED BY OneWord
<1> DEFINE six == [i \in 1..6 |-> r[Machine!Pushed[i]]]
<1>2. six \in Seq(Word) /\ Len(six) = 6 /\ \A i \in 1..6 : six[i] = r[Machine!Pushed[i]]
  <2>1. six \in [1..6 -> Word]
    BY PushedOnce DEF Registers
  <2>2. \A i \in 1..6 : six[i] = r[Machine!Pushed[i]]
    OBVIOUS
  <2> HIDE DEF six
  <2>3. six \in Seq(Word)
    BY <2>1, SeqDef
  <2>4. Len(six) = 6
    BY <2>1, <2>3, LenProperties
  <2> QED BY <2>2, <2>3, <2>4
<1>3. Machine!Frame(ret, r) = one \o six
  BY DEF Machine!Frame
<1> HIDE DEF one, six
<1>4. one \o six \in Seq(Word) /\ IsJoin(one, six, one \o six)
  BY <1>1, <1>2, Joined
<1> DEFINE f == one \o six
<1>5. f \in Seq(Word) /\ Machine!Frame(ret, r) = f /\ IsJoin(one, six, f)
  BY <1>3, <1>4
<1> HIDE DEF f
<1>6. Len(f) = 7
  BY <1>1, <1>2, <1>5 DEF IsJoin
<1>7. f[1] = ret
  <2> 1 \in 1..1 /\ 1 \in 1..Len(one)
    BY <1>1
  <2> QED BY <1>1, <1>5 DEF IsJoin
<1>8. \A i \in 1..6 : f[1+i] = r[Machine!Pushed[i]]
  BY <1>1, <1>2, <1>5 DEF IsJoin
<1> QED BY <1>5, <1>6, <1>7, <1>8

(* What the registers are popped from the words below top. *)
LEMMA Popped ==
    ASSUME NEW s \in Seq(Word), NEW top, top = Len(s), top >= 7, NEW x \in Register
    PROVE  \E i \in 1..6 :
             /\ x = Machine!Pushed[i]
             /\ (CHOOSE n \in top-5..top : x = Machine!Pushed[6 - (top - n)]) = top-6+i
             /\ s[top-6+i] \in Word
<1>1. PICK i \in 1..6 : x = Machine!Pushed[i]
  BY PushedOnce
<1>2. top \in Nat
  BY LenProperties
<1>3. top-6+i \in top-5..top /\ 6 - (top - (top-6+i)) = i /\ top-6+i \in 1..top
  BY <1>2
<1>4. \A n \in top-5..top : x = Machine!Pushed[6 - (top - n)] => n = top-6+i
  <2> SUFFICES ASSUME NEW n \in top-5..top, x = Machine!Pushed[6 - (top - n)] PROVE n = top-6+i
    OBVIOUS
  <2>1. 6 - (top - n) \in 1..6 /\ n \in Int
    BY <1>2
  <2>2. 6 - (top - n) = i
    BY <1>1, <2>1, PushedOnce
  <2> QED BY <1>2, <2>1, <2>2
<1>5. (CHOOSE n \in top-5..top : x = Machine!Pushed[6 - (top - n)]) = top-6+i
  <2> DEFINE j == CHOOSE n \in top-5..top : x = Machine!Pushed[6 - (top - n)]
  <2>1. j \in top-5..top /\ x = Machine!Pushed[6 - (top - j)]
    BY <1>1, <1>3
  <2> HIDE DEF j
  <2>2. j = top-6+i
    BY <1>4, <2>1
  <2> QED BY <2>2 DEF j
<1>6. s[top-6+i] \in Word
  BY <1>3, ElementOfSeq
<1> QED BY <1>1, <1>5, <1>6

LEMMA RestoresWords ==
    ASSUME NEW t, NEW st, NEW top, st[t] \in Seq(Word), top = Len(st[t]), top >= 7,
           Machine!Restore(t, st, top)
    PROVE  /\ running_thread' = t /\ rip' = st[t][top-6] /\ rsp' = top-7
           /\ rsp' \in 0..Len(st[t])
           /\ regs' \in Registers
           /\ \A i \in 1..6 : regs'[Machine!Pushed[i]] = st[t][top-6+i]
<1>1. running_thread' = t /\ rip' = st[t][top-6] /\ rsp' = top-7
  BY DEF Machine!Restore
<1>2. top \in Nat
  BY LenProperties
<1>3. regs' = [x \in Register |-> st[t][CHOOSE n \in top-5..top : x = Machine!Pushed[6 - (top - n)]]]
  BY DEF Machine!Restore, Register
<1>4. \A x \in Register : \E i \in 1..6 :
        x = Machine!Pushed[i] /\ regs'[x] = st[t][top-6+i] /\ st[t][top-6+i] \in Word
  <2> TAKE x \in Register
  <2> DEFINE s == st[t]
             from == CHOOSE n \in top-5..top : x = Machine!Pushed[6 - (top - n)]
  <2>1. regs'[x] = s[from]
    BY <1>3
  <2>2. s \in Seq(Word) /\ top = Len(s)
    OBVIOUS
  <2> HIDE DEF s
  <2>3. PICK i \in 1..6 : x = Machine!Pushed[i] /\ from = top-6+i /\ s[top-6+i] \in Word
    BY <2>2, Popped
  <2> HIDE DEF from
  <2>4. x = Machine!Pushed[i] /\ regs'[x] = s[top-6+i] /\ s[top-6+i] \in Word
    BY <2>1, <2>3
  <2> QED BY <2>4 DEF s
<1>5. regs' \in Registers
  <2> \A x \in Register : regs'[x] \in Word
    BY <1>4
  <2> QED BY <1>3 DEF Registers
<1>6. ASSUME NEW i \in 1..6 PROVE regs'[Machine!Pushed[i]] = st[t][top-6+i]
  <2>1. PICK j \in 1..6 : Machine!Pushed[i] = Machine!Pushed[j] /\ regs'[Machine!Pushed[i]] = st[t][top-6+j]
    BY <1>4, PushedOnce
  <2>2. i = j
    BY <2>1, PushedOnce
  <2> QED BY <2>1, <2>2
<1>7. top-7 \in 0..top
  BY <1>2
<1> QED BY <1>1, <1>5, <1>6, <1>7

(* What is restored is what was saved. *)
LEMMA Restores ==
    ASSUME NEW t, NEW ret, NEW st, NEW c, NEW lf, SavedWith(t, ret, st, c, lf),
           Machine!Restore(t, st, c[t])
    PROVE  /\ running_thread' = t /\ rip' = ret /\ rsp' \in 0..Len(st[t])
           /\ regs' \in Registers
           /\ lf[t] = [regs |-> regs', rsp |-> rsp']
<1>1. /\ st[t] \in Seq(Word) /\ c[t] = Len(st[t]) /\ c[t] >= 7
      /\ st[t][c[t]-6] = ret
      /\ lf[t] = [regs |-> lf[t].regs, rsp |-> c[t]-7]
      /\ lf[t].regs \in Registers
      /\ \A i \in 1..6 : st[t][c[t]-6+i] = lf[t].regs[Machine!Pushed[i]]
  BY DEF SavedWith
<1>2. /\ running_thread' = t /\ rip' = st[t][c[t]-6] /\ rsp' = c[t]-7
      /\ rsp' \in 0..Len(st[t])
      /\ regs' \in Registers
      /\ \A i \in 1..6 : regs'[Machine!Pushed[i]] = st[t][c[t]-6+i]
  BY <1>1, RestoresWords
<1>3. regs' = lf[t].regs
  <2> \A x \in Register : regs'[x] = lf[t].regs[x]
    <3> TAKE x \in Register
    <3>1. PICK i \in 1..6 : x = Machine!Pushed[i]
      BY PushedOnce
    <3>2. st[t][c[t]-6+i] = lf[t].regs[Machine!Pushed[i]]
      BY <1>1
    <3>3. regs'[Machine!Pushed[i]] = st[t][c[t]-6+i]
      BY <1>2
    <3> QED BY <3>1, <3>2, <3>3
  <2> QED BY <1>1, <1>2 DEF Registers
<1> QED BY <1>1, <1>2, <1>3

(* A thread that starts. *)
LEMMA Starts ==
    ASSUME NEW t, NEW st, NEW c, Startable(t, st, c), Machine!Restore(t, st, c[t])
    PROVE  /\ running_thread' = t /\ rip' = "internal_start" /\ rsp' \in 0..Len(st[t])
           /\ regs' \in Registers /\ t \in Process
BY RestoresWords DEF Startable

-----------------------------------------------------------------------------
(* Whose stack is in use. *)
InUse == IF rip = "main" THEN Main ELSE running_thread

StacksAreSound ==
    /\ stack \in [Stacked -> Seq(Word)] /\ context \in [Stacked -> Int]
    /\ DOMAIN left = Stacked /\ regs \in Registers
    /\ rsp \in 0..Len(stack[InUse])
    /\ \A t \in (allocated \cup {Main}) \ {InUse} : SavedIn(t, stack, context, left)

InControl ==
    \/ rip = "main" /\ running_thread \notin Process
    \/ rip = "ut_run" /\ running_thread = Main
    \/ rip \in {"program", "internal_start"} /\ running_thread \in Process

AsItLeft == rip \in {"program", "ut_run"} => left[running_thread] = [regs |-> regs, rsp |-> rsp]

LEMMA ValuesAreRegisters == \A t \in Stacked : Machine!Values(t) \subseteq Registers
<1> SUFFICES ASSUME NEW t \in Stacked, NEW n \in 1..2 PROVE [r \in Register |-> <<t, r, n>>] \in Registers
  BY DEF Machine!Values, Register
<1> QED BY DEF Registers, Word

(* The caller's words and registers are on its stack, and nobody else's     *)
(* stack changes.                                                           *)
LEMMA SwitchSaves ==
    ASSUME StacksAreSound, NEW curr \in Stacked, NEW next \in Stacked, NEW ret \in Address, NEW r \in Registers,
           rsp \in 0..Len(stack[curr]), Machine!context_switch(curr, next, ret, r)
    PROVE  /\ stack' \in [Stacked -> Seq(Word)] /\ context' \in [Stacked -> Int]
           /\ DOMAIN left' = Stacked
           /\ \A t \in Stacked \ {curr} : /\ stack'[t] = stack[t] /\ context'[t] = context[t]
                                          /\ left'[t] = left[t]
           /\ SavedWith(curr, ret, stack', context', left')
           /\ Machine!Restore(next, stack', context'[next])
<1> DEFINE a == SubSeq(stack[curr], 1, rsp)
           f == Machine!Frame(ret, r)
           s == a \o f
<1>1. stack[curr] \in Seq(Word) /\ rsp \in Nat
  BY LenProperties DEF StacksAreSound
<1>2. a \in Seq(Word) /\ Len(a) = rsp
  <2>1. \A i \in 1..rsp : stack[curr][i] \in Word
    <3> TAKE i \in 1..rsp
    <3>1. i \in 1..Len(stack[curr])
      BY <1>1, LenProperties
    <3> QED BY <1>1, <3>1, ElementOfSeq
  <2> QED BY <1>1, <2>1, SubSeqProperties
<1>3. f \in Seq(Word) /\ Len(f) = 7 /\ f[1] = ret /\ \A i \in 1..6 : f[1+i] = r[Machine!Pushed[i]]
  BY FrameIs
<1>4. /\ stack' = [stack EXCEPT ![curr] = s]
      /\ context' = [context EXCEPT ![curr] = rsp + 7]
      /\ left' = [left EXCEPT ![curr] = [regs |-> r, rsp |-> rsp]]
      /\ Machine!Restore(next, stack', context'[next])
  BY DEF Machine!context_switch
<1> HIDE DEF a, f
<1>5. s \in Seq(Word) /\ IsJoin(a, f, s)
  BY <1>2, <1>3, Joined
<1> HIDE DEF s
<1>6. Len(s) = rsp + 7
  BY <1>2, <1>3, <1>5 DEF IsJoin
<1>7. s[rsp + 1] = ret /\ \A i \in 1..6 : s[rsp + 1 + i] = r[Machine!Pushed[i]]
  <2>1. \A i \in 1..7 : s[rsp + i] = f[i]
    BY <1>2, <1>3, <1>5 DEF IsJoin
  <2>2. ASSUME NEW i \in 1..6 PROVE s[rsp + 1 + i] = r[Machine!Pushed[i]]
    <3>1. 1+i \in 1..7 /\ rsp + (1+i) = rsp + 1 + i
      BY <1>1
    <3> QED BY <1>3, <2>1, <3>1
  <2>3. 1 \in 1..7
    OBVIOUS
  <2> QED BY <1>3, <2>1, <2>2, <2>3
<1>8. /\ stack'[curr] = s /\ context'[curr] = rsp + 7 /\ left'[curr] = [regs |-> r, rsp |-> rsp]
      /\ stack' \in [Stacked -> Seq(Word)] /\ context' \in [Stacked -> Int] /\ DOMAIN left' = Stacked
      /\ \A t \in Stacked \ {curr} : /\ stack'[t] = stack[t] /\ context'[t] = context[t]
                                     /\ left'[t] = left[t]
  BY <1>1, <1>4, <1>5 DEF StacksAreSound
<1>9. SavedWith(curr, ret, stack', context', left')
  <2>1. /\ context'[curr] >= 7 /\ context'[curr] - 7 = rsp /\ context'[curr] - 6 = rsp + 1
        /\ context'[curr] = Len(stack'[curr])
    <3>1. rsp + 7 >= 7 /\ rsp + 7 - 7 = rsp /\ rsp + 7 - 6 = rsp + 1
      BY <1>1
    <3>2. context'[curr] = rsp + 7 /\ Len(stack'[curr]) = rsp + 7
      BY <1>6, <1>8
    <3> QED BY <3>1, <3>2
  <2>2. left'[curr].regs = r /\ left'[curr] = [regs |-> r, rsp |-> rsp]
    BY <1>8
  <2>3. \A i \in 1..6 : stack'[curr][rsp + 1 + i] = r[Machine!Pushed[i]]
    BY <1>7, <1>8
  <2>4. stack'[curr] \in Seq(Word) /\ stack'[curr][rsp + 1] = ret
    BY <1>5, <1>7, <1>8
  <2> QED BY <2>1, <2>2, <2>3, <2>4 DEF SavedWith
<1> QED BY <1>4, <1>8, <1>9

(* What the processor is in after next was restored. *)
LEMMA RestoredIs ==
    ASSUME NEW next \in Stacked, NEW st, NEW c, NEW lf, SavedIn(next, st, c, lf), Machine!Restore(next, st, c[next])
    PROVE  /\ running_thread' = next /\ rip' # "main" /\ InControl'
           /\ rsp' \in 0..Len(st[next]) /\ regs' \in Registers
           /\ left' = lf => AsItLeft'
<1>1. CASE SavedWith(next, Return(next), st, c, lf)
  <2>1. /\ running_thread' = next /\ rip' = Return(next) /\ rsp' \in 0..Len(st[next])
        /\ regs' \in Registers
        /\ lf[next] = [regs |-> regs', rsp |-> rsp']
    BY <1>1, Restores
  <2> QED BY <2>1 DEF Return, Stacked, InControl, AsItLeft
<1>2. CASE Startable(next, st, c)
  <2>1. /\ running_thread' = next /\ rip' = "internal_start" /\ rsp' \in 0..Len(st[next])
        /\ regs' \in Registers /\ next \in Process
    BY <1>2, Starts
  <2> QED BY <2>1 DEF InControl, AsItLeft
<1> QED BY <1>1, <1>2 DEF SavedIn

LEMMA SwitchKeepsStacks ==
    ASSUME StacksAreSound, NEW curr \in Stacked, curr = InUse, allocated \subseteq Process,
           NEW next \in (allocated \cup {Main}) \ {curr}, NEW r \in Registers,
           Machine!context_switch(curr, next, Return(curr), r), allocated' = allocated
    PROVE  StacksAreSound' /\ InControl' /\ AsItLeft' /\ running_thread' = next /\ rip' # "main"
<1>1. /\ stack' \in [Stacked -> Seq(Word)] /\ context' \in [Stacked -> Int]
      /\ DOMAIN left' = Stacked
      /\ \A t \in Stacked \ {curr} : /\ stack'[t] = stack[t] /\ context'[t] = context[t]
                                     /\ left'[t] = left[t]
      /\ SavedWith(curr, Return(curr), stack', context', left')
      /\ Machine!Restore(next, stack', context'[next])
  <2> Return(curr) \in Address
    BY DEF Return, Address
  <2> next \in Stacked
    BY DEF Stacked
  <2> rsp \in 0..Len(stack[curr])
    BY DEF StacksAreSound
  <2> QED BY SwitchSaves
<1>2. \A t \in allocated \cup {Main} : SavedIn(t, stack', context', left')
  <2> TAKE t \in allocated \cup {Main}
  <2>1. CASE t = curr
    BY <1>1, <2>1 DEF SavedIn
  <2>2. CASE t # curr
    <3> t \in Stacked /\ SavedIn(t, stack, context, left)
      BY <2>2 DEF Stacked, StacksAreSound
    <3> QED BY <1>1, <2>2, SavedElsewhere
  <2> QED BY <2>1, <2>2
<1>3. /\ running_thread' = next /\ rip' # "main" /\ InControl'
      /\ rsp' \in 0..Len(stack'[next]) /\ regs' \in Registers /\ AsItLeft'
  <2> next \in Stacked /\ SavedIn(next, stack', context', left')
    BY <1>2 DEF Stacked
  <2> QED BY <1>1, RestoredIs
<1> QED BY <1>1, <1>2, <1>3 DEF StacksAreSound, InUse

LEMMA ExitKeepsStacks ==
    ASSUME StacksAreSound, NEW curr \in Process, curr = InUse, allocated \subseteq Process,
           NEW next \in (allocated \cup {Main}) \ {curr}, Machine!internal_exit(curr, next), left' = left
    PROVE  /\ StacksAreSound' /\ InControl' /\ AsItLeft' /\ running_thread' = next /\ rip' # "main"
           /\ allocated' = allocated \ {curr}
<1>1. /\ context' = context /\ stack' = [stack EXCEPT ![curr] = <<>>]
      /\ allocated' = allocated \ {curr} /\ Machine!Restore(next, stack, context[next])
  BY DEF Machine!internal_exit
<1>2. /\ stack' \in [Stacked -> Seq(Word)]
      /\ \A t \in Stacked \ {curr} : stack'[t] = stack[t]
  BY <1>1, EmptySeq DEF StacksAreSound
<1>3. \A t \in (allocated \cup {Main}) \ {curr} : SavedIn(t, stack, context, left) /\ t \in Stacked
  BY DEF Stacked, StacksAreSound
<1>4. /\ running_thread' = next /\ rip' # "main" /\ InControl'
      /\ rsp' \in 0..Len(stack[next]) /\ regs' \in Registers /\ AsItLeft'
  BY <1>1, <1>3, RestoredIs
<1>5. \A t \in (allocated \cup {Main}) \ {curr} : SavedIn(t, stack', context', left')
  BY <1>1, <1>2, <1>3, SavedElsewhere
<1>6. InUse' = next /\ stack'[next] = stack[next]
  BY <1>2, <1>3, <1>4 DEF InUse
<1>7. context' \in [Stacked -> Int] /\ DOMAIN left' = Stacked
  BY <1>1 DEF StacksAreSound
<1>8. rsp' \in 0..Len(stack'[InUse'])
  BY <1>4, <1>6
<1>9. \A t \in (allocated' \cup {Main}) \ {InUse'} : SavedIn(t, stack', context', left')
  <2> Main # curr
    BY LibraryAssumption, KindAssumption
  <2> QED BY <1>1, <1>5, <1>6
<1>10. StacksAreSound'
  BY <1>2, <1>4, <1>7, <1>8, <1>9 DEF StacksAreSound
<1> QED BY <1>1, <1>4, <1>10

-----------------------------------------------------------------------------
MachineNode == Process \cup {listhead}

(* The ready queue on the links l is q. *)
ReadyIs(l, q) ==
    /\ q \in Seq(Process)
    /\ l \in Links(MachineNode, MachineNode \cup {NULL})
    /\ Circle(l, listhead, q)

LEMMA ReadyIsRead ==
    ASSUME NEW l, NEW q, ReadyIs(l, q)
    PROVE  /\ Machine!Walk(l, listhead, "flink") = q
           /\ Machine!Walk(l, listhead, "blink") = [n \in 1..Len(q) |-> q[Len(q) + 1 - n]]
           /\ Machine!is_list_empty(l, listhead) <=> q = <<>>
           /\ q # <<>> => l[listhead].flink = Head(q)
           /\ IsInjective(q)
<1>1. q \in Seq(Process) /\ l \in Links(MachineNode, MachineNode \cup {NULL}) /\ Circle(l, listhead, q)
  BY DEF ReadyIs
<1>2. DOMAIN l = MachineNode
  BY <1>1, FieldsAreLinks
<1>3. IsFiniteSet(MachineNode)
  <2> IsFiniteSet(Process)
    BY FiniteAssumption, KindAssumption, FS_Subset
  <2> QED BY FS_AddElement DEF MachineNode
<1>4. /\ Walk(l, listhead, "flink") = q
      /\ Walk(l, listhead, "blink") = [n \in 1..Len(q) |-> q[Len(q) + 1 - n]]
      /\ is_list_empty(l, listhead) <=> q = <<>>
  BY <1>1, <1>2, <1>3, CircleIsRead
<1>5. q # <<>> => l[listhead].flink = Head(q)
  <2>1. l[listhead].flink = At(listhead, q, 1)
    BY <1>1, Neighbours
  <2>2. q # <<>> => 1 \in DOMAIN q /\ Head(q) = q[1] /\ 1 \in 1..Len(q)
    BY <1>1, EmptySeq, LenProperties
  <2> QED BY <1>1, <2>1, <2>2 DEF At
<1> QED BY <1>1, <1>4, <1>5, SameMachineLists DEF Circle

LEMMA ReadyAppends ==
    ASSUME NEW l, NEW q, ReadyIs(l, q), NEW e \in Process, e \notin Range(q)
    PROVE  ReadyIs(Machine!insert_tail_list(l, listhead, e), Append(q, e))
<1>1. q \in Seq(Process) /\ l \in Links(MachineNode, MachineNode \cup {NULL}) /\ Circle(l, listhead, q)
  BY DEF ReadyIs
<1>2. IsInsertion(q, Append(q, e), Len(q), e) /\ Append(q, e) \in Seq(Process)
  BY <1>1, SequenceEdits
<1>3. e \in MachineNode /\ e # listhead /\ listhead \in MachineNode
      /\ MachineNode \subseteq MachineNode \cup {NULL}
  BY KindAssumption DEF MachineNode
<1> DEFINE r == Append(q, e)
           l2 == insert_tail_list(l, listhead, e)
<1>4. IsInsertion(q, r, Len(q), e) /\ r \in Seq(Process)
  BY <1>2
<1>5. l2 = insert_tail_list(l, listhead, e)
  OBVIOUS
<1> HIDE DEF r, l2
<1>6. l2 \in Links(MachineNode, MachineNode \cup {NULL}) /\ Circle(l2, listhead, r)
  BY <1>1, <1>3, <1>4, <1>5, CircleInserts
<1> QED BY <1>4, <1>6, SameMachineLists DEF ReadyIs, r, l2

LEMMA ReadyExtracts ==
    ASSUME NEW l, NEW q, ReadyIs(l, q)
    PROVE  ReadyIs(Machine!AfterExtract(l), Mapped!AfterExtract(q))
<1>1. q \in Seq(Process) /\ l \in Links(MachineNode, MachineNode \cup {NULL}) /\ Circle(l, listhead, q)
  BY DEF ReadyIs
<1>2. CASE q = <<>>
  BY <1>2, ReadyIsRead DEF Machine!AfterExtract, Mapped!AfterExtract
<1>3. CASE q # <<>>
  <2>1. q[1] \in Process
    BY <1>1, <1>3, ElementOfSeq, EmptySeq
  <2>2. Tail(q) \in Seq(Process) /\ IsInsertion(Tail(q), q, 0, q[1])
    BY <1>1, <1>3, <2>1, SequenceEdits
  <2>3. listhead \in MachineNode /\ MachineNode \subseteq MachineNode \cup {NULL}
    BY DEF MachineNode
  <2> DEFINE l2 == remove_head_list(l, listhead)
  <2>4. l2 = remove_head_list(l, listhead)
    OBVIOUS
  <2> HIDE DEF l2
  <2>5. l2 \in Links(MachineNode, MachineNode \cup {NULL}) /\ Circle(l2, listhead, Tail(q))
    BY <1>1, <2>2, <2>3, <2>4, CircleRemoves
  <2>6. Machine!AfterExtract(l) = l2 /\ Mapped!AfterExtract(q) = Tail(q)
    BY <1>3, <2>4, ReadyIsRead, SameMachineLists DEF Machine!AfterExtract, Mapped!AfterExtract
  <2> QED BY <2>2, <2>5, <2>6 DEF ReadyIs
<1> QED BY <1>2, <1>3

LEMMA ReadyForgets ==
    ASSUME NEW l, NEW q, ReadyIs(l, q), NEW e \in Process, e \notin Range(q)
    PROVE  ReadyIs([l EXCEPT ![e] = Machine!Garbage], q)
<1>1. q \in Seq(Process) /\ l \in Links(MachineNode, MachineNode \cup {NULL}) /\ Circle(l, listhead, q)
  BY DEF ReadyIs
<1> DEFINE l2 == [l EXCEPT ![e] = Machine!Garbage]
<1>2. l2 \in Links(MachineNode, MachineNode \cup {NULL}) /\ DOMAIN l2 = DOMAIN l
  BY <1>1 DEF Links, Machine!Garbage, Machine!Linked
<1>3. \A x \in {listhead} \cup Range(q) : l2[x] = l[x]
  <2> listhead # e /\ \A x \in {listhead} \cup Range(q) : x \in DOMAIN l /\ x # e
    BY <1>1, KindAssumption DEF Circle
  <2> QED OBVIOUS
<1> HIDE DEF l2
<1>4. Circle(l2, listhead, q)
  BY <1>1, <1>2, <1>3, CircleIsLocal
<1>5. ReadyIs(l2, q)
  BY <1>1, <1>2, <1>4 DEF ReadyIs
<1> QED BY <1>5 DEF l2

LEMMA ReadyStartsEmpty == Machine!ut_init => ReadyIs(link, <<>>)
<1> SUFFICES ASSUME Machine!ut_init PROVE ReadyIs(link, <<>>)
  OBVIOUS
<1> DEFINE l == [n \in MachineNode |-> Machine!Garbage]
<1>1. l \in Links(MachineNode, MachineNode \cup {NULL})
  BY DEF Links, Machine!Garbage, Machine!Linked
<1>2. link = init_list_head(l, listhead)
  BY SameMachineLists DEF Machine!ut_init, Machine!Node, MachineNode
<1> HIDE DEF l
<1>3. listhead \in MachineNode /\ MachineNode \subseteq MachineNode \cup {NULL}
  BY DEF MachineNode
<1>4. init_list_head(l, listhead) \in Links(MachineNode, MachineNode \cup {NULL})
      /\ Circle(init_list_head(l, listhead), listhead, <<>>)
  BY <1>1, <1>3, EmptyCircle
<1> QED BY <1>2, <1>4, EmptySeq DEF ReadyIs

-----------------------------------------------------------------------------
Ready == Machine!ReadyThreads

MachineInv ==
    /\ version \in Version
    /\ Mapped!SchedInv
    /\ ReadyIs(link, Ready)
    /\ StacksAreSound /\ InControl /\ AsItLeft
    /\ Switching /\ running_thread = Main => Ready = <<>>
    /\ version = "uthread0" => /\ main_thread = Main
                               /\ allocated \subseteq Range(Ready) \cup {running_thread}

LEMMA MachineFacts ==
    ASSUME MachineInv, kind = "machine"
    PROVE  /\ Ready \in Seq(Process) /\ IsInjective(Ready) /\ Range(Ready) \subseteq allocated
           /\ allocated \subseteq Process /\ IsFiniteSet(allocated)
           /\ Main \notin Process /\ NULL \notin Process /\ Main # NULL
           /\ Switching <=> rip # "main"
           /\ Switching => /\ running_thread \notin Range(Ready)
                           /\ running_thread \in Process \cup {Main} /\ main_thread = Main
           /\ running_thread \in Process /\ Switching => running_thread \in allocated
           /\ version = "uthread" => number_of_threads = Cardinality(allocated)
<1>1. Main \notin Process /\ NULL \notin Process /\ Main # NULL
  BY LibraryAssumption, KindAssumption
<1>2. Switching <=> rip # "main"
  BY DEF Switching
<1>3. /\ Ready \in Seq(Process) /\ IsInjective(Ready) /\ Range(Ready) \subseteq allocated
      /\ allocated \subseteq Process
      /\ Switching => running_thread \notin Range(Ready)
      /\ running_thread \in Process /\ Switching => running_thread \in allocated
  BY SameMachineLists DEF MachineInv, Mapped!SchedInv, Mapped!TypeOK, Mapped!ReadyQueueSound, Ready,
     Mapped!IsInjective, IsInjective, Mapped!Range, Range
<1>4. IsFiniteSet(allocated)
  BY <1>3, FiniteAssumption, KindAssumption, FS_Subset
<1>5. Switching => running_thread \in Process \cup {Main}
  BY DEF Switching, MachineInv, InControl
<1>6. Switching => main_thread = Main
  BY <1>1, <1>5 DEF MachineInv, Mapped!SchedInv, Mapped!MainIsThere
<1>7. version = "uthread" => number_of_threads = Cardinality(allocated)
  BY DEF MachineInv, Mapped!SchedInv, Mapped!CountIsAllocated, Mapped!Cardinality, Cardinality, Mapped!IsFiniteSet, IsFiniteSet
<1> QED BY <1>1, <1>2, <1>3, <1>4, <1>5, <1>6, <1>7

LEMMA ReadyAfter == ASSUME NEW q, ReadyIs(link', q) PROVE Ready' = q
<1> DEFINE l == link'
<1>1. ReadyIs(l, q)
  OBVIOUS
<1>2. Ready' = Machine!Walk(l, listhead, "flink")
  BY DEF Ready, Machine!ReadyThreads
<1> HIDE DEF l
<1> QED BY <1>1, <1>2, ReadyIsRead

(* What has to be shown of a step. *)
LEMMA MachineInvFrom ==
    ASSUME MachineInv, kind = "machine", kind' = "machine", NEW q, ReadyIs(link', q),
           StacksAreSound', InControl', AsItLeft', version' = version, [Mapped!Next]_(Mapped!vars),
           running_thread' = Main /\ rip' # "main" => q = <<>>,
           version = "uthread0" => /\ main_thread' = main_thread
                                   /\ allocated' \subseteq Range(q) \cup {running_thread'}
    PROVE  MachineInv'
<1>1. Ready' = q
  BY ReadyAfter
<1>2. Mapped!SchedInv'
  BY Mapped!SchedInvNext, LibraryAssumption, KindAssumption DEF MachineInv
<1> QED BY <1>1, <1>2 DEF MachineInv, Switching

(* A call that ends in a context switch, from links l on which the ready    *)
(* queue is q.                                                              *)
LEMMA SwitchStep ==
    ASSUME MachineInv, kind = "machine", kind' = "machine",
           NEW curr \in Stacked, curr = InUse, NEW l, NEW q, ReadyIs(l, q),
           Range(q) \subseteq allocated,
           curr = Main => q # <<>>, q # <<>> => Head(q) # curr,
           NEW next, next = IF q = <<>> THEN Main ELSE Head(q),
           NEW r \in Machine!Values(curr),
           Machine!context_switch(curr, next, Return(curr), r),
           link' = Machine!AfterExtract(l), allocated' = allocated,
           Switching => curr \in Process
    PROVE  /\ StacksAreSound' /\ InControl' /\ AsItLeft' /\ Switching'
           /\ ReadyIs(link', Mapped!AfterExtract(q)) /\ Ready' = Mapped!AfterExtract(q)
           /\ running_thread' = next /\ Mapped!schedule(q)
           /\ next = Main => Mapped!AfterExtract(q) = <<>>
           /\ Range(q) \subseteq Range(Mapped!AfterExtract(q)) \cup {next}
<1>1. /\ allocated \subseteq Process /\ Main \notin Process
      /\ Switching => main_thread = Main
  BY MachineFacts
<1>2. q \in Seq(Process) /\ IsInjective(q)
  BY ReadyIsRead DEF ReadyIs
<1>3. q # <<>> => Head(q) \in Range(q) /\ Range(Tail(q)) = Range(q) \ {Head(q)}
  <2> SUFFICES ASSUME q # <<>> PROVE Head(q) \in Range(q) /\ Range(Tail(q)) = Range(q) \ {Head(q)}
    OBVIOUS
  <2> Mapped!IsInjective(q)
    BY <1>2 DEF Mapped!IsInjective, IsInjective
  <2> Head(q) \in Mapped!Range(q) /\ Mapped!Range(Tail(q)) = Mapped!Range(q) \ {Head(q)}
    BY <1>2, Mapped!TailOfInjective, LibraryAssumption, KindAssumption
  <2> QED BY DEF Mapped!Range, Range
<1>4. next \in (allocated \cup {Main}) \ {curr}
  BY <1>1, <1>3
<1>5. r \in Registers
  BY ValuesAreRegisters
<1>6. StacksAreSound' /\ InControl' /\ AsItLeft' /\ running_thread' = next /\ rip' # "main"
  BY <1>1, <1>4, <1>5, SwitchKeepsStacks DEF MachineInv
<1>7. Switching'
  BY <1>6 DEF Switching
<1>8. ReadyIs(link', Mapped!AfterExtract(q))
  BY ReadyExtracts
<1>9. Ready' = Mapped!AfterExtract(q)
  BY <1>8, ReadyAfter
<1>10. Mapped!schedule(q)
  <2>1. Machine!ReadyThreads' = Mapped!AfterExtract(q)
    BY <1>9 DEF Ready
  <2>2. curr # Main => Switching
    BY DEF InUse, Switching
  <2> QED BY <1>1, <1>6, <1>7, <2>1, <2>2 DEF Mapped!schedule, Mapped!extract_next_thread
<1>11. next = Main => Mapped!AfterExtract(q) = <<>>
  BY <1>1, <1>2, <1>3, RangeOfSeq DEF Mapped!AfterExtract
<1>12. Range(q) \subseteq Range(Mapped!AfterExtract(q)) \cup {next}
  <2>1. CASE q = <<>>
    BY <2>1 DEF Range
  <2>2. CASE q # <<>>
    BY <1>3, <2>2 DEF Mapped!AfterExtract
  <2> QED BY <2>1, <2>2
<1> QED BY <1>6, <1>7, <1>8, <1>9, <1>10, <1>11, <1>12

-----------------------------------------------------------------------------
LEMMA FramesStart ==
    ASSUME NEW s, s \in {Machine!InitialFrame, Machine!InitialFrame0}
    PROVE  s \in Seq(Word) /\ Len(s) = 8 /\ s[8-6] = "internal_start"
<1>1. Machine!InitialFrame \in Seq(Word) /\ Len(Machine!InitialFrame) = 8
      /\ Machine!InitialFrame[2] = "internal_start"
  BY DEF Machine!InitialFrame, Word, Address, Filler
<1>2. Machine!InitialFrame0 \in Seq(Word) /\ Len(Machine!InitialFrame0) = 8
      /\ Machine!InitialFrame0[2] = "internal_start"
  BY DEF Machine!InitialFrame0, Word, Address, Filler
<1>3. 8-6 = 2
  OBVIOUS
<1> QED BY <1>1, <1>2, <1>3

(* Who runs the program: main outside ut_run, or a thread. *)
LEMMA WhoCalls ==
    ASSUME MachineInv, kind = "machine", rip = "main" \/ Machine!InThread
    PROVE  /\ InUse \in Stacked /\ Mapped!ProgramRuns
           /\ ~(Switching /\ running_thread = Main)
           /\ InUse \in {Main, running_thread}
           /\ InUse # Main => InUse \in allocated
<1>1. /\ Main \notin Process /\ NULL \notin Process /\ Main # NULL
      /\ Switching <=> rip # "main"
      /\ running_thread \in Process /\ Switching => running_thread \in allocated
      /\ allocated \subseteq Process
  BY MachineFacts
<1> QED BY <1>1 DEF InUse, Stacked, Mapped!ProgramRuns, Machine!InThread

LEMMA CreateKeeps ==
    ASSUME MachineInv, kind = "machine", kind' = kind, NEW t \in Process,
           Machine!ut_create(t) \/ Machine!ut_create0(t)
    PROVE  MachineInv' /\ [Mapped!Next]_(Mapped!vars)
<1> DEFINE q == Append(Ready, t)
<1>1. PICK s \in {Machine!InitialFrame, Machine!InitialFrame0} :
        /\ stack' = [stack EXCEPT ![t] = s] /\ context' = [context EXCEPT ![t] = 8]
        /\ rip = "main" \/ Machine!InThread
        /\ t \notin allocated /\ allocated' = allocated \cup {t}
        /\ link' = Machine!insert_tail_list(link, listhead, t)
        /\ UNCHANGED <<version, running_thread, main_thread, regs, rsp, rip, left>>
        /\ version = "uthread" => number_of_threads' = number_of_threads + 1
  BY DEF Machine!ut_create, Machine!ut_create0
<1>2. /\ Ready \in Seq(Process) /\ Range(Ready) \subseteq allocated
      /\ allocated \subseteq Process /\ IsFiniteSet(allocated)
      /\ version = "uthread" => number_of_threads = Cardinality(allocated)
      /\ Main \notin Process /\ NULL \notin Process
  BY MachineFacts
<1>3. /\ InUse \in Stacked /\ Mapped!ProgramRuns /\ ~(Switching /\ running_thread = Main)
      /\ InUse # Main => InUse \in allocated
  BY <1>1, WhoCalls
<1>4. s \in Seq(Word) /\ Len(s) = 8 /\ s[8-6] = "internal_start"
  BY FramesStart
<1>5. StacksAreSound'
  <2>1. t \in Stacked /\ InUse' = InUse /\ t # InUse
    BY <1>1, <1>2, <1>3 DEF Stacked, InUse
  <2>2. /\ stack' \in [Stacked -> Seq(Word)] /\ context' \in [Stacked -> Int]
        /\ stack'[t] = s /\ context'[t] = 8
        /\ \A u \in Stacked \ {t} : stack'[u] = stack[u] /\ context'[u] = context[u]
    BY <1>1, <1>4, <2>1 DEF StacksAreSound, MachineInv
  <2>3. SavedIn(t, stack', context', left')
    BY <1>4, <2>2 DEF SavedIn, Startable
  <2>4. ASSUME NEW u \in (allocated' \cup {Main}) \ {InUse'} PROVE SavedIn(u, stack', context', left')
    <3>1. CASE u = t
      BY <2>3, <3>1
    <3>2. CASE u # t
      <4>1. u \in Stacked \ {t} /\ SavedIn(u, stack, context, left)
        BY <1>1, <1>2, <2>1, <2>4, <3>2 DEF StacksAreSound, MachineInv, Stacked
      <4>2. stack'[u] = stack[u] /\ context'[u] = context[u] /\ left'[u] = left[u]
        BY <1>1, <2>2, <4>1
      <4> QED BY <4>1, <4>2, SavedElsewhere
    <3> QED BY <3>1, <3>2
  <2>5. rsp' \in 0..Len(stack'[InUse'])
    BY <1>1, <1>3, <2>1, <2>2 DEF StacksAreSound, MachineInv
  <2> QED BY <1>1, <2>2, <2>4, <2>5 DEF StacksAreSound, MachineInv
<1>6. ReadyIs(link', q) /\ Ready' = q /\ Range(q) = Range(Ready) \cup {t}
  <2>1. ReadyIs(link', q)
    BY <1>1, <1>2, ReadyAppends DEF MachineInv
  <2>2. Range(q) = Range(Ready) \cup {t}
    <3>1. IsInjective(Ready) /\ t \notin Range(Ready)
      BY <1>1, <1>2, MachineFacts
    <3>2. Mapped!IsInjective(Ready) /\ t \notin Mapped!Range(Ready)
      BY <3>1 DEF Mapped!IsInjective, IsInjective, Mapped!Range, Range
    <3>3. Mapped!Range(q) = Mapped!Range(Ready) \cup {t}
      BY <1>2, <3>2, Mapped!AppendOfInjective, LibraryAssumption, KindAssumption
    <3> QED BY <3>3 DEF Mapped!Range, Range
  <2> QED BY <2>1, <2>2, ReadyAfter
<1>7. Mapped!ut_create(t)
  <2>1. Machine!ReadyThreads' = Machine!ReadyThreads \o <<t>>
    <3> q = Ready \o <<t>>
      BY <1>2, AppendIsConcat
    <3> QED BY <1>6 DEF Ready
  <2>2. version # "uthread" => Cardinality(allocated') = Cardinality(allocated) + 1
    BY <1>1, <1>2, FS_AddElement
  <2>3. Switching' <=> Switching
    BY <1>1 DEF Switching
  <2> HIDE DEF q
  <2> QED BY <1>1, <1>3, <2>1, <2>2, <2>3 DEF Mapped!ut_create, Mapped!ut_activate, MachineInv
<1>8. Mapped!Next
  BY <1>7 DEF Mapped!Next
<1>9. InControl' /\ AsItLeft'
  BY <1>1 DEF MachineInv, InControl, AsItLeft
<1>10. ~(running_thread' = Main /\ rip' # "main")
  BY <1>1, <1>3 DEF Switching
<1>11. version = "uthread0" => /\ main_thread' = main_thread
                               /\ allocated' \subseteq Range(q) \cup {running_thread'}
  BY <1>1, <1>6 DEF MachineInv
<1> HIDE DEF q
<1>12. MachineInv'
  BY <1>1, <1>5, <1>6, <1>8, <1>9, <1>10, <1>11, MachineInvFrom
<1> QED BY <1>8, <1>12

LEMMA ActivateKeeps ==
    ASSUME MachineInv, kind = "machine", kind' = kind, NEW t \in Process, Machine!ut_activate(t)
    PROVE  MachineInv' /\ [Mapped!Next]_(Mapped!vars)
<1> DEFINE q == Append(Ready, t)
<1>1. /\ rip = "main" \/ Machine!InThread
      /\ t \in Machine!Blocked /\ version = "uthread"
      /\ link' = Machine!insert_tail_list(link, listhead, t)
      /\ UNCHANGED <<version, number_of_threads, main_thread, allocated, running_thread,
                     stack, context, regs, rsp, rip, left>>
  BY DEF Machine!ut_activate, Machine!unswitched
<1>2. /\ Ready \in Seq(Process) /\ IsInjective(Ready) /\ Range(Ready) \subseteq allocated
      /\ allocated \subseteq Process /\ IsFiniteSet(allocated)
      /\ Main \notin Process /\ NULL \notin Process
  BY MachineFacts
<1>3. Mapped!ProgramRuns /\ ~(Switching /\ running_thread = Main)
  BY <1>1, WhoCalls
<1>4. t \in allocated /\ t \notin Range(Ready) /\ t # running_thread
  BY <1>1, SameMachineLists DEF Machine!Blocked, Ready
<1>5. ReadyIs(link', q)
  BY <1>1, <1>4, ReadyAppends DEF MachineInv
<1>6. Ready' = Ready \o <<t>>
  BY <1>2, <1>5, ReadyAfter, AppendIsConcat
<1>7. Mapped!Next
  <2>1. PICK one \in Seq(Process) : one = <<t>> /\ Mapped!IsInjective(one) /\ Mapped!Range(one) = {t}
    BY Mapped!Singleton, LibraryAssumption, KindAssumption
  <2>2. t \in Mapped!Blocked
    BY <1>2, <1>4 DEF Mapped!Blocked, Mapped!Range, Range, Ready
  <2>3. one \in Mapped!Orders(Mapped!Blocked)
    <3>1. Mapped!Blocked \subseteq allocated
      BY DEF Mapped!Blocked
    <3>2. IsFiniteSet(Mapped!Blocked)
      BY <1>2, <3>1, FS_Subset
    <3>3. Cardinality(Mapped!Blocked) \in Nat \ {0}
      BY <2>2, <3>2, FS_CardinalityType, FS_EmptySet
    <3>4. Mapped!Cardinality(Mapped!Blocked) = Cardinality(Mapped!Blocked)
      BY DEF Mapped!Cardinality, Cardinality, Mapped!IsFiniteSet, IsFiniteSet
    <3>5. 1 \in 1..Mapped!Cardinality(Mapped!Blocked) /\ one \in [1..1 -> Mapped!Blocked]
      BY <2>1, <2>2, <3>3, <3>4
    <3> QED BY <3>5 DEF Mapped!Orders
  <2>4. Mapped!Wake(one)
    <3>1. Machine!ReadyThreads' = Machine!ReadyThreads \o one
      BY <1>6, <2>1 DEF Ready
    <3>2. Switching' <=> Switching
      BY <1>1 DEF Switching
    <3>3. one # <<>> /\ Mapped!Range(one) \subseteq Mapped!Blocked
      BY <2>1, <2>2
    <3> HIDE <2>1
    <3>4. Mapped!IsInjective(one)
      BY <2>1
    <3> QED BY <1>1, <1>3, <3>1, <3>2, <3>3, <3>4 DEF Mapped!Wake, Mapped!ut_activate
  <2> QED BY <2>3, <2>4 DEF Mapped!Next
<1>8. StacksAreSound' /\ InControl' /\ AsItLeft'
  BY <1>1 DEF MachineInv, StacksAreSound, InControl, AsItLeft, InUse
<1>9. ~(running_thread' = Main /\ rip' # "main")
  BY <1>1, <1>3 DEF Switching
<1> HIDE DEF q
<1>10. MachineInv'
  BY <1>1, <1>5, <1>7, <1>8, <1>9, MachineInvFrom
<1> QED BY <1>7, <1>10

-----------------------------------------------------------------------------
(* Yielding and blocking, ut_run with somebody ready. *)
LEMMA SwitchKeeps ==
    ASSUME MachineInv, kind = "machine", kind' = kind,
           \/ Machine!ut_yield \/ Machine!ut_deactivate \/ Machine!ut_run
           \/ Machine!ut_yield0 \/ (Machine!ut_run0 /\ Ready # <<>>)
    PROVE  MachineInv' /\ [Mapped!Next]_(Mapped!vars)
<1>1. /\ Ready \in Seq(Process) /\ IsInjective(Ready) /\ Range(Ready) \subseteq allocated
      /\ allocated \subseteq Process
      /\ Main \notin Process /\ NULL \notin Process /\ Main # NULL
      /\ Switching <=> rip # "main"
      /\ Switching => running_thread \notin Range(Ready) /\ main_thread = Main
      /\ running_thread \in Process /\ Switching => running_thread \in allocated
  BY MachineFacts
<1>2. /\ Machine!is_list_empty(link, listhead) <=> Ready = <<>>
      /\ Ready # <<>> => link[listhead].flink = Head(Ready)
      /\ ReadyIs(link, Ready)
  BY ReadyIsRead DEF MachineInv
<1>3. Ready # <<>> => Head(Ready) \in Range(Ready)
  <2> SUFFICES ASSUME Ready # <<>> PROVE Head(Ready) \in Range(Ready)
    OBVIOUS
  <2> 1 \in DOMAIN Ready /\ Head(Ready) = Ready[1]
    BY <1>1, EmptySeq, LenProperties
  <2> QED BY DEF Range
<1>4. CASE Machine!ut_yield \/ Machine!ut_yield0
  <2> DEFINE q == Append(Ready, running_thread)
             l == Machine!insert_tail_list(link, listhead, running_thread)
             next == Head(Ready)
  <2>1. PICK r \in Machine!Values(running_thread) :
          /\ rip = "program" /\ running_thread \in Process
          /\ Ready # <<>> /\ link' = Machine!AfterExtract(l)
          /\ Machine!context_switch(running_thread,
               IF Machine!is_list_empty(l, listhead) THEN Main ELSE l[listhead].flink, "program", r)
          /\ UNCHANGED <<version, number_of_threads, main_thread, allocated>>
    BY <1>1, <1>2, <1>4
       DEF Machine!ut_yield, Machine!ut_yield0, Machine!schedule, Machine!schedule0,
           Machine!context_switch0, Machine!InThread, Machine!unswitched
  <2>2. running_thread \in allocated /\ running_thread \notin Range(Ready) /\ main_thread = Main
    BY <1>1, <2>1
  <2>3. ReadyIs(l, q) /\ q # <<>> /\ Head(q) = next /\ Range(q) \subseteq allocated
        /\ Range(q) = Range(Ready) \cup {running_thread} /\ next # running_thread
    <3>1. ReadyIs(l, q)
      BY <1>2, <2>1, <2>2, ReadyAppends
    <3>2. q # <<>> /\ Head(q) = next
      BY <1>1, <2>1, AppendProperties, HeadTailProperties, EmptySeq
    <3>3. Range(q) = Range(Ready) \cup {running_thread}
      <4>1. Mapped!IsInjective(Ready) /\ running_thread \notin Mapped!Range(Ready)
        BY <1>1, <2>2 DEF Mapped!IsInjective, IsInjective, Mapped!Range, Range
      <4>2. Mapped!Range(q) = Mapped!Range(Ready) \cup {running_thread}
        BY <1>1, <2>1, <4>1, Mapped!AppendOfInjective, LibraryAssumption, KindAssumption
      <4> QED BY <4>2 DEF Mapped!Range, Range
    <3> QED BY <1>1, <1>3, <2>1, <2>2, <3>1, <3>2, <3>3
  <2> HIDE DEF q, l, next
  <2>4. Machine!context_switch(running_thread, next, Return(running_thread), r)
    <3>1. ~Machine!is_list_empty(l, listhead) /\ l[listhead].flink = next
      BY <2>3, ReadyIsRead
    <3>2. Return(running_thread) = "program"
      BY <1>1, <2>1 DEF Return
    <3> QED BY <2>1, <3>1, <3>2
  <2>5. Switching /\ running_thread \in Stacked /\ running_thread = InUse /\ running_thread # Main
    BY <1>1, <2>1 DEF Stacked, InUse
  <2>6. /\ StacksAreSound' /\ InControl' /\ AsItLeft' /\ Switching'
        /\ ReadyIs(link', Mapped!AfterExtract(q))
        /\ running_thread' = next /\ Mapped!schedule(q)
        /\ next = Main => Mapped!AfterExtract(q) = <<>>
        /\ Range(q) \subseteq Range(Mapped!AfterExtract(q)) \cup {next}
    BY <2>1, <2>3, <2>4, <2>5, SwitchStep
  <2>7. Mapped!ut_yield
    <3> HIDE DEF Ready
    <3>1. Mapped!schedule(Append(Machine!ReadyThreads, running_thread))
      BY <2>6 DEF q, Ready
    <3>2. Machine!ReadyThreads # <<>>
      BY <2>1 DEF Ready
    <3> QED BY <2>1, <2>5, <2>6, <3>1, <3>2 DEF Mapped!ut_yield
  <2>8. Mapped!Next
    BY <2>7 DEF Mapped!Next
  <2>9. version = "uthread0" => /\ main_thread' = main_thread
                                /\ allocated' \subseteq Range(Mapped!AfterExtract(q)) \cup {running_thread'}
    BY <2>1, <2>3, <2>6 DEF MachineInv
  <2>10. MachineInv'
    BY <2>1, <2>6, <2>8, <2>9, MachineInvFrom
  <2> QED BY <2>8, <2>10
<1>5. CASE Machine!ut_deactivate
  <2> DEFINE next == IF Ready = <<>> THEN Main ELSE Head(Ready)
  <2>1. PICK r \in Machine!Values(running_thread) :
          /\ rip = "program" /\ running_thread \in Process
          /\ link' = Machine!AfterExtract(link)
          /\ Machine!context_switch(running_thread,
               IF Machine!is_list_empty(link, listhead) THEN main_thread ELSE link[listhead].flink,
               "program", r)
          /\ UNCHANGED <<version, number_of_threads, main_thread, allocated>>
          /\ version = "uthread"
    BY <1>5 DEF Machine!ut_deactivate, Machine!schedule, Machine!InThread, Machine!unswitched
  <2>2. Switching /\ running_thread \in Stacked /\ running_thread = InUse /\ running_thread # Main
        /\ main_thread = Main /\ Return(running_thread) = "program"
    BY <1>1, <2>1 DEF Stacked, InUse, Return
  <2>3. Machine!context_switch(running_thread, next, Return(running_thread), r)
    BY <1>2, <2>1, <2>2
  <2>4. Ready # <<>> => Head(Ready) # running_thread
    BY <1>1, <1>3, <2>2
  <2>5. next = IF Ready = <<>> THEN Main ELSE Head(Ready)
    OBVIOUS
  <2> HIDE DEF next
  <2>6. /\ StacksAreSound' /\ InControl' /\ AsItLeft' /\ Switching'
        /\ ReadyIs(link', Mapped!AfterExtract(Ready))
        /\ running_thread' = next /\ Mapped!schedule(Ready)
        /\ next = Main => Mapped!AfterExtract(Ready) = <<>>
    BY <1>1, <1>2, <2>1, <2>2, <2>3, <2>4, <2>5, SwitchStep
  <2>7. Mapped!ut_deactivate
    <3>1. Mapped!schedule(Machine!ReadyThreads)
      BY <2>6 DEF Ready
    <3> QED BY <2>1, <2>2, <2>6, <3>1 DEF Mapped!ut_deactivate
  <2>8. Mapped!Next
    BY <2>7 DEF Mapped!Next
  <2>10. MachineInv'
    BY <2>1, <2>6, <2>8, MachineInvFrom
  <2> QED BY <2>8, <2>10
<1>6. CASE Machine!ut_run \/ (Machine!ut_run0 /\ Ready # <<>>)
  <2> DEFINE next == Head(Ready)
  <2>1. PICK r \in Machine!Values(Main) :
          /\ rip = "main" /\ Ready # <<>> /\ link' = Machine!AfterExtract(link)
          /\ Machine!context_switch(Main, next, "ut_run", r)
          /\ UNCHANGED <<version, number_of_threads, allocated>>
          /\ main_thread' = Main
          /\ version = "uthread0" => main_thread' = main_thread
    <3>1. CASE Machine!ut_run
      <4>1. PICK r \in Machine!Values(Main) :
              /\ rip = "main" /\ ~Machine!is_list_empty(link, listhead)
              /\ link' = Machine!AfterExtract(link)
              /\ Machine!context_switch(Main, link[listhead].flink, "ut_run", r)
              /\ UNCHANGED <<version, number_of_threads, allocated>>
              /\ main_thread' = Main /\ version = "uthread"
        BY <3>1 DEF Machine!ut_run
      <4> QED BY <1>2, <4>1
    <3>2. CASE (Machine!ut_run0 /\ Ready # <<>>)
      <4>1. PICK r \in Machine!Values(Main) :
              /\ rip = "main" /\ link' = Machine!AfterExtract(link)
              /\ Machine!context_switch(Main, Machine!ut_next_thread,
                   IF Machine!is_list_empty(link, listhead) THEN "main" ELSE "ut_run", r)
              /\ UNCHANGED <<version, number_of_threads, main_thread, allocated>>
              /\ version = "uthread0"
        BY <3>2 DEF Machine!ut_run0, Machine!context_switch0, Machine!unswitched
      <4> QED BY <1>2, <3>2, <4>1 DEF Machine!ut_next_thread, MachineInv
    <3> QED BY <1>6, <3>1, <3>2
  <2>2. ~Switching /\ Main \in Stacked /\ Main = InUse /\ Return(Main) = "ut_run"
    BY <1>1, <2>1 DEF Stacked, InUse, Return
  <2>3. next # Main
    BY <1>1, <1>3, <2>1
  <2>5. next = IF Ready = <<>> THEN Main ELSE Head(Ready)
    BY <2>1
  <2>6. /\ StacksAreSound' /\ InControl' /\ AsItLeft' /\ Switching'
        /\ ReadyIs(link', Mapped!AfterExtract(Ready))
        /\ running_thread' = next /\ Mapped!schedule(Ready)
        /\ Range(Ready) \subseteq Range(Mapped!AfterExtract(Ready)) \cup {next}
    BY <1>1, <1>2, <2>1, <2>2, <2>3, <2>5, SwitchStep
  <2>7. Mapped!ut_run
    <3>1. Mapped!schedule(Machine!ReadyThreads) /\ Machine!ReadyThreads # <<>>
      BY <2>1, <2>6 DEF Ready
    <3> QED BY <2>1, <2>2, <2>6, <3>1 DEF Mapped!ut_run
  <2>8. Mapped!Next
    BY <2>7 DEF Mapped!Next
  <2>9. version = "uthread0" =>
           /\ main_thread' = main_thread
           /\ allocated' \subseteq Range(Mapped!AfterExtract(Ready)) \cup {running_thread'}
    <3> running_thread \notin Process
      BY <2>1 DEF MachineInv, InControl
    <3> QED BY <1>1, <2>1, <2>6 DEF MachineInv
  <2>10. MachineInv'
    BY <2>1, <2>3, <2>6, <2>8, <2>9, MachineInvFrom
  <2> QED BY <2>8, <2>10
<1> QED BY <1>4, <1>5, <1>6

-----------------------------------------------------------------------------
LEMMA ExitKeeps ==
    ASSUME MachineInv, kind = "machine", kind' = kind, Machine!ut_exit \/ Machine!ut_exit0
    PROVE  MachineInv' /\ [Mapped!Next]_(Mapped!vars)
<1> DEFINE next == IF Ready = <<>> THEN Main ELSE Head(Ready)
           q == Mapped!AfterExtract(Ready)
<1>1. /\ Ready \in Seq(Process) /\ IsInjective(Ready) /\ Range(Ready) \subseteq allocated
      /\ allocated \subseteq Process /\ IsFiniteSet(allocated)
      /\ Main \notin Process /\ NULL \notin Process /\ Main # NULL
      /\ Switching <=> rip # "main"
      /\ Switching => running_thread \notin Range(Ready) /\ main_thread = Main
      /\ running_thread \in Process /\ Switching => running_thread \in allocated
  BY MachineFacts
<1>2. /\ rip = "program" /\ running_thread \in Process
      /\ link' = [Machine!AfterExtract(link) EXCEPT ![running_thread] = Machine!Garbage]
      /\ UNCHANGED <<version, main_thread, left>>
      /\ version = "uthread" => number_of_threads' = number_of_threads - 1
  BY DEF Machine!ut_exit, Machine!ut_exit0, Machine!InThread
<1>3. Switching /\ running_thread = InUse /\ main_thread = Main
      /\ running_thread \in allocated /\ running_thread \notin Range(Ready)
  BY <1>1, <1>2 DEF InUse
<1>4. Machine!internal_exit(running_thread, next)
  <2>1. /\ Machine!is_list_empty(link, listhead) <=> Ready = <<>>
        /\ Ready # <<>> => link[listhead].flink = Head(Ready)
    BY ReadyIsRead DEF MachineInv
  <2>2. CASE Machine!ut_exit
    <3>1. Machine!internal_exit(running_thread, Machine!extract_next_thread)
      BY <2>2 DEF Machine!ut_exit
    <3>2. Machine!extract_next_thread = next
      BY <1>3, <2>1 DEF Machine!extract_next_thread
    <3> QED BY <3>1, <3>2
  <2>3. CASE Machine!ut_exit0
    <3>1. Machine!internal_exit(running_thread, Machine!ut_next_thread)
      BY <2>3 DEF Machine!ut_exit0, Machine!internal_exit0
    <3>2. Machine!ut_next_thread = next
      BY <2>1 DEF Machine!ut_next_thread
    <3> QED BY <3>1, <3>2
  <2> QED BY <2>2, <2>3
<1>5. /\ q \in Seq(Process) /\ Range(q) \subseteq Range(Ready)
      /\ Range(Ready) \subseteq Range(q) \cup {next}
      /\ next \in Range(Ready) \cup {Main}
      /\ next = Main => q = <<>>
  <2>1. CASE Ready = <<>>
    BY <1>1, <2>1 DEF Mapped!AfterExtract, Range
  <2>2. CASE Ready # <<>>
    <3>1. Mapped!IsInjective(Ready)
      BY <1>1 DEF Mapped!IsInjective, IsInjective
    <3>2. /\ Tail(Ready) \in Seq(Process) /\ Head(Ready) \in Mapped!Range(Ready)
          /\ Mapped!Range(Tail(Ready)) = Mapped!Range(Ready) \ {Head(Ready)}
      BY <1>1, <2>2, <3>1, Mapped!TailOfInjective, LibraryAssumption, KindAssumption
    <3> QED BY <1>1, <2>2, <3>2 DEF Mapped!AfterExtract, Mapped!Range, Range
  <2> QED BY <2>1, <2>2
<1>6. next \in (allocated \cup {Main}) \ {running_thread}
  <2> HIDE DEF next, q
  <2> QED BY <1>1, <1>2, <1>3, <1>5
<1>7. ReadyIs(link', q)
  <2>1. ReadyIs(Machine!AfterExtract(link), q)
    BY ReadyExtracts DEF MachineInv
  <2> DEFINE l == Machine!AfterExtract(link)
  <2>2. ReadyIs(l, q) /\ running_thread \notin Range(q)
    BY <1>3, <1>5, <2>1
  <2> HIDE DEF l, q
  <2>3. ReadyIs([l EXCEPT ![running_thread] = Machine!Garbage], q)
    BY <1>2, <2>2, ReadyForgets
  <2> QED BY <1>2, <2>3 DEF l
<1>8. Ready' = q
  BY <1>7, ReadyAfter
<1> HIDE DEF next
<1>9. /\ StacksAreSound' /\ InControl' /\ AsItLeft' /\ running_thread' = next /\ rip' # "main"
      /\ allocated' = allocated \ {running_thread}
  BY <1>1, <1>2, <1>3, <1>4, <1>6, ExitKeepsStacks DEF MachineInv
<1>10. Mapped!ut_exit
  <2>1. Switching'
    BY <1>9 DEF Switching
  <2>2. Cardinality(allocated') = Cardinality(allocated) - 1
    BY <1>1, <1>3, <1>9, FS_RemoveElement
  <2>3. Mapped!schedule(Machine!ReadyThreads)
    <3>1. Machine!ReadyThreads' = Mapped!AfterExtract(Machine!ReadyThreads)
      BY <1>8 DEF Ready
    <3> QED BY <1>2, <1>3, <1>9, <2>1, <3>1 DEF Mapped!schedule, Mapped!extract_next_thread, next, Ready
  <2> QED BY <1>2, <1>3, <1>9, <2>1, <2>2, <2>3 DEF Mapped!ut_exit, MachineInv
<1>11. Mapped!Next
  BY <1>10 DEF Mapped!Next
<1>12. version = "uthread0" => /\ main_thread' = main_thread
                               /\ allocated' \subseteq Range(q) \cup {running_thread'}
  BY <1>2, <1>5, <1>9 DEF MachineInv
<1>13. running_thread' = Main /\ rip' # "main" => q = <<>>
  BY <1>5, <1>9
<1> HIDE DEF q
<1>14. MachineInv'
  BY <1>2, <1>7, <1>9, <1>11, <1>12, <1>13, MachineInvFrom
<1> QED BY <1>11, <1>14

LEMMA StartKeeps ==
    ASSUME MachineInv, kind = "machine", kind' = kind, Machine!internal_start
    PROVE  MachineInv' /\ [Mapped!Next]_(Mapped!vars)
<1>1. /\ rip = "internal_start" /\ rip' = "program"
      /\ left' = [left EXCEPT ![running_thread] = [regs |-> regs, rsp |-> rsp]]
      /\ UNCHANGED <<version, number_of_threads, main_thread, allocated, running_thread, link,
                     stack, context, regs, rsp>>
  BY DEF Machine!internal_start, Machine!unswitched
<1>2. running_thread \in Process
  BY <1>1 DEF MachineInv, InControl
<1>3. /\ Main \notin Process /\ allocated \subseteq Process
  BY MachineFacts
<1>4. InUse = running_thread /\ InUse' = running_thread /\ running_thread \in Stacked
  BY <1>1, <1>2 DEF InUse, Stacked
<1>5. DOMAIN left = Stacked /\ stack \in [Stacked -> Seq(Word)]
  BY DEF MachineInv, StacksAreSound
<1>6. /\ left'[running_thread] = [regs |-> regs, rsp |-> rsp] /\ DOMAIN left' = Stacked
      /\ \A t \in Stacked \ {running_thread} : left'[t] = left[t]
  BY <1>1, <1>4, <1>5
<1>7. ASSUME NEW t \in (allocated' \cup {Main}) \ {InUse'} PROVE SavedIn(t, stack', context', left')
  <2>1. t \in Stacked \ {running_thread} /\ SavedIn(t, stack, context, left)
    BY <1>1, <1>3, <1>4, <1>7 DEF MachineInv, StacksAreSound, Stacked
  <2>2. stack'[t] = stack[t] /\ context'[t] = context[t] /\ left'[t] = left[t]
    BY <1>1, <1>6, <2>1
  <2> QED BY <2>1, <2>2, SavedElsewhere
<1>8. StacksAreSound'
  BY <1>1, <1>4, <1>6, <1>7 DEF MachineInv, StacksAreSound
<1>9. InControl' /\ AsItLeft'
  BY <1>1, <1>2, <1>6 DEF InControl, AsItLeft
<1>10. ReadyIs(link', Ready) /\ Ready' = Ready
  BY <1>1, ReadyAfter DEF MachineInv
<1>11. UNCHANGED Mapped!vars
  <2> Switching' <=> Switching
    BY <1>1 DEF Switching
  <2> Machine!ReadyThreads' = Machine!ReadyThreads
    BY <1>10 DEF Ready
  <2> QED BY <1>1 DEF Mapped!vars
<1>12. running_thread' # Main
  BY <1>1, <1>2, <1>3
<1>13. version = "uthread0" => /\ main_thread' = main_thread
                               /\ allocated' \subseteq Range(Ready) \cup {running_thread'}
  BY <1>1 DEF MachineInv
<1>14. MachineInv'
  BY <1>1, <1>8, <1>9, <1>10, <1>11, <1>12, <1>13, MachineInvFrom
<1> QED BY <1>11, <1>14

LEMMA ReturnKeeps ==
    ASSUME MachineInv, kind = "machine", kind' = kind,
           Machine!ut_run_returns \/ Machine!ut_run0_returns
    PROVE  MachineInv' /\ [Mapped!Next]_(Mapped!vars)
<1>1. /\ rip = "ut_run" /\ rip' = "main"
      /\ UNCHANGED <<version, number_of_threads, allocated, link, stack, context, regs, rsp, left>>
      /\ \/ /\ version = "uthread" /\ Machine!is_list_empty(link, listhead)
            /\ number_of_threads = 0 /\ running_thread' = NULL
         \/ version = "uthread0" /\ UNCHANGED <<running_thread, main_thread>>
  BY DEF Machine!ut_run_returns, Machine!ut_run0_returns, Machine!unswitched
<1>2. running_thread = Main
  BY <1>1 DEF MachineInv, InControl
<1>3. /\ Main \notin Process /\ NULL \notin Process /\ Main # NULL /\ Switching
      /\ allocated \subseteq Process /\ IsFiniteSet(allocated)
      /\ version = "uthread" => number_of_threads = Cardinality(allocated)
  BY <1>1, MachineFacts
<1>4. Ready = <<>>
  BY <1>2, <1>3 DEF MachineInv
<1>5. version = "uthread0" => Cardinality(allocated) = 0
  <2> SUFFICES ASSUME version = "uthread0" PROVE allocated = {}
    BY <1>3, FS_EmptySet
  <2> allocated \subseteq Range(<<>>) \cup {Main}
    BY <1>2, <1>4 DEF MachineInv
  <2> QED BY <1>3 DEF Range
<1>6. ReadyIs(link', Ready) /\ Ready' = Ready
  BY <1>1, ReadyAfter DEF MachineInv
<1>7. Mapped!ut_run_returns
  <2>1. ~Switching'
    BY <1>1 DEF Switching
  <2>2. Machine!ReadyThreads' = Machine!ReadyThreads /\ Machine!ReadyThreads = <<>>
    BY <1>4, <1>6 DEF Ready
  <2> QED BY <1>1, <1>2, <1>3, <1>5, <2>1, <2>2 DEF Mapped!ut_run_returns
<1>8. Mapped!Next
  BY <1>7 DEF Mapped!Next
<1>9. InUse = Main /\ InUse' = Main
  BY <1>1, <1>2 DEF InUse
<1>10. StacksAreSound'
  BY <1>1, <1>9 DEF MachineInv, StacksAreSound
<1>11. InControl' /\ AsItLeft'
  BY <1>1, <1>2, <1>3 DEF InControl, AsItLeft
<1>12. version = "uthread0" => /\ main_thread' = main_thread
                               /\ allocated' \subseteq Range(Ready) \cup {running_thread'}
  BY <1>1 DEF MachineInv
<1>13. MachineInv'
  BY <1>1, <1>6, <1>8, <1>10, <1>11, <1>12, MachineInvFrom
<1> QED BY <1>8, <1>13

(* ut_run of uthread0 with nobody ready. *)
LEMMA RunNobodyKeeps ==
    ASSUME MachineInv, kind = "machine", kind' = kind, Machine!ut_run0, Ready = <<>>
    PROVE  MachineInv' /\ [Mapped!Next]_(Mapped!vars)
<1>1. /\ Machine!is_list_empty(link, listhead) /\ ReadyIs(link, Ready)
  BY ReadyIsRead DEF MachineInv
<1>2. PICK r \in Machine!Values(Main) :
        /\ version = "uthread0" /\ rip = "main" /\ link' = link
        /\ Machine!context_switch(Main, Main, "main", r)
        /\ UNCHANGED <<version, number_of_threads, main_thread, allocated>>
  BY <1>1 DEF Machine!ut_run0, Machine!context_switch0, Machine!ut_next_thread,
     Machine!AfterExtract, Machine!unswitched
<1>3. Main \in Stacked /\ "main" \in Address /\ r \in Registers /\ InUse = Main
      /\ allocated \subseteq Process /\ Main \notin Process
  BY <1>2, ValuesAreRegisters, MachineFacts DEF Stacked, Address, InUse
<1>4. /\ stack' \in [Stacked -> Seq(Word)] /\ context' \in [Stacked -> Int]
      /\ DOMAIN left' = Stacked
      /\ \A t \in Stacked \ {Main} : /\ stack'[t] = stack[t] /\ context'[t] = context[t]
                                     /\ left'[t] = left[t]
      /\ SavedWith(Main, "main", stack', context', left')
      /\ Machine!Restore(Main, stack', context'[Main])
  <2> rsp \in 0..Len(stack[Main])
    BY <1>3 DEF MachineInv, StacksAreSound
  <2> QED BY <1>2, <1>3, SwitchSaves DEF MachineInv
<1>5. /\ running_thread' = Main /\ rip' = "main" /\ rsp' \in 0..Len(stack'[Main])
      /\ regs' \in Registers
  BY <1>4, Restores
<1>6. InUse' = Main
  BY <1>5 DEF InUse
<1>7. ASSUME NEW t \in (allocated' \cup {Main}) \ {Main} PROVE SavedIn(t, stack', context', left')
  <2>1. t \in Stacked \ {Main} /\ SavedIn(t, stack, context, left)
    BY <1>2, <1>3, <1>7 DEF MachineInv, StacksAreSound, Stacked
  <2>2. stack'[t] = stack[t] /\ context'[t] = context[t] /\ left'[t] = left[t]
    BY <1>4, <2>1
  <2> QED BY <2>1, <2>2, SavedElsewhere
<1>8. StacksAreSound'
  BY <1>4, <1>5, <1>6, <1>7 DEF StacksAreSound
<1>9. InControl' /\ AsItLeft'
  BY <1>3, <1>5 DEF InControl, AsItLeft
<1>10. ReadyIs(link', Ready) /\ Ready' = Ready
  BY <1>1, <1>2, ReadyAfter
<1>11. UNCHANGED Mapped!vars
  <2> ~Switching' /\ ~Switching
    BY <1>2, <1>5 DEF Switching
  <2> Machine!ReadyThreads' = Machine!ReadyThreads
    BY <1>10 DEF Ready
  <2> QED BY <1>2 DEF Mapped!vars
<1>12. allocated' \subseteq Range(Ready) \cup {running_thread'}
  <2>1. allocated \subseteq Range(Ready) \cup {running_thread} /\ running_thread \notin Process
    BY <1>2 DEF MachineInv, InControl
  <2> QED BY <1>2, <1>3, <2>1
<1>13. MachineInv'
  BY <1>2, <1>5, <1>8, <1>9, <1>10, <1>11, <1>12, MachineInvFrom
<1> QED BY <1>11, <1>13

LEMMA MachineInvNext ==
    ASSUME MachineInv, kind = "machine", kind' = kind, Machine!Next
    PROVE  MachineInv' /\ [Mapped!Next]_(Mapped!vars)
BY CreateKeeps, ActivateKeeps, StartKeeps, SwitchKeeps, ExitKeeps, ReturnKeeps, RunNobodyKeeps
   DEF Machine!Next

LEMMA MachineInvInit == Machine!Init /\ kind = "machine" => MachineInv /\ Mapped!Init
<1> SUFFICES ASSUME Machine!Init, kind = "machine" PROVE MachineInv /\ Mapped!Init
  OBVIOUS
<1>1. /\ version \in Version /\ Machine!ut_init /\ number_of_threads = 0 /\ running_thread = NULL
      /\ version = "uthread0" => main_thread = Main
      /\ allocated = {} /\ stack = [t \in Stacked |-> <<>>] /\ context = [t \in Stacked |-> 0]
      /\ regs \in Machine!Values(Main) /\ rsp = 0 /\ rip = "main"
      /\ left = [t \in Stacked |-> [regs |-> regs, rsp |-> 0]]
  BY DEF Machine!Init, Stacked
<1>2. ReadyIs(link, <<>>)
  BY <1>1, ReadyStartsEmpty
<1>3. Ready = <<>>
  BY <1>2, ReadyIsRead DEF Ready, Machine!ReadyThreads
<1>4. ~Switching
  BY <1>1 DEF Switching
<1>5. Mapped!Init
  BY <1>1, <1>3, <1>4, FS_EmptySet, KindAssumption DEF Mapped!Init, Ready, MachineInv
<1>6. Mapped!SchedInv
  BY <1>5, Mapped!SchedInvInit, LibraryAssumption, KindAssumption
<1>7. StacksAreSound
  <2>1. Main \in Stacked /\ InUse = Main
    BY <1>1 DEF Stacked, InUse
  <2>2. stack \in [Stacked -> Seq(Word)] /\ context \in [Stacked -> Int] /\ DOMAIN left = Stacked
    BY <1>1, EmptySeq
  <2>3. regs \in Registers
    BY <1>1, <2>1, ValuesAreRegisters
  <2>4. rsp \in 0..Len(stack[InUse])
    BY <1>1, <2>1
  <2>5. (allocated \cup {Main}) \ {InUse} = {}
    BY <1>1, <2>1
  <2> QED BY <2>2, <2>3, <2>4, <2>5 DEF StacksAreSound
<1>8. InControl /\ AsItLeft
  BY <1>1, LibraryAssumption, KindAssumption DEF InControl, AsItLeft
<1> QED BY <1>1, <1>2, <1>3, <1>4, <1>5, <1>6, <1>7, <1>8 DEF MachineInv

-----------------------------------------------------------------------------
MachineSound == kind = "machine" => MachineInv

LEMMA MachineSoundNext ==
    MachineSound /\ [UProgramsNext]_allVars => MachineSound' /\ [Scheduler!Next]_(Scheduler!vars)
<1> SUFFICES ASSUME MachineSound, [UProgramsNext]_allVars
             PROVE  MachineSound' /\ [Mapped!Next]_(Mapped!vars)
  BY SameMappedScheduler
<1>1. CASE MachineStep
  <2> kind = "machine" /\ kind' = kind /\ Machine!Next /\ MachineInv
    BY <1>1 DEF MachineStep, MachineSound
  <2> QED BY MachineInvNext DEF MachineSound
<1>2. CASE UNCHANGED allVars
  <2>1. UNCHANGED <<kind, version, number_of_threads, running_thread, main_thread, allocated, link,
                    stack, context, regs, rsp, rip, left>>
    BY <1>2 DEF allVars, threadVars, machineVars
  <2>2. (Switching' <=> Switching) /\ Machine!ReadyThreads' = Machine!ReadyThreads
    BY <2>1 DEF Switching, Machine!ReadyThreads, Machine!Walk
  <2>3. UNCHANGED Mapped!vars
    BY <2>1, <2>2 DEF Mapped!vars
  <2>4. MachineSound'
    <3> SUFFICES ASSUME kind' = "machine" PROVE MachineInv'
      BY DEF MachineSound
    <3>1. MachineInv /\ kind = "machine" /\ kind' = "machine"
      BY <2>1 DEF MachineSound
    <3>2. StacksAreSound' /\ InControl' /\ AsItLeft'
      BY <2>1, <3>1 DEF MachineInv, StacksAreSound, InControl, AsItLeft, InUse
    <3>3. ReadyIs(link', Ready)
      BY <2>1, <3>1 DEF MachineInv
    <3>4. running_thread' = Main /\ rip' # "main" => Ready = <<>>
      BY <2>1, <3>1 DEF MachineInv, Switching
    <3>5. version = "uthread0" => /\ main_thread' = main_thread
                                  /\ allocated' \subseteq Range(Ready) \cup {running_thread'}
      BY <2>1, <3>1 DEF MachineInv
    <3> QED BY <2>1, <2>3, <3>1, <3>2, <3>3, <3>4, <3>5, MachineInvFrom
  <2> QED BY <2>3, <2>4
<1>3. CASE QueueStep \/ JoinStep \/ ListStep
  <2>1. kind # "machine" /\ kind' # "machine"
    BY <1>3 DEF QueueStep, JoinStep, ListStep
  <2>2. ~Switching /\ ~Switching'
    BY <2>1 DEF Switching
  <2> QED BY <2>1, <2>2 DEF Mapped!vars, MachineSound
<1> QED BY <1>1, <1>2, <1>3 DEF UProgramsNext

LEMMA MachineSoundInit == Init => MachineSound /\ Scheduler!Init
<1> SUFFICES ASSUME Init PROVE MachineSound /\ Mapped!Init
  BY SameMappedScheduler
<1>1. CASE kind = "machine"
  <2> Machine!Init
    BY <1>1 DEF Init
  <2> QED BY <1>1, MachineInvInit DEF MachineSound
<1>2. CASE kind # "machine"
  BY <1>2 DEF MachineSound, Mapped!Init, Switching
<1> QED BY <1>1, <1>2

LEMMA ListSoundInit == Init => ListSound
BY ListInvInit DEF Init, ListSound

LEMMA MachineInvSays ==
    ASSUME MachineInv, kind = "machine" PROVE Machine!LinksAgree /\ Machine!ResumesAsItLeft
<1>1. /\ Ready \in Seq(Process) /\ IsInjective(Ready) /\ Range(Ready) \subseteq allocated
      /\ running_thread \in Process /\ Switching => running_thread \in allocated
      /\ Switching <=> rip # "main"
  BY MachineFacts
<1>2. Machine!Walk(link, listhead, "blink") = [n \in 1..Len(Ready) |-> Ready[Len(Ready) + 1 - n]]
  BY ReadyIsRead DEF MachineInv
<1>3. Machine!LinksAgree
  BY <1>1, <1>2, SameMachineLists DEF Machine!LinksAgree, Ready
<1>4. Machine!ResumesAsItLeft
  BY <1>1 DEF Machine!ResumesAsItLeft, MachineInv, AsItLeft, InControl
<1> QED BY <1>3, <1>4

(* The links of a list are a circle that reads as the sequence the          *)
(* operations describe, in both directions, after any sequence of calls of  *)
(* list.h on any set of entries; and so are those of the first user         *)
(* threads' ready queue, which holds allocated descriptors only.            *)
THEOREM LinksAreCircles == Spec => []LinksAgree
<1>1. Init => ListSound /\ MachineSound
  BY ListSoundInit, MachineSoundInit
<1>2. ListSound /\ MachineSound /\ [UProgramsNext]_allVars => ListSound' /\ MachineSound'
  BY ListSoundNext, MachineSoundNext
<1>3. ListSound /\ MachineSound => LinksAgree
  BY ListInvSays, MachineInvSays DEF ListSound, MachineSound, LinksAgree
<1> QED BY <1>1, <1>2, <1>3, PTL DEF Spec, UProgramsNext

(* A thread that gets the processor back has the registers and the stack    *)
(* pointer it had when it called, for any number of threads, both versions  *)
(* of the library and every sequence of calls.                              *)
THEOREM ContextsAreRestored == Spec => []ResumesAsItLeft
<1>1. Init => MachineSound
  BY MachineSoundInit
<1>2. MachineSound /\ [UProgramsNext]_allVars => MachineSound'
  BY MachineSoundNext
<1>3. MachineSound => ResumesAsItLeft
  BY MachineInvSays DEF MachineSound, ResumesAsItLeft
<1> QED BY <1>1, <1>2, <1>3, PTL DEF Spec, UProgramsNext

(* The stacks, registers and links of the first user threads implement the  *)
(* scheduler of UThread.                                                    *)
THEOREM MachineIsAScheduler == Spec => MachineImplementsUThread
<1>1. Init => MachineSound /\ Scheduler!Init
  BY MachineSoundInit
<1>2. MachineSound /\ [UProgramsNext]_allVars =>
        MachineSound' /\ [Scheduler!Next]_(Scheduler!vars)
  BY MachineSoundNext
<1> QED BY <1>1, <1>2, PTL DEF Spec, UProgramsNext, MachineImplementsUThread, Scheduler!Spec

-----------------------------------------------------------------------------
(* The scheduler of the threads that can be joined, with its theorems.      *)
J == INSTANCE USynch_proofs WITH Thread <- Joiner

(* The scheduler under Join is that of J. *)
LEMMA SameJoinScheduler ==
    /\ Join!Init <=> J!Init
    /\ \A t : Join!ut_create(t) <=> J!ut_create(t)
    /\ \A s : Join!ut_activate(s) <=> J!ut_activate(s)
    /\ \A q : Join!schedule(q) <=> J!schedule(q)
    /\ Join!ut_yield <=> J!ut_yield
    /\ Join!ut_run <=> J!ut_run
    /\ Join!ut_run_returns <=> J!ut_run_returns
    /\ Join!ut_deactivate <=> J!ut_deactivate
    /\ \A f : Join!Range(f) = J!Range(f)
    /\ \A f : Join!IsInjective(f) <=> J!IsInjective(f)
    /\ Join!Blocked = J!Blocked
    /\ Join!vars = J!vars
BY DEF Join!ut_create, J!ut_create, Join!ut_activate, J!ut_activate, Join!ut_yield, J!ut_yield,
       Join!ut_run, J!ut_run, Join!ut_run_returns, J!ut_run_returns,
       Join!ut_deactivate, J!ut_deactivate, Join!ProgramRuns, J!ProgramRuns,
       Join!schedule, J!schedule, Join!extract_next_thread, J!extract_next_thread,
       Join!AfterExtract, J!AfterExtract, Join!Init, J!Init, Join!Range, J!Range,
       Join!IsInjective, J!IsInjective, Join!Blocked, J!Blocked, Join!vars, J!vars

LEMMA SameWake == \A s : Join!Wake(s) <=> J!Wake(s)
BY SameJoinScheduler DEF Join!Wake, J!Wake, Join!ProgramRuns, J!ProgramRuns

-----------------------------------------------------------------------------
(* Threads that can be joined.                                              *)

LivingJoiners == Join!JoinersWaitForTheLiving

(* The inductive invariant of UJoin.  The main thread gets control only     *)
(* when the ready queue is empty, so whoever is left then is blocked.       *)
JoinTypes ==
    /\ alive_queue \in Seq(Joiner)
    /\ join_waiters \in [Joiner -> Seq(Joiner)]

MainRunsLast == running_thread = Main => ready_queue = <<>>

JoinInv == J!SchedInv /\ JoinTypes /\ LivingJoiners /\ MainRunsLast

JoinSound == kind = "join" => JoinInv

LEMMA JoinFacts ==
    ASSUME JoinInv
    PROVE  /\ ready_queue \in Seq(Joiner) /\ J!IsInjective(ready_queue)
           /\ J!Range(ready_queue) \subseteq allocated /\ allocated \subseteq Joiner
           /\ running_thread \notin J!Range(ready_queue)
           /\ running_thread \in Joiner => running_thread \in allocated /\ main_thread = Main
           /\ main_thread \in {Main, NULL}
           /\ running_thread = NULL => main_thread = NULL
           /\ Main \notin Joiner /\ NULL \notin Joiner /\ Main # NULL
           /\ alive_queue \in Seq(Joiner) /\ join_waiters \in [Joiner -> Seq(Joiner)]
           /\ J!IsInjective(alive_queue) /\ J!Range(alive_queue) = allocated
           /\ \A t \in Joiner : J!IsInjective(join_waiters[t])
           /\ \A t \in Joiner : join_waiters[t] # <<>> => t \in allocated
           /\ \A t, u \in Joiner :
                  t # u => J!Range(join_waiters[t]) \cap J!Range(join_waiters[u]) = {}
           /\ \A t \in Joiner : J!Range(join_waiters[t]) \subseteq J!Blocked
           /\ J!Blocked = allocated \ (J!Range(ready_queue) \cup {running_thread})
BY SameJoinScheduler, LibraryAssumption, KindAssumption
   DEF JoinInv, J!SchedInv, J!TypeOK, J!ReadyQueueSound, J!MainIsThere, JoinTypes, LivingJoiners,
       Join!JoinersWaitForTheLiving, Join!Joining, J!Blocked

(* What has to be shown of a step whose effect on the lists of joiners is   *)
(* known.                                                                   *)
LEMMA JoinInvFrom ==
    ASSUME J!SchedInv', MainRunsLast',
           alive_queue' \in Seq(Joiner), join_waiters' \in [Joiner -> Seq(Joiner)],
           J!IsInjective(alive_queue'), J!Range(alive_queue') = allocated',
           \A t \in Joiner : J!IsInjective(join_waiters'[t]),
           \A t \in Joiner : join_waiters'[t] # <<>> => t \in allocated',
           \A t, u \in Joiner :
              t # u => J!Range(join_waiters'[t]) \cap J!Range(join_waiters'[u]) = {},
           \A t \in Joiner : J!Range(join_waiters'[t]) \subseteq J!Blocked'
    PROVE  JoinInv'
<1>1. Join!Blocked' = J!Blocked'
  BY DEF Join!Blocked, J!Blocked, Join!Range, J!Range
<1>2. Join!Joining' \subseteq Join!Blocked'
  BY <1>1, SameJoinScheduler DEF Join!Joining
<1> QED BY <1>2, SameJoinScheduler DEF JoinInv, JoinTypes, LivingJoiners, Join!JoinersWaitForTheLiving

(* Who is blocked after a context switch that leaves q to choose from. *)
LEMMA BlockedAfter ==
    ASSUME JoinInv, NEW q \in Seq(Joiner), J!IsInjective(q), J!schedule(q),
           main_thread \in {Main, NULL}, allocated' \subseteq Joiner
    PROVE  J!Blocked' = allocated' \ J!Range(q)
<1>1. J!Range(q) = J!Range(ready_queue') \cup ({running_thread'} \cap Joiner)
  BY J!ScheduleKeepsAll, LibraryAssumption, KindAssumption
<1> QED BY <1>1 DEF J!Blocked

(* A switch to the main thread leaves nobody ready. *)
LEMMA SwitchRunsMainLast ==
    ASSUME NEW q \in Seq(Joiner), J!schedule(q)
    PROVE  MainRunsLast'
<1>1. CASE q = <<>>
  BY <1>1 DEF J!schedule, J!AfterExtract, MainRunsLast
<1>2. CASE q # <<>>
  <2> running_thread' \in Joiner
    BY <1>2, HeadTailProperties DEF J!schedule, J!extract_next_thread
  <2> QED BY LibraryAssumption, KindAssumption DEF MainRunsLast
<1> QED BY <1>1, <1>2

(* A call that switches and changes no list of the joiners; threads that    *)
(* were blocked stay blocked.                                               *)
LEMMA SwitchKeepsJoiners ==
    ASSUME JoinInv, [J!Next]_(J!vars), NEW q \in Seq(Joiner), J!IsInjective(q), J!schedule(q),
           J!Range(q) \subseteq J!Range(ready_queue) \cup {running_thread},
           UNCHANGED <<allocated, alive_queue, join_waiters>>
    PROVE  JoinInv'
<1>1. J!SchedInv'
  BY J!SchedInvNext, LibraryAssumption, KindAssumption DEF JoinInv
<1>2. MainRunsLast'
  BY SwitchRunsMainLast
<1>3. J!Blocked \subseteq J!Blocked'
  BY JoinFacts, BlockedAfter
<1> QED BY <1>1, <1>2, <1>3, JoinFacts, JoinInvFrom

-----------------------------------------------------------------------------
LEMMA JoinCreateKeeps == ASSUME JoinInv, NEW t \in Joiner, Join!join_create(t) PROVE JoinInv'
<1>1. /\ J!ut_create(t) /\ t \notin allocated /\ allocated' = allocated \cup {t}
      /\ alive_queue' = Append(alive_queue, t)
      /\ join_waiters' = [join_waiters EXCEPT ![t] = <<>>]
      /\ ready_queue' = ready_queue \o <<t>> /\ running_thread' = running_thread
      /\ running_thread \in Joiner \cup {NULL}
  BY SameJoinScheduler
     DEF Join!join_create, Join!event_init, J!ut_create, J!ut_activate, J!ProgramRuns
<1>2. join_waiters' = join_waiters
  BY <1>1, JoinFacts
<1>3. J!SchedInv'
  <2> J!Next
    BY <1>1 DEF J!Next
  <2> QED BY J!SchedInvNext, LibraryAssumption, KindAssumption DEF JoinInv
<1>4. J!Range(ready_queue') = J!Range(ready_queue) \cup {t}
  <2>1. PICK one \in Seq(Joiner) : one = <<t>> /\ J!IsInjective(one) /\ J!Range(one) = {t}
    BY J!Singleton, LibraryAssumption, KindAssumption
  <2>2. J!IsInjective(one) /\ J!Range(ready_queue) \cap J!Range(one) = {}
    BY <1>1, <2>1, JoinFacts
  <2>3. ready_queue' = ready_queue \o one
    BY <1>1, <2>1
  <2>4. J!Range(ready_queue \o one) = J!Range(ready_queue) \cup J!Range(one)
    BY <2>2, JoinFacts, J!ConcatOfInjective, LibraryAssumption, KindAssumption, ZenonT(60)
  <2> QED BY <2>1, <2>3, <2>4
<1>5. J!Blocked' = J!Blocked
  BY <1>1, <1>4, JoinFacts DEF J!Blocked
<1>6. /\ alive_queue' \in Seq(Joiner) /\ J!IsInjective(alive_queue')
      /\ J!Range(alive_queue') = allocated'
  BY <1>1, JoinFacts, J!AppendOfInjective, LibraryAssumption, KindAssumption
<1>7. MainRunsLast'
  BY <1>1, LibraryAssumption, KindAssumption DEF MainRunsLast
<1> QED BY <1>1, <1>2, <1>3, <1>5, <1>6, <1>7, JoinFacts, JoinInvFrom

LEMMA JoinWaitKeeps == ASSUME JoinInv, NEW t \in Joiner, Join!ut_join(t) PROVE JoinInv'
<1> DEFINE r == running_thread
<1>1. r \in Joiner /\ t \in allocated
  <2>1. r \in Joiner /\ t \in J!Range(alive_queue)
    BY JoinFacts, LenProperties DEF Join!ut_join, Join!ut_alive, Join!Contains, J!Range
  <2> QED BY <2>1, JoinFacts
<1>2. CASE UNCHANGED <<J!vars, alive_queue, join_waiters>>
  <2>1. J!SchedInv'
    BY <1>2, J!SchedInvNext, LibraryAssumption, KindAssumption DEF JoinInv
  <2>2. J!Blocked' = J!Blocked /\ allocated' = allocated
    BY <1>2 DEF J!Blocked, J!vars
  <2>3. MainRunsLast'
    BY <1>2 DEF JoinInv, MainRunsLast, J!vars
  <2> QED BY <1>2, <2>1, <2>2, <2>3, JoinFacts, JoinInvFrom
<1>3. CASE /\ join_waiters' = [join_waiters EXCEPT ![t] = Append(@, r)]
           /\ J!ut_deactivate /\ UNCHANGED alive_queue
  <2>1. J!SchedInv'
    <3> J!Next
      BY <1>3 DEF J!Next
    <3> QED BY J!SchedInvNext, LibraryAssumption, KindAssumption DEF JoinInv
  <2>2. J!schedule(ready_queue) /\ allocated' = allocated
    BY <1>3 DEF J!ut_deactivate
  <2>3. MainRunsLast'
    BY <2>2, JoinFacts, SwitchRunsMainLast
  <2>4. J!Blocked' = J!Blocked \cup {r} /\ r \notin J!Blocked
    BY <1>1, <2>2, JoinFacts, BlockedAfter, SMTT(40)
  <2>5. /\ join_waiters'[t] = Append(join_waiters[t], r)
        /\ \A u \in Joiner : u # t => join_waiters'[u] = join_waiters[u]
        /\ r \notin J!Range(join_waiters[t])
    BY <1>3, <2>4, JoinFacts
  <2>6. /\ join_waiters'[t] \in Seq(Joiner) /\ J!IsInjective(join_waiters'[t])
        /\ J!Range(join_waiters'[t]) = J!Range(join_waiters[t]) \cup {r}
    BY <1>1, <2>5, JoinFacts, J!AppendOfInjective, LibraryAssumption, KindAssumption
  <2>7. join_waiters' \in [Joiner -> Seq(Joiner)]
    BY <1>3, <2>5, <2>6, JoinFacts
  <2>8. \A u, v \in Joiner :
           u # v => J!Range(join_waiters'[u]) \cap J!Range(join_waiters'[v]) = {}
    BY <2>4, <2>5, <2>6, JoinFacts
  <2>9. \A u \in Joiner : /\ J!IsInjective(join_waiters'[u])
                          /\ join_waiters'[u] # <<>> => u \in allocated'
                          /\ J!Range(join_waiters'[u]) \subseteq J!Blocked'
    BY <1>1, <2>2, <2>4, <2>5, <2>6, JoinFacts
  <2> QED BY <1>3, <2>1, <2>2, <2>3, <2>7, <2>8, <2>9, JoinFacts, JoinInvFrom
<1>4. /\ UNCHANGED <<Join!vars, join_waiters>> \/ Join!WaitAt(t)
      /\ UNCHANGED alive_queue
  BY DEF Join!ut_join, Join!event_wait
<1>5. CASE UNCHANGED <<Join!vars, join_waiters>>
  BY <1>2, <1>4, <1>5 DEF Join!vars, J!vars
<1>6. CASE Join!WaitAt(t)
  BY <1>3, <1>4, <1>6, SameJoinScheduler DEF Join!WaitAt
<1> QED BY <1>4, <1>5, <1>6

(* Who exits makes its joiners ready and is no longer there; nobody else    *)
(* waited in its descriptor.                                                *)
LEMMA JoinExitKeeps == ASSUME JoinInv, Join!join_exit PROVE JoinInv'
<1> DEFINE t == running_thread  w == join_waiters[t]  q == ready_queue \o w
<1>1. /\ t \in Joiner /\ number_of_threads' = number_of_threads - 1
      /\ join_waiters' = [join_waiters EXCEPT ![t] = <<>>]
      /\ J!schedule(q) /\ allocated' = allocated \ {t} /\ main_thread' = main_thread
  BY SameJoinScheduler DEF Join!join_exit
<1>2. t \in allocated /\ main_thread = Main /\ w \in Seq(Joiner) /\ J!IsInjective(w)
      /\ t \notin J!Range(w) /\ t \notin J!Range(ready_queue)
      /\ J!Range(w) \cap J!Range(ready_queue) = {} /\ J!Range(w) \subseteq allocated
  BY <1>1, JoinFacts
<1>3. /\ q \in Seq(Joiner) /\ J!IsInjective(q)
      /\ J!Range(q) = J!Range(ready_queue) \cup J!Range(w)
  BY <1>2, JoinFacts, J!ConcatOfInjective, LibraryAssumption, KindAssumption
<1>4. /\ alive_queue' \in Seq(Joiner) /\ J!IsInjective(alive_queue')
      /\ J!Range(alive_queue') = allocated'
  <2>1. PICK i \in DOMAIN alive_queue :
            alive_queue[i] = t /\ alive_queue' = Join!RemoveAt(alive_queue, i)
    BY DEF Join!join_exit, Join!remove_alive
  <2>2. alive_queue' = SubSeq(alive_queue, 1, i-1) \o SubSeq(alive_queue, i+1, Len(alive_queue))
    BY <2>1 DEF Join!RemoveAt
  <2>3. /\ alive_queue' \in Seq(Joiner) /\ J!IsInjective(alive_queue')
        /\ J!Range(alive_queue') = J!Range(alive_queue) \ {alive_queue[i]}
    BY <2>2, JoinFacts, J!WithoutOneOfInjective, LibraryAssumption, KindAssumption, ZenonT(60)
  <2> QED BY <1>1, <2>1, <2>3, JoinFacts
<1> HIDE DEF q
<1>5. J!SchedInv'
  <2>1. J!Range(q) \subseteq allocated'
    BY <1>1, <1>2, <1>3, JoinFacts
  <2>2. /\ ready_queue' \in Seq(Joiner) /\ J!ReadyQueueSound'
        /\ running_thread' \in Joiner \cup {Main} /\ J!MainIsThere'
    BY <1>1, <1>2, <1>3, <2>1, J!SwitchIsSound, LibraryAssumption, KindAssumption DEF JoinInv
  <2>3. J!CountIsAllocated' /\ number_of_threads' \in Nat
    BY <1>1, <1>2, J!OneExits, LibraryAssumption, KindAssumption DEF JoinInv, J!SchedInv
  <2> QED BY <1>1, <1>2, <2>2, <2>3, JoinFacts DEF J!SchedInv, J!TypeOK
<1>6. MainRunsLast'
  BY <1>1, <1>3, SwitchRunsMainLast
<1>7. J!Blocked' = J!Blocked \ J!Range(w)
  BY <1>1, <1>2, <1>3, JoinFacts, BlockedAfter
<1>8. /\ join_waiters'[t] = <<>> /\ J!Range(join_waiters'[t]) = {} /\ J!IsInjective(join_waiters'[t])
      /\ \A u \in Joiner : u # t => join_waiters'[u] = join_waiters[u]
      /\ join_waiters' \in [Joiner -> Seq(Joiner)]
  BY <1>1, JoinFacts, J!Empty, EmptySeq, LibraryAssumption, KindAssumption
<1>9. \A u, v \in Joiner :
         u # v => J!Range(join_waiters'[u]) \cap J!Range(join_waiters'[v]) = {}
  BY <1>8, JoinFacts
<1>10. \A u \in Joiner : /\ J!IsInjective(join_waiters'[u])
                         /\ join_waiters'[u] # <<>> => u \in allocated'
                         /\ J!Range(join_waiters'[u]) \subseteq J!Blocked'
  BY <1>1, <1>7, <1>8, JoinFacts
<1> QED BY <1>4, <1>5, <1>6, <1>8, <1>9, <1>10, JoinInvFrom

(* Only threads that are blocked and do not join are activated. *)
LEMMA JoinActivateKeeps == ASSUME JoinInv, NEW t \in Joiner, Join!join_activate(t) PROVE JoinInv'
<1>1. /\ t \notin Join!Joining /\ J!Wake(<<t>>)
      /\ UNCHANGED <<alive_queue, join_waiters>>
  BY SameWake DEF Join!join_activate, Join!Unjoined
<1>2. PICK one \in Seq(Joiner) : one = <<t>> /\ J!IsInjective(one) /\ J!Range(one) = {t}
  BY J!Singleton, LibraryAssumption, KindAssumption
<1>3. /\ J!ProgramRuns /\ J!IsInjective(one) /\ J!Range(one) \subseteq J!Blocked
      /\ J!ut_activate(one) /\ ready_queue' = ready_queue \o one
      /\ UNCHANGED <<number_of_threads, running_thread, main_thread, allocated>>
  BY <1>1, <1>2 DEF J!Wake, J!ut_activate
<1>4. t \in J!Blocked
  BY <1>2, <1>3
<1>5. J!SchedInv'
  <2>1. J!Range(one) \cap (J!Range(ready_queue) \cup {running_thread}) = {}
        /\ allocated \subseteq allocated' /\ J!Range(one) \subseteq allocated'
    BY <1>3, JoinFacts
  <2>2. ready_queue' \in Seq(Joiner) /\ J!ReadyQueueSound'
    BY <1>3, <2>1, J!ActivateIsSound, LibraryAssumption, KindAssumption DEF JoinInv
  <2> QED BY <1>3, <2>2
          DEF JoinInv, J!SchedInv, J!TypeOK, J!MainIsThere, J!CountIsAllocated
<1>6. J!Range(ready_queue') = J!Range(ready_queue) \cup {t}
  <2>1. J!Range(ready_queue) \cap J!Range(one) = {}
    BY <1>3, JoinFacts
  <2>2. J!Range(ready_queue \o one) = J!Range(ready_queue) \cup J!Range(one)
    BY <1>3, <2>1, JoinFacts, J!ConcatOfInjective, LibraryAssumption, KindAssumption
  <2> QED BY <1>2, <1>3, <2>2
<1>7. J!Blocked' = J!Blocked \ {t}
  BY <1>3, <1>6 DEF J!Blocked
<1>8. \A u \in Joiner : t \notin J!Range(join_waiters[u])
  BY <1>1, SameJoinScheduler DEF Join!Joining
<1>9. MainRunsLast'
  BY <1>3, LibraryAssumption, KindAssumption DEF MainRunsLast, J!ProgramRuns
<1>10. /\ allocated' = allocated /\ alive_queue' = alive_queue /\ join_waiters' = join_waiters
       /\ \A u \in Joiner : J!Range(join_waiters[u]) \subseteq J!Blocked'
  BY <1>1, <1>3, <1>7, <1>8, JoinFacts
<1> QED BY <1>5, <1>9, <1>10, JoinFacts, JoinInvFrom

(* The calls that switch and touch no list of joiners. *)
LEMMA JoinSwitchKeeps ==
    ASSUME JoinInv, Join!join_yield \/ Join!join_deactivate \/ Join!join_run
    PROVE  JoinInv'
<1>1. [J!Next]_(J!vars) /\ UNCHANGED <<allocated, alive_queue, join_waiters>>
  BY SameJoinScheduler DEF Join!join_yield, Join!join_deactivate, Join!join_run, Join!Unjoined,
     J!Next, J!ut_yield, J!ut_deactivate, J!ut_run
<1>2. CASE Join!join_deactivate \/ Join!join_run
  <2> J!schedule(ready_queue)
    BY <1>2, SameJoinScheduler DEF Join!join_deactivate, Join!join_run, J!ut_deactivate, J!ut_run
  <2> QED BY <1>1, JoinFacts, SwitchKeepsJoiners
<1>3. CASE Join!join_yield
  <2> DEFINE q == Append(ready_queue, running_thread)
  <2>1. running_thread \in Joiner /\ J!schedule(q)
    BY <1>3, SameJoinScheduler DEF Join!join_yield, J!ut_yield
  <2>2. /\ q \in Seq(Joiner) /\ J!IsInjective(q)
        /\ J!Range(q) = J!Range(ready_queue) \cup {running_thread}
    BY <2>1, JoinFacts, J!AppendOfInjective, LibraryAssumption, KindAssumption
  <2> QED BY <1>1, <2>1, <2>2, SwitchKeepsJoiners
<1> QED BY <1>2, <1>3

LEMMA JoinReturnKeeps == ASSUME JoinInv, Join!join_run_returns PROVE JoinInv'
<1>1. /\ J!ut_run_returns /\ UNCHANGED <<alive_queue, join_waiters, allocated, ready_queue>>
      /\ running_thread = Main /\ running_thread' = NULL
  BY SameJoinScheduler DEF Join!join_run_returns, Join!Unjoined, J!ut_run_returns
<1>2. J!SchedInv'
  <2> J!Next
    BY <1>1 DEF J!Next
  <2> QED BY J!SchedInvNext, LibraryAssumption, KindAssumption DEF JoinInv
<1>3. J!Blocked' = J!Blocked
  BY <1>1, JoinFacts DEF J!Blocked
<1>4. MainRunsLast'
  BY <1>1, LibraryAssumption DEF MainRunsLast
<1> QED BY <1>1, <1>2, <1>3, <1>4, JoinFacts, JoinInvFrom

LEMMA JoinInvNext == ASSUME JoinInv, [Join!JoinNext]_<<J!vars, alive_queue, join_waiters>> PROVE JoinInv'
<1>1. CASE UNCHANGED <<J!vars, alive_queue, join_waiters>>
  <2>1. J!SchedInv'
    BY <1>1, J!SchedInvNext, LibraryAssumption, KindAssumption DEF JoinInv
  <2>2. J!Blocked' = J!Blocked /\ allocated' = allocated
    BY <1>1 DEF J!Blocked, J!vars
  <2>3. MainRunsLast'
    BY <1>1 DEF JoinInv, MainRunsLast, J!vars
  <2> QED BY <1>1, <2>1, <2>2, <2>3, JoinFacts, JoinInvFrom
<1> QED BY <1>1, JoinCreateKeeps, JoinWaitKeeps, JoinActivateKeeps, JoinExitKeeps, JoinSwitchKeeps,
           JoinReturnKeeps DEF Join!JoinNext

LEMMA JoinInvInit == Join!JoinInit => JoinInv
<1> SUFFICES ASSUME Join!JoinInit PROVE JoinInv
  OBVIOUS
<1>1. /\ J!Init /\ alive_queue = <<>> /\ join_waiters = [t \in Joiner |-> <<>>]
      /\ ready_queue = <<>> /\ allocated = {}
  BY SameJoinScheduler DEF Join!JoinInit, Join!ut_init, J!Init
<1>2. J!SchedInv
  BY <1>1, J!SchedInvInit, LibraryAssumption, KindAssumption
<1>3. \A f : f = <<>> => J!Range(f) = {} /\ J!IsInjective(f)
  BY J!Empty, LibraryAssumption, KindAssumption
<1>4. /\ Join!Joining = {} /\ \A t \in Joiner : join_waiters[t] = <<>>
      /\ \A f : Join!Range(f) = J!Range(f) /\ (Join!IsInjective(f) <=> J!IsInjective(f))
  BY <1>1, <1>3, SameJoinScheduler DEF Join!Joining
<1>5. LivingJoiners
  BY <1>1, <1>3, <1>4 DEF LivingJoiners, Join!JoinersWaitForTheLiving
<1> QED BY <1>1, <1>2, <1>5, EmptySeq DEF JoinInv, JoinTypes, MainRunsLast

(* When the main thread has control nobody is ready, so each of the threads *)
(* that are left, if all of them join, waits for one of them.               *)
LEMMA JoinersWaitInCircles == JoinInv => Join!OnlyCyclesBlock
<1> SUFFICES ASSUME JoinInv, running_thread = Main, Join!Joining # {}, Join!Blocked = Join!Joining
             PROVE  \E S \in SUBSET Join!Joining \ {{}} :
                        \A u \in S : \E t \in S : u \in Join!Range(join_waiters[t])
  BY DEF Join!OnlyCyclesBlock
<1> DEFINE S == Join!Joining
<1>1. ready_queue = <<>> /\ J!Range(<<>>) = {}
  BY J!Empty, LibraryAssumption, KindAssumption DEF JoinInv, MainRunsLast
<1>2. S = allocated
  BY <1>1, JoinFacts, SameJoinScheduler
<1>3. ASSUME NEW u \in S PROVE \E t \in S : u \in Join!Range(join_waiters[t])
  <2>1. PICK t \in Joiner : u \in Join!Range(join_waiters[t])
    BY DEF Join!Joining
  <2>2. join_waiters[t] # <<>>
    BY <2>1, <1>1, SameJoinScheduler
  <2> QED BY <1>2, <2>1, <2>2, JoinFacts
<1> QED BY <1>3

LEMMA JoinSoundNext == JoinSound /\ [UProgramsNext]_allVars => JoinSound'
<1> SUFFICES ASSUME JoinSound, [UProgramsNext]_allVars, kind' = "join" PROVE JoinInv'
  BY DEF JoinSound
<1>1. kind = "join" /\ JoinInv
  BY DEF JoinSound, UProgramsNext, QueueStep, JoinStep, MachineStep, ListStep, allVars
<1>2. [Join!JoinNext]_<<J!vars, alive_queue, join_waiters>>
  BY <1>1 DEF UProgramsNext, QueueStep, JoinStep, MachineStep, ListStep, allVars,
     threadVars, joinVars, J!vars
<1> QED BY <1>1, <1>2, JoinInvNext

(* A thread that joins waits in one descriptor, which is allocated, and the *)
(* main thread gets control with joiners left only when some wait for each  *)
(* other in a circle, for any number of threads and both builds.            *)
THEOREM JoiningIsSound == Spec => []JoinsAreSound
<1>1. Init => JoinSound
  BY JoinInvInit DEF Init, JoinSound
<1>2. JoinSound /\ [UProgramsNext]_allVars => JoinSound'
  BY JoinSoundNext
<1>3. JoinSound => JoinsAreSound
  BY JoinersWaitInCircles DEF JoinSound, JoinInv, LivingJoiners, JoinsAreSound
<1> QED BY <1>1, <1>2, <1>3, PTL DEF Spec, UProgramsNext

-----------------------------------------------------------------------------
(* The synchronizers of the bounded queue, with their theorems.             *)
Q == INSTANCE USynch_proofs

(* Q is Queue with theorems. *)
LEMMA SameState ==
    /\ Queue!QueueInit <=> Q!QueueInit
    /\ Queue!UnitsAddUp <=> Q!UnitsAddUp
    /\ Queue!Fifo!FifoNext <=> Q!Fifo!FifoNext
<1>1. Queue!QueueInit <=> Q!QueueInit
  BY DEF Queue!QueueInit, Q!QueueInit, Queue!SyncInit, Q!SyncInit, Queue!Init, Q!Init, Queue!Sync, Q!Sync
<1>2. Queue!UnitsAddUp <=> Q!UnitsAddUp
  BY DEF Queue!UnitsAddUp, Q!UnitsAddUp, Queue!Granted, Q!Granted, Queue!Blocked, Q!Blocked, Queue!Range, Q!Range,
      Queue!Cardinality, Q!Cardinality, Queue!IsFiniteSet, Q!IsFiniteSet
<1>3. Queue!Fifo!FifoNext <=> Q!Fifo!FifoNext
  BY DEF Queue!Fifo!FifoNext, Q!Fifo!FifoNext, Queue!Fifo!Put, Q!Fifo!Put, Queue!Fifo!Get, Q!Fifo!Get, Queue!Messages, Q!Messages
<1> QED BY <1>1, <1>2, <1>3

LEMMA SameScheduler ==
    /\ \A t : Queue!ut_create(t) <=> Q!ut_create(t)
    /\ \A s : Queue!ut_activate(s) <=> Q!ut_activate(s)
    /\ Queue!ut_yield <=> Q!ut_yield
    /\ Queue!ut_exit <=> Q!ut_exit
    /\ Queue!ut_run <=> Q!ut_run
    /\ Queue!ut_run_returns <=> Q!ut_run_returns
    /\ Queue!ut_deactivate <=> Q!ut_deactivate
    /\ Queue!ProgramRuns <=> Q!ProgramRuns
BY DEF Queue!ut_create, Q!ut_create, Queue!ut_activate, Q!ut_activate, Queue!ut_yield, Q!ut_yield,
       Queue!ut_exit, Q!ut_exit, Queue!ut_run, Q!ut_run, Queue!ut_run_returns, Q!ut_run_returns,
       Queue!ut_deactivate, Q!ut_deactivate, Queue!ProgramRuns, Q!ProgramRuns,
       Queue!schedule, Q!schedule, Queue!extract_next_thread, Q!extract_next_thread,
       Queue!AfterExtract, Q!AfterExtract

LEMMA SameSemaphore ==
    /\ \A s, n : Queue!sem_wait(s, n) <=> Q!sem_wait(s, n)
    /\ \A s, n : Queue!sem_post(s, n) <=> Q!sem_post(s, n)
<1>1. \A s, n : Queue!sem_wait(s, n) <=> Q!sem_wait(s, n)
  BY SameScheduler DEF Queue!sem_wait, Q!sem_wait, Queue!CanTake, Q!CanTake, Queue!Block, Q!Block,
      Queue!schedVars, Q!schedVars, Queue!vars, Q!vars
<1>2. \A s, n : Queue!sem_post(s, n) <=> Q!sem_post(s, n)
  <2>1. \A s, n : Queue!Posted(s, n) = Q!Posted(s, n)
    BY DEF Queue!Posted, Q!Posted
  <2>2. \A s, k, l : Queue!LoopReleases(s, k, l) <=> Q!LoopReleases(s, k, l)
    BY DEF Queue!LoopReleases, Q!LoopReleases
  <2> QED BY <2>1, <2>2, SameScheduler, ZenonT(60) DEF Queue!sem_post, Q!sem_post
<1> QED BY <1>1, <1>2

LEMMA SameSteps == Queue!QueueNext <=> Q!QueueNext
<1> USE DEF Queue!Calls, Q!Calls, Queue!Advance, Q!Advance, Queue!syncVars, Q!syncVars,
       Queue!queueVars, Q!queueVars
<1>1. \A t : Queue!PutWaits(t) <=> Q!PutWaits(t)
  BY SameSemaphore DEF Queue!PutWaits, Q!PutWaits, Queue!WaitFor, Q!WaitFor
<1>2. \A t : Queue!GetWaits(t) <=> Q!GetWaits(t)
  BY SameSemaphore DEF Queue!GetWaits, Q!GetWaits, Queue!WaitFor, Q!WaitFor
<1>3. \A t : Queue!PutInserts(t) <=> Q!PutInserts(t)
  BY SameSemaphore DEF Queue!PutInserts, Q!PutInserts
<1>4. \A t : Queue!GetRemoves(t) <=> Q!GetRemoves(t)
  BY SameSemaphore DEF Queue!GetRemoves, Q!GetRemoves
<1>5. \A t : Queue!Yields(t) <=> Q!Yields(t)
  BY SameScheduler DEF Queue!Yields, Q!Yields, Queue!vars, Q!vars
<1>6. \A t : Queue!Exits(t) <=> Q!Exits(t)
  BY SameScheduler DEF Queue!Exits, Q!Exits
<1>7. \A t : Queue!MainCreates(t) <=> Q!MainCreates(t)
  BY SameScheduler DEF Queue!MainCreates, Q!MainCreates
<1>8. (Queue!MainRuns <=> Q!MainRuns) /\ (Queue!RunReturns <=> Q!RunReturns)
  BY SameScheduler DEF Queue!MainRuns, Q!MainRuns, Queue!RunReturns, Q!RunReturns
<1> QED BY <1>1, <1>2, <1>3, <1>4, <1>5, <1>6, <1>7, <1>8
    DEF Queue!QueueNext, Q!QueueNext, Queue!ThreadStep, Q!ThreadStep

-----------------------------------------------------------------------------
QueueSound == kind = "queue" => Q!QueueInv

LEMMA ConstantsOfQ == Q!QueueConstants
BY ProgramAssumption DEF Q!QueueConstants

LEMMA QueueSoundInit == Init => QueueSound
<1> SUFFICES ASSUME Init, kind = "queue" PROVE Q!QueueInv
  BY DEF QueueSound
<1>1. Q!QueueInit
  BY SameState DEF Init
<1> QED BY <1>1, ConstantsOfQ, Q!QueueInvInit, LibraryAssumption

LEMMA QueueSoundNext == QueueSound /\ [UProgramsNext]_allVars => QueueSound'
<1> SUFFICES ASSUME QueueSound, [UProgramsNext]_allVars, kind' = "queue" PROVE Q!QueueInv'
  BY DEF QueueSound
<1>1. kind = "queue" /\ Q!QueueInv
  BY DEF QueueSound, UProgramsNext, QueueStep, JoinStep, MachineStep, ListStep, allVars
<1>2. [Q!QueueNext]_<<Q!allVars, Q!queueVars>>
  BY <1>1, SameSteps DEF UProgramsNext, QueueStep, JoinStep, MachineStep, ListStep, allVars,
     threadVars, queueVars, Q!allVars, Q!queueVars
<1> QED BY <1>1, <1>2, ConstantsOfQ, Q!QueueInvNext, LibraryAssumption

(* The semaphores of the bounded queue add up, for every program, number of *)
(* threads and capacity: no unit is lost or made when a post hands it to a  *)
(* waiter.                                                                  *)
THEOREM QueueConservesUnits == Spec => []UnitsAddUp
<1>1. Init => QueueSound
  BY QueueSoundInit
<1>2. QueueSound /\ [UProgramsNext]_allVars => QueueSound'
  BY QueueSoundNext
<1>3. QueueSound => UnitsAddUp
  BY SameState DEF QueueSound, UnitsAddUp, Q!QueueInv
<1> QED BY <1>1, <1>2, <1>3, PTL DEF Spec, UProgramsNext

(* The queue built on the semaphores is a bounded FIFO. *)
THEOREM QueueIsFifo == Spec => ImplementsFifo
<1>1. Init => QueueSound
  BY QueueSoundInit
<1>2. QueueSound /\ [UProgramsNext]_allVars => QueueSound'
  BY QueueSoundNext
<1>3. Init => Queue!Fifo!FifoInit
  BY DEF Init, None, Queue!QueueInit, Queue!Fifo!FifoInit
<1>4. QueueSound /\ [UProgramsNext]_allVars => [Queue!Fifo!FifoNext]_<<head, taken>>
  <2> SUFFICES ASSUME QueueSound, [UProgramsNext]_allVars PROVE [Queue!Fifo!FifoNext]_<<head, taken>>
    OBVIOUS
  <2>1. CASE QueueStep
    <3>1. Q!QueueNext /\ Q!QueueInv
      BY <2>1, SameSteps DEF QueueStep, QueueSound
    <3>2. [Q!Fifo!FifoNext]_<<head, taken>>
      BY <3>1, ConstantsOfQ, Q!QueueStepIsFifoStep, LibraryAssumption
    <3> QED BY <3>2, SameState
  <2>2. CASE JoinStep \/ MachineStep \/ ListStep \/ UNCHANGED allVars
    BY <2>2 DEF JoinStep, MachineStep, ListStep, allVars, queueVars
  <2> QED BY <2>1, <2>2 DEF UProgramsNext
<1> QED BY <1>1, <1>2, <1>3, <1>4, PTL
        DEF Spec, UProgramsNext, ImplementsFifo, Queue!ImplementsFifo, Queue!Fifo!FifoSpec,
            Queue!Fifo!fifoVars
=============================================================================
