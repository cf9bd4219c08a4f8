----------------------------- MODULE Ipc_proofs -----------------------------
(***************************************************************************)
(* What the programs that meet through the kernel promise, for any number  *)
(* of clients, tries, elements of a ring and of a region: nobody leaves    *)
(* its region unless it is a file that is cut (SharedRegions), the echo    *)
(* services in memory and over pipes answer a client with its own          *)
(* requests, in order, and survive the death of clients, the ring of       *)
(* requests is a bounded FIFO (MemEcho, FifoEcho), and no small program    *)
(* prints a line twice on a terminal (Processes, SmallPrograms).           *)
(***************************************************************************)
EXTENDS Ipc, SequenceTheorems, FiniteSetTheorems, WellFoundedInduction, TLAPS

-----------------------------------------------------------------------------
(* The regions shared by name.                                              *)
Before == {"create", "open", "truncate", "map"}
Mapping == {"write", "read", "inc"}
Places == Before \cup Mapping \cup {"unmap", "destroy", "killed", "end"}
MemoryRoles == {"smem_writer", "smem_reader"}

RegionTypes ==
    /\ role \in Cast /\ at_name \in Client \cup {NULL}
    /\ newsize \in [Client -> Nat] /\ \A p \in Client : newsize[p] \in Regions!SizesOf(role[p])
    /\ length \in [Client -> Nat] /\ ints \in [Client -> SUBSET Nat]
    /\ pc \in [Client -> Places]
    /\ region \in [Client -> Client \cup {NULL}]
    /\ mapped \in [Client -> Nat]
    /\ n \in [Client -> Nat] /\ sum \in [Client -> Nat] /\ whole \in [Client -> BOOLEAN]

(* What p works on is inside its mapping, and over shared memory inside the *)
(* region too, which has one size only.                                     *)
StaysInside(p) ==
    /\ pc[p] \in {"truncate", "map"} \cup Mapping => region[p] \in Client
    /\ region[p] \in Client /\ pc[p] \notin Before => newsize[p] <= mapped[p]
    /\ role[p] \in MemoryRoles => \A r \in Client : length[r] \in {0, LEN}
    /\ \/ role[p] = "smem_writer" /\ pc[p] = "map"
       \/ role[p] \in MemoryRoles /\ pc[p] \in Mapping
       => length[region[p]] = LEN

(* A file is as long as one of those who have truncated it wanted it; only  *)
(* one that wanted it shorter is fatal.                                     *)
IsCutBy(p) ==
    /\ role[p] \in Regions!Sized /\ pc[p] \in {"map"} \cup Mapping =>
          \E q \in Client : Regions!HasTruncated(q) /\ newsize[q] = length[region[p]]
    /\ pc[p] = "killed" => \E q \in Client : Regions!HasTruncated(q) /\ newsize[q] < newsize[p]

(* What was written stays so, unless it is cut.                             *)
StaysWhole(p) ==
    whole[p] /\ region[p] \in Client => 0..newsize[p]-1 \subseteq ints[region[p]]

(* How far p has come in its loop, and what it has summed by then.          *)
Progress(p) ==
    /\ pc[p] \in Before => n[p] = 0 /\ sum[p] = 0 /\ ~whole[p]
    /\ pc[p] = "truncate" => role[p] \in {"smem_writer"} \cup Regions!Sized
    /\ pc[p] = "write" => role[p] \in {"smem_writer", "genints"}
    /\ pc[p] = "inc" => role[p] \in {"maptest", "maptest_size"}
    /\ pc[p] = "read" =>
          \/ role[p] = "smem_reader" /\ n[p] <= newsize[p] /\ (whole[p] => sum[p] = n[p])
          \/ role[p] = "maptest_size" /\ 2 * n[p] <= newsize[p] /\ (whole[p] => sum[p] = 2 * n[p])
          \/ role[p] = "maptest"
    /\ /\ pc[p] \in {"inc", "unmap", "destroy"} /\ whole[p]
       /\ role[p] \in {"smem_reader", "maptest_size"}
       => sum[p] = newsize[p]

Fits(p) == StaysInside(p) /\ IsCutBy(p) /\ StaysWhole(p) /\ Progress(p)

(* A name over shared memory leads to the region of a writer that has yet   *)
(* to take the name away.                                                   *)
WillBeUnlinked ==
    at_name \in Client /\ role[at_name] \notin Regions!OverFile =>
        role[at_name] = "smem_writer" /\ pc[at_name] \in {"truncate", "map", "write", "destroy"}

RegionInv == RegionTypes /\ WillBeUnlinked /\ \A p \in Client : Fits(p)

RoleNames == {"smem_writer", "smem_reader", "genints", "maptest", "maptest_size"}

(* Every process plays one of the programs, over memory when one is.        *)
LEMMA RolesPlayed ==
    ASSUME NEW r \in Cast, NEW p \in Client
    PROVE  /\ r[p] \in RoleNames
           /\ r[p] \in MemoryRoles => \A q \in Client : r[q] \in MemoryRoles
           /\ r[p] \notin Regions!OverFile <=> r[p] \in MemoryRoles
<1>1. r \in Regions!Roles
  BY CastAssumption
<1> QED BY <1>1 DEF Regions!Roles, Regions!OverFile, RoleNames, MemoryRoles

(* The size that each program works on.                                     *)
LEMMA SizesPlayed ==
    ASSUME RegionTypes, NEW p \in Client
    PROVE  /\ newsize[p] \in Nat /\ LEN \in Nat \ {0} /\ NULL \notin Client
           /\ role[p] \in MemoryRoles => newsize[p] = LEN
           /\ role[p] = "maptest" => newsize[p] = 0
           /\ role[p] \in Regions!Sized => newsize[p] \in FileSizes /\ newsize[p] # 0
           /\ role[p] = "maptest_size" =>
                 newsize[p] \div 2 \in Nat /\ 2 * (newsize[p] \div 2) = newsize[p]
<1>1. newsize[p] \in Nat /\ LEN \in Nat \ {0} /\ NULL \notin Client
  BY LenAssumption, EchoAssumption DEF RegionTypes
<1>2. newsize[p] \in Regions!SizesOf(role[p])
  BY DEF RegionTypes
<1>3. role[p] \in MemoryRoles => newsize[p] = LEN
  BY <1>2 DEF Regions!SizesOf, Regions!Sized, MemoryRoles
<1>4. role[p] = "maptest" => newsize[p] = 0
  BY <1>2 DEF Regions!SizesOf, Regions!Sized
<1>5. role[p] \in Regions!Sized => newsize[p] \in FileSizes
  BY <1>2 DEF Regions!SizesOf, Regions!Sized
<1>6. \A s \in FileSizes : s \in Nat \ {0} /\ s % 2 = 0
  BY LenAssumption
<1>7. newsize[p] % 2 = 0 => newsize[p] \div 2 \in Nat /\ 2 * (newsize[p] \div 2) = newsize[p]
  BY <1>1
<1> QED BY <1>1, <1>3, <1>4, <1>5, <1>6, <1>7 DEF Regions!Sized

(* What follows what in the program of role r.                              *)
Follows(r, l, l2) ==
    \/ r # "smem_reader" /\ l = "create" /\ l2 = IF r = "maptest" THEN "map" ELSE "truncate"
    \/ r = "smem_reader" /\ l = "open" /\ l2 = "map"
    \/ l = "truncate" /\ l2 = "map"
    \/ l = "map" /\ l2 = IF r \in {"smem_writer", "genints"} THEN "write" ELSE "read"
    \/ r = "smem_writer" /\ l = "write" /\ l2 = "destroy"
    \/ r = "genints" /\ l = "write" /\ l2 = "unmap"
    \/ r = "smem_reader" /\ l = "read" /\ l2 = "destroy"
    \/ r \in {"maptest", "maptest_size"} /\ l = "read" /\ l2 = "inc"
    \/ r \in {"maptest", "maptest_size"} /\ l = "inc" /\ l2 = "unmap"
    \/ l \in {"unmap", "destroy"} /\ l2 = "end"

(* The programs are as Follows says.                                        *)
LEMMA PhasesFollow ==
    ASSUME NEW r \in RoleNames, NEW i \in 1..Len(Regions!Phases[r])-1
    PROVE  Follows(r, Regions!Phases[r][i], Regions!Phases[r][i+1])
<1>1. CASE r = "smem_writer"
  <2>1. Regions!Phases[r] = <<"create", "truncate", "map", "write", "destroy", "end">>
    BY <1>1 DEF Regions!Phases, Regions!smem_writer
  <2>2. i = 1 \/ i = 2 \/ i = 3 \/ i = 4 \/ i = 5
    BY <2>1
  <2> QED BY <1>1, <2>1, <2>2 DEF Follows
<1>2. CASE r = "smem_reader"
  <2>1. Regions!Phases[r] = <<"open", "map", "read", "destroy", "end">>
    BY <1>2 DEF Regions!Phases, Regions!smem_reader
  <2>2. i = 1 \/ i = 2 \/ i = 3 \/ i = 4
    BY <2>1
  <2> QED BY <1>2, <2>1, <2>2 DEF Follows
<1>3. CASE r = "genints"
  <2>1. Regions!Phases[r] = <<"create", "truncate", "map", "write", "unmap", "end">>
    BY <1>3 DEF Regions!Phases, Regions!genints
  <2>2. i = 1 \/ i = 2 \/ i = 3 \/ i = 4 \/ i = 5
    BY <2>1
  <2> QED BY <1>3, <2>1, <2>2 DEF Follows
<1>4. CASE r = "maptest"
  <2>1. Regions!Phases[r] = <<"create", "map", "read", "inc", "unmap", "end">>
    BY <1>4 DEF Regions!Phases, Regions!maptest
  <2>2. i = 1 \/ i = 2 \/ i = 3 \/ i = 4 \/ i = 5
    BY <2>1
  <2> QED BY <1>4, <2>1, <2>2 DEF Follows
<1>5. CASE r = "maptest_size"
  <2>1. Regions!Phases[r] = <<"create", "truncate", "map", "read", "inc", "unmap", "end">>
    BY <1>5 DEF Regions!Phases, Regions!maptest
  <2>2. i = 1 \/ i = 2 \/ i = 3 \/ i = 4 \/ i = 5 \/ i = 6
    BY <2>1
  <2> QED BY <1>5, <2>1, <2>2 DEF Follows
<1> QED BY <1>1, <1>2, <1>3, <1>4, <1>5 DEF RoleNames

(* GoesOn takes p to what follows, and nobody else anywhere.                *)
LEMMA GoesTo ==
    ASSUME RegionTypes, NEW p \in Client, Regions!GoesOn(p)
    PROVE  \E l \in Places : /\ Follows(role[p], pc[p], l) /\ pc' = [pc EXCEPT ![p] = l]
                             /\ pc' \in [Client -> Places] /\ pc'[p] = l
                             /\ \A q \in Client \ {p} : pc'[q] = pc[q]
<1>1. PICK i \in 1..Len(Regions!Phases[role[p]])-1 :
          /\ Regions!Phases[role[p]][i] = pc[p]
          /\ pc' = [pc EXCEPT ![p] = Regions!Phases[role[p]][i+1]]
  BY DEF Regions!GoesOn, Regions!Go
<1> DEFINE l == Regions!Phases[role[p]][i+1]
<1>2. Follows(role[p], pc[p], l)
  BY <1>1, RolesPlayed, PhasesFollow DEF RegionTypes
<1>3. pc' = [pc EXCEPT ![p] = l]
  BY <1>1
<1> HIDE DEF l
<1>4. l \in Places
  BY <1>2 DEF Follows, Places, Before, Mapping
<1>5. pc \in [Client -> Places]
  BY DEF RegionTypes
<1> QED BY <1>2, <1>3, <1>4, <1>5

(* What p is about to touch is part of what it works on.                    *)
LEMMA TouchesItsSize ==
    ASSUME RegionTypes, NEW p \in Client, Fits(p)
    PROVE  /\ Regions!Touched(p) \subseteq 0..newsize[p]-1
           /\ Regions!Touched(p) # {} => pc[p] \in Mapping /\ role[p] # "maptest"
<1>1. n[p] \in Nat /\ newsize[p] \in Nat /\ Progress(p)
  BY DEF RegionTypes, Fits
<1>2. CASE pc[p] = "read"
  <2>1. Regions!Touched(p) = Regions!Reads(p)
    BY <1>2 DEF Regions!Touched
  <2>2. CASE role[p] = "smem_reader"
    BY <1>1, <1>2, <2>1, <2>2 DEF Regions!Reads, Mapping
  <2>3. CASE role[p] = "maptest_size"
    <3> DEFINE half == newsize[p] \div 2
    <3>1. half \in Nat /\ 2 * half = newsize[p]
      BY <2>3, SizesPlayed
    <3>2. Regions!Reads(p) =
            IF half + n[p] < newsize[p] THEN {half + n[p], half - 1 - n[p]} ELSE {}
      BY <2>3 DEF Regions!Reads
    <3> HIDE DEF half
    <3>3. Regions!Reads(p) \subseteq 0..newsize[p]-1
      BY <1>1, <3>1, <3>2
    <3> QED BY <1>2, <2>1, <2>3, <3>3 DEF Mapping
  <2>4. CASE role[p] = "maptest"
    <3>1. newsize[p] = 0 /\ 0 \div 2 = 0
      BY <2>4, SizesPlayed
    <3> QED BY <1>1, <2>1, <2>4, <3>1 DEF Regions!Reads
  <2> QED BY <1>1, <1>2, <2>2, <2>3, <2>4 DEF Progress
<1>3. CASE pc[p] \in {"write", "inc"} /\ n[p] < newsize[p]
  <2>1. Regions!Touched(p) = {n[p]}
    BY <1>3 DEF Regions!Touched
  <2>2. role[p] # "maptest"
    BY <1>1, <1>3, SizesPlayed
  <2> QED BY <1>1, <1>3, <2>1, <2>2 DEF Mapping
<1>4. CASE pc[p] # "read" /\ ~(pc[p] \in {"write", "inc"} /\ n[p] < newsize[p])
  BY <1>4 DEF Regions!Touched
<1> QED BY <1>2, <1>3, <1>4

(* Who is about to leave its region was cut off by somebody who wanted less. *)
LEMMA CutOff ==
    ASSUME RegionTypes, NEW p \in Client, Fits(p), ~Regions!InRegion(p)
    PROVE  /\ role[p] \in Regions!Sized /\ region[p] \in Client
           /\ \E q \in Client : /\ Regions!HasTruncated(q) /\ newsize[q] = length[region[p]]
                                /\ newsize[q] < newsize[p]
<1>1. PICK i \in Regions!Touched(p) : ~(i < length[region[p]])
  BY DEF Regions!InRegion
<1>2. /\ i \in 0..newsize[p]-1 /\ newsize[p] \in Nat
      /\ pc[p] \in Mapping /\ role[p] # "maptest" /\ region[p] \in Client
  BY <1>1, TouchesItsSize, SizesPlayed DEF Fits, StaysInside
<1>3. length[region[p]] \in Nat /\ length[region[p]] < newsize[p]
  BY <1>1, <1>2 DEF RegionTypes
<1>4. role[p] \notin MemoryRoles
  BY <1>2, <1>3, SizesPlayed DEF Fits, StaysInside
<1>5. role[p] \in RoleNames
  BY RolesPlayed DEF RegionTypes
<1>6. role[p] \in Regions!Sized
  BY <1>2, <1>4, <1>5 DEF RoleNames, MemoryRoles, Regions!Sized
<1>7. \E q \in Client : Regions!HasTruncated(q) /\ newsize[q] = length[region[p]]
  BY <1>2, <1>6 DEF Fits, IsCutBy
<1> QED BY <1>2, <1>3, <1>6, <1>7

(* What the invariant is for.                                               *)
LEMMA RegionInvImplies ==
    ASSUME RegionInv
    PROVE  Regions!RegionsHold
<1>1. ASSUME NEW p \in Client PROVE Regions!Touched(p) \subseteq 0..mapped[p]-1
  <2>1. RegionTypes /\ Fits(p) /\ newsize[p] \in Nat /\ mapped[p] \in Nat
    BY <1>1 DEF RegionInv, RegionTypes
  <2>2. Regions!Touched(p) \subseteq 0..newsize[p]-1
    BY <2>1, TouchesItsSize
  <2>3. Regions!Touched(p) # {} => newsize[p] <= mapped[p]
    BY <2>1, TouchesItsSize DEF Fits, StaysInside, Mapping, Before
  <2> QED BY <2>1, <2>2, <2>3
<1>2. ASSUME NEW p \in Client, ~Regions!InRegion(p)
      PROVE  \E q \in Client : Regions!HasTruncated(q) /\ newsize[q] = length[region[p]]
  BY <1>2, CutOff DEF RegionInv
<1>3. ASSUME NEW p \in Client, pc[p] = "killed"
      PROVE  \E q \in Client : Regions!HasTruncated(q) /\ newsize[q] < newsize[p]
  BY <1>3 DEF RegionInv, Fits, IsCutBy
<1>4. Regions!EveryAccessIsInside
  BY <1>1, <1>2, <1>3 DEF Regions!EveryAccessIsInside
<1>5. Regions!NoNameIsLeft
  BY DEF RegionInv, RegionTypes, WillBeUnlinked, Regions!NoNameIsLeft
<1>6. Regions!SumIsWhole
  BY DEF RegionInv, Fits, Progress, Regions!SumIsWhole
<1> QED BY <1>4, <1>5, <1>6 DEF Regions!RegionsHold

(* The invariant holds at the start.                                        *)
LEMMA RegionInit ==
    ASSUME Regions!Init
    PROVE  RegionInv
<1>1. /\ role \in Cast
      /\ newsize \in [Client -> FileSizes \cup {0, LEN}]
      /\ \A p \in Client : newsize[p] \in Regions!SizesOf(role[p])
      /\ pc = [p \in Client |-> Regions!Phases[role[p]][1]]
      /\ region = [p \in Client |-> NULL]
      /\ mapped = [p \in Client |-> 0] /\ n = [p \in Client |-> 0] /\ sum = [p \in Client |-> 0]
      /\ whole = [p \in Client |-> FALSE]
  BY DEF Regions!Init
<1>2. ASSUME NEW p \in Client
      PROVE  pc[p] \in {"create", "open"}
  <2>1. role[p] \in RoleNames /\ pc[p] = Regions!Phases[role[p]][1]
    BY <1>1, RolesPlayed
  <2> QED BY <2>1 DEF RoleNames, Regions!Phases, Regions!smem_writer, Regions!smem_reader,
          Regions!genints, Regions!maptest
<1>3. /\ at_name \in Client \cup {NULL}
      /\ length \in [Client -> Nat] /\ ints \in [Client -> SUBSET Nat]
      /\ at_name \in Client => role[at_name] \in Regions!OverFile
      /\ \A p \in Client : role[p] \in MemoryRoles => \A r \in Client : length[r] \in {0, LEN}
  <2>1. CASE Regions!NothingThere
    BY <2>1, EchoAssumption DEF Regions!NothingThere
  <2>2. CASE Regions!FileThere
    <3>1. PICK f \in Client, s \in FileSizes :
              /\ role[f] \in Regions!OverFile /\ at_name = f
              /\ length = [p \in Client |-> IF p = f THEN s ELSE 0]
              /\ ints = [p \in Client |-> IF p = f THEN 0..s-1 ELSE {}]
      BY <2>2 DEF Regions!FileThere
    <3>2. s \in Nat /\ 0..s-1 \subseteq Nat
      BY LenAssumption
    <3>3. \A p \in Client : role[p] \notin MemoryRoles
      BY <1>1, <3>1, RolesPlayed
    <3> QED BY <3>1, <3>2, <3>3
  <2> QED BY <2>1, <2>2 DEF Regions!Init
<1>4. RegionTypes
  <2>1. pc \in [Client -> Places]
    BY <1>1, <1>2 DEF Places, Before
  <2>2. newsize \in [Client -> Nat]
    <3>1. FileSizes \cup {0, LEN} \subseteq Nat
      BY LenAssumption
    <3> QED BY <1>1, <3>1
  <2> QED BY <1>1, <1>3, <2>1, <2>2 DEF RegionTypes
<1>5. WillBeUnlinked
  BY <1>3 DEF WillBeUnlinked
<1>6. ASSUME NEW p \in Client PROVE Fits(p)
  <2>1. region[p] = NULL /\ n[p] = 0 /\ sum[p] = 0 /\ whole[p] = FALSE
    BY <1>1
  <2> QED BY <1>2, <1>3, <2>1, EchoAssumption
          DEF Fits, StaysInside, IsCutBy, StaysWhole, Progress, Before, Mapping, MemoryRoles
<1> QED BY <1>4, <1>5, <1>6 DEF RegionInv

(* Who has truncated has done so for ever.                                  *)
LEMMA TruncatedStays ==
    ASSUME NEW p \in Client, role' = role, newsize' = newsize,
           \A q \in Client \ {p} : pc'[q] = pc[q],
           pc[p] \in {"create", "truncate"} \/ pc'[p] \notin {"create", "truncate"}
    PROVE  \A q \in Client : Regions!HasTruncated(q) => Regions!HasTruncated(q)'
BY DEF Regions!HasTruncated

(* Unless somebody truncates one regions keep their size, and what is in    *)
(* them stays; who does nothing is no worse off then.                       *)
Grows ==
    /\ role' = role /\ newsize' = newsize /\ length' = length
    /\ \A r \in Client : ints[r] \subseteq ints'[r]

Rests(q) ==
    /\ pc'[q] = pc[q] /\ region'[q] = region[q] /\ mapped'[q] = mapped[q]
    /\ n'[q] = n[q] /\ sum'[q] = sum[q] /\ whole'[q] = whole[q]

(* A process that rests keeps its part of the invariant.                    *)
LEMMA OthersRest ==
    ASSUME RegionInv, NEW q \in Client, Grows, Rests(q),
           \A o \in Client : Regions!HasTruncated(o) => Regions!HasTruncated(o)'
    PROVE  Fits(q)'
<1>1. StaysInside(q) /\ IsCutBy(q) /\ StaysWhole(q) /\ Progress(q)
  BY DEF RegionInv, Fits
<1>2. StaysInside(q)'
  BY <1>1 DEF StaysInside, Grows, Rests
<1>3. IsCutBy(q)'
  BY <1>1 DEF IsCutBy, Grows, Rests
<1>4. StaysWhole(q)'
  BY <1>1 DEF StaysWhole, Grows, Rests
<1>5. Progress(q)'
  BY <1>1 DEF Progress, Grows, Rests
<1> QED BY <1>2, <1>3, <1>4, <1>5 DEF Fits

(* So only the process that moves has to be looked at.                      *)
LEMMA OneMoves ==
    ASSUME RegionInv, NEW p \in Client, Grows, \A q \in Client \ {p} : Rests(q),
           pc[p] \in {"create", "truncate"} \/ pc'[p] \notin {"create", "truncate"},
           RegionTypes', WillBeUnlinked', StaysInside(p)', IsCutBy(p)', StaysWhole(p)', Progress(p)'
    PROVE  RegionInv'
<1>1. \A q \in Client : Regions!HasTruncated(q) => Regions!HasTruncated(q)'
  BY TruncatedStays DEF Grows, Rests
<1>2. \A q \in Client \ {p} : Fits(q)'
  BY <1>1, OthersRest
<1> QED BY <1>2 DEF RegionInv, Fits

(* Nor has it to be looked at for cuts while it goes on in its region.      *)
LEMMA CutAsBefore ==
    ASSUME RegionInv, NEW p \in Client, Grows, \A q \in Client \ {p} : Rests(q),
           pc[p] \in {"create", "truncate"} \/ pc'[p] \notin {"create", "truncate"},
           \/ pc[p] \in {"map"} \cup Mapping /\ region'[p] = region[p]
           \/ pc'[p] \notin {"map"} \cup Mapping
           \/ role[p] \notin Regions!Sized,
           pc'[p] # "killed"
    PROVE  IsCutBy(p)'
<1>1. \A q \in Client : Regions!HasTruncated(q) => Regions!HasTruncated(q)'
  BY TruncatedStays DEF Grows, Rests
<1>2. IsCutBy(p)
  BY DEF RegionInv, Fits
<1> QED BY <1>1, <1>2 DEF IsCutBy, Grows

(* The steps before the mapping.                                            *)
LEMMA RegionCreates ==
    ASSUME RegionInv, NEW p \in Client, Regions!Creates(p)
    PROVE  RegionInv'
<1> DEFINE r == IF at_name = NULL THEN p ELSE at_name
<1>1. /\ pc[p] = "create" /\ at_name' = r
      /\ region' = [region EXCEPT ![p] = r]
      /\ mapped' = [mapped EXCEPT ![p] = IF role[p] = "maptest" THEN length[r] ELSE 0]
      /\ Regions!GoesOn(p) /\ UNCHANGED <<role, newsize, length, ints, n, sum, whole>>
  BY DEF Regions!Creates
<1>2. r \in Client /\ RegionTypes
  BY DEF RegionInv, RegionTypes
<1>3. at_name = NULL => r = p
  OBVIOUS
<1>4. at_name \in Client => r = at_name
  BY EchoAssumption
<1> HIDE DEF r
<1>5. PICK l \in Places : /\ Follows(role[p], "create", l) /\ pc' \in [Client -> Places]
                          /\ pc'[p] = l /\ \A q \in Client \ {p} : pc'[q] = pc[q]
  BY <1>1, <1>2, GoesTo
<1>6. role[p] # "smem_reader" /\ l = IF role[p] = "maptest" THEN "map" ELSE "truncate"
  BY <1>5 DEF Follows
<1>7. RegionTypes'
  BY <1>1, <1>2, <1>5 DEF RegionTypes
<1>8. Grows /\ \A q \in Client \ {p} : Rests(q)
  BY <1>1, <1>2, <1>5 DEF Grows, Rests, RegionTypes
<1>9. region'[p] = r
  BY <1>1, <1>2 DEF RegionTypes
<1>10. n[p] = 0 /\ sum[p] = 0 /\ ~whole[p] /\ role[p] \in RoleNames /\ StaysInside(p)
  BY <1>1, <1>2, RolesPlayed DEF RegionInv, RegionTypes, Fits, Progress, Before
<1>11. StaysInside(p)'
  BY <1>1, <1>2, <1>5, <1>6, <1>9, <1>10 DEF StaysInside, Mapping, Before, MemoryRoles
<1>12. IsCutBy(p)'
  BY <1>1, <1>5, <1>6 DEF IsCutBy, Mapping, Regions!Sized
<1>13. StaysWhole(p)' /\ Progress(p)'
  BY <1>1, <1>5, <1>6, <1>10 DEF StaysWhole, Progress, Before, RoleNames, Regions!Sized
<1>14. WillBeUnlinked'
  <2>1. CASE at_name = NULL
    BY <1>1, <1>3, <1>5, <1>6, <1>10, <2>1 DEF WillBeUnlinked, RoleNames, Regions!OverFile
  <2>2. CASE at_name \in Client
    <3>1. at_name = p => role[p] \in Regions!OverFile
      BY <1>1, <2>2 DEF RegionInv, WillBeUnlinked
    <3> QED BY <1>1, <1>4, <1>5, <2>2, <3>1 DEF RegionInv, WillBeUnlinked
  <2> QED BY <1>2, <2>1, <2>2 DEF RegionTypes
<1> QED BY <1>1, <1>7, <1>8, <1>11, <1>12, <1>13, <1>14, OneMoves

(* A region gets the size of p, also under the mapping of another.          *)
LEMMA RegionTruncates ==
    ASSUME RegionInv, NEW p \in Client, Regions!Truncates(p)
    PROVE  RegionInv'
<1> DEFINE r == region[p]
           s == newsize[p]
<1>1. /\ pc[p] = "truncate" /\ length' = [length EXCEPT ![r] = s]
      /\ ints' = [ints EXCEPT ![r] = ints[r] \cap 0..s-1]
      /\ whole' = [q \in Client |-> whole[q] /\ (region[q] = r => mapped[q] <= s)]
      /\ Regions!GoesOn(p)
      /\ UNCHANGED <<role, newsize, at_name, region, mapped, n, sum>>
      /\ RegionTypes /\ Fits(p) /\ r \in Client /\ s \in Nat
  BY DEF Regions!Truncates, RegionInv, Fits, StaysInside, RegionTypes
<1>2. PICK l \in Places : /\ Follows(role[p], "truncate", l) /\ pc' \in [Client -> Places]
                          /\ pc'[p] = l /\ \A q \in Client \ {p} : pc'[q] = pc[q]
  BY <1>1, GoesTo
<1>3. l = "map"
  BY <1>2 DEF Follows
<1>4. /\ length' \in [Client -> Nat] /\ length'[r] = s
      /\ \A o \in Client \ {r} : length'[o] = length[o]
  BY <1>1 DEF RegionTypes
<1>5. /\ ints' \in [Client -> SUBSET Nat] /\ ints'[r] = ints[r] \cap 0..s-1
      /\ \A o \in Client \ {r} : ints'[o] = ints[o]
  BY <1>1 DEF RegionTypes
<1>6. /\ whole' \in [Client -> BOOLEAN]
      /\ \A q \in Client : whole'[q] => whole[q] /\ (region[q] = r => mapped[q] <= s)
  BY <1>1 DEF RegionTypes
<1>7. role[p] \in {"smem_writer"} \cup Regions!Sized
  BY <1>1 DEF Fits, Progress
<1>8. \A q \in Client : Regions!HasTruncated(q) => Regions!HasTruncated(q)'
  BY <1>1, <1>2, TruncatedStays
<1>9. RegionTypes'
  BY <1>1, <1>2, <1>4, <1>5, <1>6 DEF RegionTypes
<1>10. ASSUME NEW q \in Client PROVE Fits(q)'
  <2>1. Fits(q) /\ newsize[q] \in Nat /\ mapped[q] \in Nat /\ (q # p => pc'[q] = pc[q])
    BY <1>1, <1>2 DEF RegionInv, RegionTypes
  <2>2. StaysInside(q)'
    <3>1. role[q] \in MemoryRoles => s = LEN
      BY <1>1, RolesPlayed, SizesPlayed DEF RegionTypes
    <3>2. role[q] \in MemoryRoles => \A o \in Client : length'[o] \in {0, LEN}
      BY <1>4, <2>1, <3>1 DEF Fits, StaysInside
    <3>3. q # p /\ role[q] \in MemoryRoles /\ length[region[q]] = LEN /\ region[q] \in Client
             => length'[region[q]] = LEN
      BY <1>4, <3>1
    <3> QED BY <1>1, <1>2, <1>3, <1>4, <2>1, <3>1, <3>2, <3>3
            DEF Fits, StaysInside, Before, Mapping, MemoryRoles
  <2>3. IsCutBy(q)'
    <3>1. role[q] \in Regions!Sized => Regions!HasTruncated(p)'
      <4>1. role[q] \in Regions!Sized => role[p] \in Regions!Sized
        BY <1>1, <1>7, RolesPlayed DEF RegionTypes, MemoryRoles, Regions!Sized
      <4> QED BY <1>1, <1>2, <1>3, <4>1 DEF Regions!HasTruncated
    <3>2. role[q] \in Regions!Sized /\ region[q] = r =>
             \E o \in Client : Regions!HasTruncated(o)' /\ newsize'[o] = length'[region'[q]]
      BY <1>1, <1>4, <3>1
    <3>3. CASE pc[q] = "killed"
      <4>1. pc'[q] = "killed"
        BY <1>1, <2>1, <3>3
      <4> QED BY <1>1, <1>8, <2>1, <3>3, <4>1 DEF Fits, IsCutBy, Mapping
    <3>4. CASE pc[q] # "killed" /\ region[q] = r
      BY <1>1, <1>2, <1>3, <2>1, <3>2, <3>4 DEF IsCutBy
    <3>5. CASE pc[q] # "killed" /\ region[q] # r
      <4>1. q # p /\ pc'[q] = pc[q]
        BY <2>1, <3>5
      <4>2. region[q] \in Client /\ region[q] # r => length'[region[q]] = length[region[q]]
        BY <1>4
      <4> QED BY <1>1, <1>8, <2>1, <3>5, <4>1, <4>2 DEF Fits, IsCutBy, StaysInside
    <3> QED BY <3>3, <3>4, <3>5
  <2>4. StaysWhole(q)'
    <3>1. ASSUME whole'[q], region[q] \in Client
          PROVE  0..newsize[q]-1 \subseteq ints'[region[q]]
      <4>1. whole[q] /\ (region[q] = r => mapped[q] <= s)
        BY <1>6, <3>1
      <4>2. 0..newsize[q]-1 \subseteq ints[region[q]] /\ newsize[q] <= mapped[q]
        BY <2>1, <3>1, <4>1 DEF Fits, StaysWhole, StaysInside, Progress
      <4>3. region[q] = r => newsize[q] <= s
        BY <1>1, <2>1, <4>1, <4>2
      <4>4. region[q] = r => 0..newsize[q]-1 \subseteq 0..s-1
        BY <1>1, <2>1, <4>3
      <4> HIDE DEF s, r
      <4> QED BY <1>5, <3>1, <4>2, <4>4
    <3> QED BY <1>1, <3>1 DEF StaysWhole
  <2>5. Progress(q)'
    <3>1. CASE q = p
      BY <1>1, <1>2, <1>3, <1>6, <3>1 DEF Fits, Progress, Before
    <3>2. CASE q # p
      BY <1>1, <1>6, <2>1, <3>2 DEF Fits, Progress
    <3> QED BY <3>1, <3>2
  <2> QED BY <2>2, <2>3, <2>4, <2>5 DEF Fits
<1>11. WillBeUnlinked'
  BY <1>1, <1>2, <1>3 DEF RegionInv, WillBeUnlinked
<1> QED BY <1>9, <1>10, <1>11 DEF RegionInv

(* A reader opens what the name leads to, if anything.                      *)
LEMMA RegionOpens ==
    ASSUME RegionInv, NEW p \in Client, Regions!Opens(p)
    PROVE  RegionInv'
<1>1. /\ pc[p] = "open" /\ region' = [region EXCEPT ![p] = at_name]
      /\ UNCHANGED <<role, newsize, at_name, length, ints, mapped, n, sum, whole>>
      /\ RegionTypes /\ StaysInside(p) /\ Progress(p)
  BY DEF Regions!Opens, RegionInv, Fits
<1>2. ~whole[p] /\ n[p] = 0 /\ sum[p] = 0
  BY <1>1 DEF Progress, Before
<1>3. region' \in [Client -> Client \cup {NULL}] /\ region'[p] = at_name
      /\ at_name \in Client \cup {NULL}
  BY <1>1 DEF RegionTypes
<1>4. PICK l \in Places :
          /\ pc' \in [Client -> Places] /\ pc'[p] = l
          /\ \A q \in Client \ {p} : pc'[q] = pc[q]
          /\ \/ l = "end" /\ at_name = NULL
             \/ l = "map" /\ role[p] = "smem_reader" /\ at_name # NULL
  <2>1. CASE at_name = NULL
    <3>1. pc' = [pc EXCEPT ![p] = "end"] /\ "end" \in Places
      BY <2>1 DEF Regions!Opens, Regions!Go, Places
    <3> QED BY <1>1, <2>1, <3>1 DEF RegionTypes
  <2>2. CASE at_name # NULL
    <3>1. Regions!GoesOn(p)
      BY <2>2 DEF Regions!Opens
    <3> QED BY <1>1, <2>2, <3>1, GoesTo DEF Follows
  <2> QED BY <2>1, <2>2
<1>5. RegionTypes'
  BY <1>1, <1>3, <1>4 DEF RegionTypes
<1>6. Grows /\ \A q \in Client \ {p} : Rests(q)
  BY <1>1, <1>4 DEF Grows, Rests, RegionTypes
<1>7. StaysInside(p)' /\ StaysWhole(p)' /\ Progress(p)'
  BY <1>1, <1>2, <1>3, <1>4, EchoAssumption
     DEF StaysInside, StaysWhole, Progress, Mapping, Before, MemoryRoles
<1>8. IsCutBy(p)'
  BY <1>1, <1>4 DEF IsCutBy, Mapping, Regions!Sized
<1>9. WillBeUnlinked'
  BY <1>1, <1>4 DEF RegionInv, WillBeUnlinked
<1> QED BY <1>1, <1>4, <1>5, <1>6, <1>7, <1>8, <1>9, OneMoves

(* All three functions map at least the size that the caller works on.      *)
LEMMA RegionMaps ==
    ASSUME RegionInv, NEW p \in Client, pc[p] = "map", NEW s \in Nat,
           s # 0 => newsize[p] <= s,
           s # 0 /\ role[p] \in MemoryRoles => length[region[p]] = LEN,
           s = 0 => role[p] # "smem_writer",
           Regions!shmem_internal_map(p, s)
    PROVE  RegionInv'
<1>1. /\ UNCHANGED <<role, newsize, at_name, length, ints, n, sum>>
      /\ RegionTypes /\ StaysInside(p) /\ IsCutBy(p) /\ StaysWhole(p) /\ Progress(p)
  BY DEF Regions!shmem_internal_map, RegionInv, Fits
<1>2. /\ region[p] \in Client /\ n[p] = 0 /\ sum[p] = 0 /\ ~whole[p]
      /\ newsize[p] \in Nat /\ NULL \notin Client /\ role[p] \in RoleNames
  BY <1>1, SizesPlayed, RolesPlayed DEF StaysInside, Progress, Before, RegionTypes
<1>3. CASE s = 0
  <2>1. /\ pc' = [pc EXCEPT ![p] = "end"] /\ region' = [region EXCEPT ![p] = NULL]
        /\ UNCHANGED <<mapped, whole>>
    BY <1>3 DEF Regions!shmem_internal_map, Regions!Go
  <2>2. RegionTypes' /\ pc'[p] = "end" /\ region'[p] = NULL
        /\ \A q \in Client \ {p} : pc'[q] = pc[q] /\ region'[q] = region[q]
    BY <1>1, <2>1 DEF RegionTypes, Places
  <2>3. Grows /\ \A q \in Client \ {p} : Rests(q)
    BY <1>1, <2>1, <2>2 DEF Grows, Rests
  <2>4. StaysInside(p)' /\ IsCutBy(p)' /\ StaysWhole(p)' /\ Progress(p)'
    BY <1>1, <1>2, <2>1, <2>2
       DEF StaysInside, IsCutBy, StaysWhole, Progress, Mapping, Before
  <2>5. WillBeUnlinked'
    BY <1>1, <1>3, <2>2 DEF RegionInv, WillBeUnlinked
  <2> QED BY <2>2, <2>3, <2>4, <2>5, OneMoves
<1>4. CASE s # 0
  <2> DEFINE w == 0..newsize[p]-1 \subseteq ints[region[p]]
  <2>1. /\ mapped' = [mapped EXCEPT ![p] = s] /\ whole' = [whole EXCEPT ![p] = w]
        /\ Regions!GoesOn(p) /\ UNCHANGED region
    BY <1>4 DEF Regions!shmem_internal_map
  <2>2. w \in BOOLEAN
    OBVIOUS
  <2>3. w => 0..newsize[p]-1 \subseteq ints[region[p]]
    OBVIOUS
  <2> HIDE DEF w
  <2>4. PICK l \in Places : /\ Follows(role[p], "map", l) /\ pc' \in [Client -> Places]
                            /\ pc'[p] = l /\ \A q \in Client \ {p} : pc'[q] = pc[q]
    BY <1>1, <2>1, GoesTo
  <2>5. l = IF role[p] \in {"smem_writer", "genints"} THEN "write" ELSE "read"
    BY <2>4 DEF Follows
  <2>6. RegionTypes' /\ mapped'[p] = s /\ whole'[p] = w
        /\ \A q \in Client \ {p} : mapped'[q] = mapped[q] /\ whole'[q] = whole[q]
    BY <1>1, <2>1, <2>2, <2>4 DEF RegionTypes
  <2>7. Grows /\ \A q \in Client \ {p} : Rests(q)
    BY <1>1, <2>1, <2>4, <2>6 DEF Grows, Rests
  <2>8. StaysInside(p)'
    BY <1>1, <1>2, <1>4, <2>1, <2>4, <2>5, <2>6 DEF StaysInside, Mapping, Before
  <2>9. IsCutBy(p)'
    BY <2>1, <2>4, <2>5, <2>7, CutAsBefore
  <2>10. StaysWhole(p)'
    BY <1>1, <2>1, <2>3, <2>6 DEF StaysWhole
  <2>11. Progress(p)'
    BY <1>1, <1>2, <2>4, <2>5 DEF Progress, RoleNames, Before
  <2>12. WillBeUnlinked'
    BY <1>1, <2>4, <2>5 DEF RegionInv, WillBeUnlinked
  <2> QED BY <2>4, <2>5, <2>6, <2>7, <2>8, <2>9, <2>10, <2>11, <2>12, OneMoves
<1> QED BY <1>3, <1>4

(* The calls of mmap, each with the size that it has.                       *)
LEMMA RegionMapSteps ==
    ASSUME RegionInv, NEW p \in Client,
           Regions!shmem_create(p) \/ Regions!map_file(p) \/ Regions!shmem_open(p)
    PROVE  RegionInv'
<1>1. /\ RegionTypes /\ StaysInside(p) /\ pc[p] = "map" /\ region[p] \in Client
      /\ newsize[p] \in Nat /\ mapped[p] \in Nat /\ length[region[p]] \in Nat
      /\ LEN \in Nat \ {0}
  BY LenAssumption DEF RegionInv, RegionTypes, Fits, StaysInside,
     Regions!shmem_create, Regions!map_file, Regions!shmem_open
<1>2. CASE Regions!shmem_create(p)
  <2>1. role[p] = "smem_writer" /\ Regions!shmem_internal_map(p, newsize[p])
    BY <1>2 DEF Regions!shmem_create
  <2>2. length[region[p]] = LEN /\ newsize[p] = LEN
    BY <1>1, <2>1, SizesPlayed DEF StaysInside, MemoryRoles
  <2> QED BY <1>1, <2>1, <2>2, RegionMaps
<1>3. CASE Regions!map_file(p)
  <2> DEFINE s == IF newsize[p] = 0 THEN mapped[p] ELSE newsize[p]
  <2>1. role[p] \in Regions!OverFile /\ Regions!shmem_internal_map(p, s)
    BY <1>3 DEF Regions!map_file
  <2>2. s \in Nat /\ newsize[p] <= s
    BY <1>1
  <2>3. role[p] \notin MemoryRoles /\ role[p] # "smem_writer"
    BY <2>1 DEF MemoryRoles, Regions!OverFile
  <2> HIDE DEF s
  <2> QED BY <1>1, <2>1, <2>2, <2>3, RegionMaps
<1>4. CASE Regions!shmem_open(p)
  <2> DEFINE s == length[region[p]]
  <2>1. role[p] = "smem_reader" /\ Regions!shmem_internal_map(p, s)
    BY <1>4 DEF Regions!shmem_open
  <2>2. s \in {0, LEN} /\ newsize[p] = LEN
    BY <1>1, <2>1, SizesPlayed DEF StaysInside, MemoryRoles
  <2>3. s # 0 => length[region[p]] = LEN /\ newsize[p] <= s
    BY <1>1, <2>2
  <2>4. s \in Nat
    BY <1>1
  <2> HIDE DEF s
  <2> QED BY <1>1, <2>1, <2>3, <2>4, RegionMaps
<1> QED BY <1>2, <1>3, <1>4

(* The loops.  An element is written; or the loop has ended.                *)
LEMMA RegionWrites ==
    ASSUME RegionInv, NEW p \in Client, pc[p] \in {"write", "inc"}, Regions!WritesNext(p)
    PROVE  RegionInv'
<1>1. /\ UNCHANGED <<role, newsize, at_name, length, region, mapped, sum, whole>>
      /\ RegionTypes /\ StaysInside(p) /\ StaysWhole(p) /\ Progress(p)
  BY DEF Regions!WritesNext, RegionInv, Fits
<1>2. region[p] \in Client /\ n[p] \in Nat
  BY <1>1 DEF StaysInside, Mapping, RegionTypes
<1>3. CASE n[p] < newsize[p]
  <2>1. /\ ints' = [ints EXCEPT ![region[p]] = ints[region[p]] \cup {n[p]}]
        /\ n' = [n EXCEPT ![p] = n[p] + 1]
        /\ UNCHANGED pc
    BY <1>3 DEF Regions!WritesNext
  <2>2. ints' \in [Client -> SUBSET Nat] /\ \A r \in Client : ints[r] \subseteq ints'[r]
    BY <1>1, <1>2, <2>1 DEF RegionTypes
  <2>3. RegionTypes'
    BY <1>1, <1>2, <2>1, <2>2 DEF RegionTypes
  <2>4. Grows /\ \A q \in Client \ {p} : Rests(q)
    BY <1>1, <2>1, <2>2 DEF Grows, Rests, RegionTypes
  <2>5. StaysInside(p)' /\ StaysWhole(p)'
    BY <1>1, <2>1, <2>2 DEF StaysInside, StaysWhole
  <2>6. pc[p] \in Mapping /\ pc'[p] \notin {"create", "truncate", "killed"}
    BY <2>1 DEF Mapping
  <2>7. IsCutBy(p)'
    BY <1>1, <2>4, <2>6, CutAsBefore
  <2>8. Progress(p)'
    BY <1>1, <2>1 DEF Progress, Before
  <2>9. WillBeUnlinked'
    BY <1>1, <2>1 DEF RegionInv, WillBeUnlinked
  <2> QED BY <2>3, <2>4, <2>5, <2>6, <2>7, <2>8, <2>9, OneMoves
<1>4. CASE ~(n[p] < newsize[p])
  <2>1. Regions!GoesOn(p) /\ UNCHANGED <<ints, n>>
    BY <1>4 DEF Regions!WritesNext
  <2>2. PICK l \in Places : /\ Follows(role[p], pc[p], l) /\ pc' \in [Client -> Places]
                            /\ pc'[p] = l /\ \A q \in Client \ {p} : pc'[q] = pc[q]
    BY <1>1, <2>1, GoesTo
  <2>3. \/ pc[p] = "write" /\ role[p] = "smem_writer" /\ l = "destroy"
        \/ pc[p] = "write" /\ role[p] = "genints" /\ l = "unmap"
        \/ pc[p] = "inc" /\ role[p] \in {"maptest", "maptest_size"} /\ l = "unmap"
    BY <2>2 DEF Follows
  <2>4. RegionTypes'
    BY <1>1, <2>1, <2>2 DEF RegionTypes
  <2>5. Grows /\ \A q \in Client \ {p} : Rests(q)
    BY <1>1, <2>1, <2>2 DEF Grows, Rests
  <2>6. StaysInside(p)' /\ StaysWhole(p)' /\ Progress(p)'
    BY <1>1, <2>1, <2>2, <2>3 DEF StaysInside, StaysWhole, Progress, Mapping, Before
  <2>7. IsCutBy(p)'
    BY <2>2, <2>3, <2>5, CutAsBefore DEF Mapping
  <2>8. WillBeUnlinked'
    BY <1>1, <2>2, <2>3 DEF RegionInv, WillBeUnlinked, Regions!OverFile
  <2> QED BY <2>2, <2>3, <2>4, <2>5, <2>6, <2>7, <2>8, OneMoves
<1> QED BY <1>3, <1>4

(* The instance of SharedRegions has the Cardinality of FiniteSets.         *)
LEMMA SameCardinality == \A S : Regions!Cardinality(S) = Cardinality(S)
BY DEF Regions!Cardinality, Cardinality

(* A round of sum_ints counts the elements that it reads.                   *)
LEMMA Counted ==
    ASSUME NEW S, NEW a, NEW b
    PROVE  /\ Cardinality({a} \cap S) \in Nat
           /\ a \in S => Cardinality({a} \cap S) = 1
           /\ Cardinality({a, b} \cap S) \in Nat
           /\ a # b /\ a \in S /\ b \in S => Cardinality({a, b} \cap S) = 2
<1>1. IsFiniteSet({a}) /\ Cardinality({a}) = 1
  BY FS_Singleton
<1>2. IsFiniteSet({a, b}) /\ (a # b => Cardinality({a, b}) = 2)
  <2>1. {a, b} = {a} \cup {b}
    OBVIOUS
  <2>2. IsFiniteSet({a} \cup {b})
        /\ Cardinality({a} \cup {b}) = IF b \in {a} THEN Cardinality({a}) ELSE Cardinality({a}) + 1
    BY <1>1, FS_AddElement
  <2> QED BY <1>1, <2>1, <2>2
<1>3. ASSUME NEW T, IsFiniteSet(T) PROVE Cardinality(T \cap S) \in Nat
  <2>1. T \cap S \subseteq T
    OBVIOUS
  <2>2. IsFiniteSet(T \cap S)
    BY <1>3, <2>1, FS_Subset
  <2> QED BY <2>2, FS_CardinalityType
<1>4. a \in S => {a} \cap S = {a}
  OBVIOUS
<1>5. a \in S /\ b \in S => {a, b} \cap S = {a, b}
  OBVIOUS
<1> QED BY <1>1, <1>2, <1>3, <1>4, <1>5

(* What a round reads, and that the rounds end when everything was read.    *)
LEMMA ReadsOfARound ==
    ASSUME RegionInv, NEW p \in Client, pc[p] = "read"
    PROVE  \/ /\ role[p] = "smem_reader"
              /\ \/ n[p] < newsize[p] /\ Regions!Reads(p) = {n[p]} /\ n[p] \in 0..newsize[p]-1
                 \/ n[p] = newsize[p] /\ Regions!Reads(p) = {}
           \/ /\ role[p] = "maptest_size"
              /\ \/ /\ 2 * (n[p] + 1) <= newsize[p]
                    /\ \E a, b \in 0..newsize[p]-1 : a # b /\ Regions!Reads(p) = {a, b}
                 \/ 2 * n[p] = newsize[p] /\ Regions!Reads(p) = {}
           \/ role[p] = "maptest" /\ Regions!Reads(p) = {}
<1>1. n[p] \in Nat /\ newsize[p] \in Nat /\ Progress(p) /\ RegionTypes
  BY DEF RegionInv, RegionTypes, Fits
<1>2. CASE role[p] = "smem_reader"
  BY <1>1, <1>2 DEF Progress, Regions!Reads
<1>3. CASE role[p] = "maptest_size"
  <2> DEFINE half == newsize[p] \div 2
             a == half + n[p]
             b == half - 1 - n[p]
  <2>1. Regions!Reads(p) = IF a < newsize[p] THEN {a, b} ELSE {}
    BY <1>3 DEF Regions!Reads
  <2>2. half \in Nat /\ 2 * half = newsize[p] /\ 2 * n[p] <= newsize[p]
    BY <1>1, <1>3, SizesPlayed DEF Progress
  <2> HIDE DEF half
  <2>3. a < newsize[p] =>
           a \in 0..newsize[p]-1 /\ b \in 0..newsize[p]-1 /\ a # b /\ 2 * (n[p] + 1) <= newsize[p]
    BY <1>1, <2>2
  <2>4. ~(a < newsize[p]) => 2 * n[p] = newsize[p]
    BY <1>1, <2>2
  <2> HIDE DEF a, b
  <2> QED BY <1>3, <2>1, <2>3, <2>4
<1>4. CASE role[p] = "maptest"
  <2>1. newsize[p] = 0 /\ 0 \div 2 = 0
    BY <1>1, <1>4, SizesPlayed
  <2> QED BY <1>1, <1>4, <2>1 DEF Regions!Reads
<1> QED BY <1>1, <1>2, <1>3, <1>4 DEF Progress

(* A round of the loop of a reader, or its end.                             *)
LEMMA RegionReads ==
    ASSUME RegionInv, NEW p \in Client, Regions!sum_ints(p)
    PROVE  RegionInv'
<1>1. /\ pc[p] = "read"
      /\ UNCHANGED <<role, newsize, at_name, length, ints, region, mapped, whole>>
      /\ RegionTypes /\ StaysInside(p) /\ StaysWhole(p) /\ Progress(p)
  BY DEF Regions!sum_ints, RegionInv, Fits
<1>2. region[p] \in Client /\ n[p] \in Nat /\ sum[p] \in Nat /\ newsize[p] \in Nat
  BY <1>1 DEF StaysInside, Mapping, RegionTypes
<1>3. whole[p] => 0..newsize[p]-1 \subseteq ints[region[p]]
  BY <1>1, <1>2 DEF StaysWhole
<1>4. CASE Regions!Reads(p) # {}
  <2> DEFINE S == ints[region[p]]
             k == Cardinality(Regions!Reads(p) \cap S)
  <2>1. /\ sum' = [sum EXCEPT ![p] = sum[p] + k] /\ n' = [n EXCEPT ![p] = n[p] + 1]
        /\ UNCHANGED pc
    BY <1>4, SameCardinality DEF Regions!sum_ints
  <2>2. whole[p] => 0..newsize[p]-1 \subseteq S
    BY <1>3
  <2> HIDE DEF S
  <2>3. /\ k \in Nat
        /\ \/ role[p] = "smem_reader" /\ n[p] + 1 <= newsize[p] /\ (whole[p] => k = 1)
           \/ role[p] = "maptest_size" /\ 2 * (n[p] + 1) <= newsize[p] /\ (whole[p] => k = 2)
    <3>1. CASE role[p] = "smem_reader"
      <4>1. Regions!Reads(p) = {n[p]} /\ n[p] \in 0..newsize[p]-1 /\ n[p] < newsize[p]
        BY <1>1, <1>4, <3>1, ReadsOfARound
      <4>2. /\ Cardinality({n[p]} \cap S) \in Nat
            /\ n[p] \in S => Cardinality({n[p]} \cap S) = 1
        BY Counted
      <4> QED BY <1>1, <1>2, <2>2, <3>1, <4>1, <4>2
    <3>2. CASE role[p] = "maptest_size"
      <4>1. /\ 2 * (n[p] + 1) <= newsize[p]
            /\ \E a, b \in 0..newsize[p]-1 : a # b /\ Regions!Reads(p) = {a, b}
        BY <1>1, <1>4, <3>2, ReadsOfARound
      <4>2. PICK a \in 0..newsize[p]-1, b \in 0..newsize[p]-1 :
                a # b /\ Regions!Reads(p) = {a, b}
        BY <4>1
      <4>3. /\ Cardinality({a, b} \cap S) \in Nat
            /\ a # b /\ a \in S /\ b \in S => Cardinality({a, b} \cap S) = 2
        BY Counted
      <4> QED BY <2>2, <3>2, <4>1, <4>2, <4>3
    <3> QED BY <1>1, <1>4, <3>1, <3>2, ReadsOfARound
  <2> HIDE DEF k
  <2>4. /\ sum' \in [Client -> Nat] /\ n' \in [Client -> Nat]
        /\ sum'[p] = sum[p] + k /\ n'[p] = n[p] + 1
        /\ \A q \in Client \ {p} : sum'[q] = sum[q] /\ n'[q] = n[q]
    <3>1. sum \in [Client -> Nat] /\ n \in [Client -> Nat]
      BY <1>1 DEF RegionTypes
    <3> QED BY <1>2, <2>1, <2>3, <3>1
  <2>5. RegionTypes'
    BY <1>1, <2>1, <2>4 DEF RegionTypes
  <2>6. Grows /\ \A q \in Client \ {p} : Rests(q)
    BY <1>1, <2>1, <2>4 DEF Grows, Rests
  <2>7. StaysInside(p)' /\ StaysWhole(p)'
    BY <1>1, <2>1 DEF StaysInside, StaysWhole
  <2>8. pc[p] \in Mapping /\ pc'[p] = "read"
    BY <1>1, <2>1 DEF Mapping
  <2>9. IsCutBy(p)'
    BY <1>1, <2>6, <2>8, CutAsBefore
  <2>10. Progress(p)'
    <3>1. CASE role[p] = "smem_reader"
      <4>1. whole[p] => sum[p] = n[p]
        BY <1>1, <3>1 DEF Progress
      <4> QED BY <1>1, <1>2, <2>1, <2>3, <2>4, <3>1, <4>1 DEF Progress, Before
    <3>2. CASE role[p] = "maptest_size"
      <4>1. whole[p] => sum[p] = 2 * n[p]
        BY <1>1, <3>2 DEF Progress
      <4>2. whole[p] => sum'[p] = 2 * n'[p]
        BY <1>2, <2>3, <2>4, <3>2, <4>1
      <4> QED BY <1>1, <2>1, <2>3, <2>4, <3>2, <4>2 DEF Progress, Before
    <3> QED BY <2>3, <3>1, <3>2
  <2>11. WillBeUnlinked'
    BY <1>1, <2>1 DEF RegionInv, WillBeUnlinked
  <2> QED BY <2>5, <2>6, <2>7, <2>8, <2>9, <2>10, <2>11, OneMoves
<1>5. CASE Regions!Reads(p) = {}
  <2>1. n' = [n EXCEPT ![p] = 0] /\ Regions!GoesOn(p) /\ UNCHANGED sum
    BY <1>5 DEF Regions!sum_ints
  <2>2. PICK l \in Places : /\ Follows(role[p], pc[p], l) /\ pc' \in [Client -> Places]
                            /\ pc'[p] = l /\ \A q \in Client \ {p} : pc'[q] = pc[q]
    BY <1>1, <2>1, GoesTo
  <2>3. \/ role[p] = "smem_reader" /\ l = "destroy"
        \/ role[p] \in {"maptest", "maptest_size"} /\ l = "inc"
    BY <1>1, <2>2 DEF Follows
  <2>4. role[p] \in {"smem_reader", "maptest_size"} /\ whole[p] => sum[p] = newsize[p]
    <3>1. CASE role[p] = "smem_reader"
      <4>1. n[p] = newsize[p]
        BY <1>1, <1>5, <3>1, ReadsOfARound
      <4> QED BY <1>1, <3>1, <4>1 DEF Progress
    <3>2. CASE role[p] = "maptest_size"
      <4>1. 2 * n[p] = newsize[p]
        BY <1>1, <1>5, <3>2, ReadsOfARound
      <4> QED BY <1>1, <3>2, <4>1 DEF Progress
    <3> QED BY <3>1, <3>2
  <2>5. RegionTypes' /\ \A q \in Client \ {p} : n'[q] = n[q]
    BY <1>1, <2>1, <2>2 DEF RegionTypes
  <2>6. Grows /\ \A q \in Client \ {p} : Rests(q)
    BY <1>1, <2>1, <2>2, <2>5 DEF Grows, Rests
  <2>7. StaysInside(p)' /\ StaysWhole(p)'
    BY <1>1, <2>1, <2>2, <2>3 DEF StaysInside, StaysWhole, Mapping, Before, MemoryRoles
  <2>8. IsCutBy(p)'
    BY <1>1, <2>2, <2>3, <2>6, CutAsBefore DEF Mapping
  <2>9. Progress(p)'
    BY <1>1, <2>1, <2>2, <2>3, <2>4 DEF Progress, Before
  <2>10. WillBeUnlinked'
    BY <1>1, <2>2 DEF RegionInv, WillBeUnlinked
  <2> QED BY <2>2, <2>3, <2>5, <2>6, <2>7, <2>8, <2>9, <2>10, OneMoves
<1> QED BY <1>4, <1>5

(* An access beyond the end of a file that was cut.                         *)
LEMMA RegionKills ==
    ASSUME RegionInv, NEW p \in Client, Regions!BusError(p)
    PROVE  RegionInv'
<1>1. /\ ~Regions!InRegion(p) /\ pc' = [pc EXCEPT ![p] = "killed"]
      /\ region' = [region EXCEPT ![p] = NULL]
      /\ UNCHANGED <<role, newsize, at_name, length, ints, mapped, n, sum, whole>>
      /\ RegionTypes /\ Fits(p)
  BY DEF RegionInv, Regions!BusError, Regions!Go
<1>2. role[p] \in Regions!Sized
  BY <1>1, CutOff
<1>3. PICK q \in Client : Regions!HasTruncated(q) /\ newsize[q] < newsize[p]
  BY <1>1, CutOff
<1>4. RegionTypes' /\ pc'[p] = "killed" /\ region'[p] = NULL
      /\ \A o \in Client \ {p} : pc'[o] = pc[o] /\ region'[o] = region[o]
  BY <1>1 DEF RegionTypes, Places
<1>5. Grows /\ \A o \in Client \ {p} : Rests(o)
  BY <1>1, <1>4 DEF Grows, Rests
<1>6. Regions!HasTruncated(q)'
  BY <1>1, <1>3, <1>4, TruncatedStays
<1>7. IsCutBy(p)'
  BY <1>1, <1>3, <1>4, <1>6 DEF IsCutBy, Mapping
<1>8. StaysInside(p)' /\ StaysWhole(p)' /\ Progress(p)'
  BY <1>1, <1>2, <1>4, EchoAssumption
     DEF StaysInside, StaysWhole, Progress, Mapping, Before, MemoryRoles, Regions!Sized
<1>9. WillBeUnlinked'
  BY <1>1, <1>2, <1>4 DEF RegionInv, WillBeUnlinked, Regions!OverFile, Regions!Sized
<1> QED BY <1>4, <1>5, <1>7, <1>8, <1>9, OneMoves

(* A program gives its region up; over shared memory the name goes too,     *)
(* whoever's region it leads to.                                            *)
LEMMA RegionEnds ==
    ASSUME RegionInv, NEW p \in Client, Regions!shmem_destroy(p) \/ Regions!unmap_file(p)
    PROVE  RegionInv'
<1>1. /\ pc[p] \in {"unmap", "destroy"} /\ region' = [region EXCEPT ![p] = NULL]
      /\ at_name' = NULL \/ (at_name' = at_name /\ pc[p] = "unmap")
      /\ Regions!GoesOn(p) /\ UNCHANGED <<role, newsize, length, ints, mapped, n, sum, whole>>
      /\ RegionTypes /\ StaysInside(p) /\ Progress(p)
  BY DEF RegionInv, Fits, Regions!shmem_destroy, Regions!unmap_file
<1>2. PICK l \in Places : /\ Follows(role[p], pc[p], l) /\ pc' \in [Client -> Places]
                          /\ pc'[p] = l /\ \A q \in Client \ {p} : pc'[q] = pc[q]
  BY <1>1, GoesTo
<1>3. l = "end"
  BY <1>1, <1>2 DEF Follows
<1>4. RegionTypes' /\ region'[p] = NULL /\ \A q \in Client \ {p} : region'[q] = region[q]
  BY <1>1, <1>2 DEF RegionTypes
<1>5. Grows /\ \A q \in Client \ {p} : Rests(q)
  BY <1>1, <1>2, <1>4 DEF Grows, Rests
<1>6. StaysInside(p)' /\ StaysWhole(p)' /\ Progress(p)'
  BY <1>1, <1>2, <1>3, <1>4, EchoAssumption
     DEF StaysInside, StaysWhole, Progress, Mapping, Before
<1>7. IsCutBy(p)'
  BY <1>2, <1>3, <1>5, CutAsBefore DEF Mapping
<1>8. WillBeUnlinked'
  BY <1>1, <1>2, EchoAssumption DEF RegionInv, WillBeUnlinked
<1> QED BY <1>2, <1>3, <1>4, <1>5, <1>6, <1>7, <1>8, OneMoves

(* Every step of the programs over a region.                                *)
LEMMA RegionStep ==
    ASSUME RegionInv, Regions!Next
    PROVE  RegionInv'
<1>1. PICK p \in Client :
          \/ Regions!Creates(p) \/ Regions!Truncates(p) \/ Regions!shmem_create(p)
          \/ Regions!map_file(p) \/ Regions!Opens(p) \/ Regions!shmem_open(p)
          \/ Regions!write_ints(p) \/ Regions!sum_ints(p) \/ Regions!inc_ints(p)
          \/ Regions!BusError(p) \/ Regions!shmem_destroy(p) \/ Regions!unmap_file(p)
  BY DEF Regions!Next
<1>2. CASE Regions!Creates(p)
  BY <1>2, RegionCreates
<1>3. CASE Regions!Truncates(p)
  BY <1>3, RegionTruncates
<1>4. CASE Regions!shmem_create(p) \/ Regions!map_file(p) \/ Regions!shmem_open(p)
  BY <1>4, RegionMapSteps
<1>5. CASE Regions!Opens(p)
  BY <1>5, RegionOpens
<1>6. CASE Regions!write_ints(p) \/ Regions!inc_ints(p)
  BY <1>6, RegionWrites DEF Regions!write_ints, Regions!inc_ints
<1>7. CASE Regions!sum_ints(p)
  BY <1>7, RegionReads
<1>8. CASE Regions!BusError(p)
  BY <1>8, RegionKills
<1>9. CASE Regions!shmem_destroy(p) \/ Regions!unmap_file(p)
  BY <1>9, RegionEnds
<1> QED BY <1>1, <1>2, <1>3, <1>4, <1>5, <1>6, <1>7, <1>8, <1>9

(* Whoever creates, opens, truncates and unlinks the region in whatever     *)
(* order, each with a size of its own: no program touches an element it has *)
(* not mapped; none leaves a region over shared memory, and one over a file *)
(* only where somebody who wanted less has cut it; no name over shared      *)
(* memory is left over, and who mapped a region that was written, and is    *)
(* not cut, has summed all of it (RegionsHold).                             *)
THEOREM NobodyLeavesItsRegion == Spec => []RegionsHold
<1> DEFINE IInv == kind = "region" => RegionInv
<1>1. Init => IInv
  BY RegionInit DEF Init
<1>2. IInv /\ [Next]_allVars => IInv'
  <2> SUFFICES ASSUME IInv, [Next]_allVars, kind' = "region" PROVE RegionInv'
    OBVIOUS
  <2>1. CASE Next
    <3>1. kind = "region" /\ Regions!Next
      BY <2>1 DEF Next, Keeps
    <3> QED BY <3>1, RegionStep
  <2>2. CASE UNCHANGED allVars
    <3>1. UNCHANGED <<kind, pc, role, newsize, at_name, length, ints, region, mapped, n, sum, whole>>
      BY <2>2 DEF allVars, regionVars
    <3> QED BY <3>1 DEF RegionInv, RegionTypes, WillBeUnlinked, Fits, StaysInside, IsCutBy,
            StaysWhole, Progress, Regions!HasTruncated
  <2> QED BY <2>1, <2>2
<1>3. IInv => RegionsHold
  BY RegionInvImplies DEF RegionsHold
<1> HIDE DEF IInv
<1> QED BY <1>1, <1>2, <1>3, PTL DEF Spec

-----------------------------------------------------------------------------
(* Rings.  What a ring of C elements holds, oldest first: z messages in the *)
(* array b from index g on.                                                 *)
Held(b, g, z, C) == [k \in 1..z |-> b[(g + k - 1) % C]]

(* Where an index that has passed the end at most once has come to.         *)
Wrapped(x, C) == IF x < C THEN x ELSE x - C

(* An index needs one subtraction at most to be in the ring again.          *)
LEMMA Wraps ==
    ASSUME NEW C \in Nat \ {0}, NEW x \in Nat, x < 2 * C
    PROVE  x % C = Wrapped(x, C) /\ Wrapped(x, C) \in 0..C-1
<1>1. CASE x < C
  BY <1>1 DEF Wrapped
<1>2. CASE x >= C
  <2>1. x = C * 1 + (x - C) /\ 0 <= x - C /\ x - C < C
    BY <1>2
  <2>2. x % C = x - C
    BY <2>1, <1>2, SMTT(30)
  <2> QED BY <2>1, <2>2, <1>2 DEF Wrapped
<1> QED BY <1>1, <1>2

(* f is a sequence of len elements.                                         *)
HasElements(f, len) == f = [k \in 1..len |-> f[k]]

(* Where in the array each message is.                                      *)
LEMMA HeldAt ==
    ASSUME NEW C \in Nat \ {0}, NEW b, NEW g \in 0..C-1, NEW z \in 0..C
    PROVE  /\ HasElements(Held(b, g, z, C), z)
           /\ \A k \in 1..z : Held(b, g, z, C)[k] = b[Wrapped(g + k - 1, C)]
<1>1. ASSUME NEW k \in 1..z
      PROVE  (g + k - 1) % C = Wrapped(g + k - 1, C)
  <2>1. g + k - 1 \in Nat /\ g + k - 1 < 2 * C
    OBVIOUS
  <2> QED BY <2>1, Wraps
<1> QED BY <1>1 DEF Held, HasElements

(* Sequences that agree everywhere are equal.                               *)
LEMMA AgreeEverywhere ==
    ASSUME NEW S, NEW len \in Nat, NEW f, NEW s \in Seq(S),
           HasElements(f, len), Len(s) = len, \A k \in 1..len : f[k] = s[k]
    PROVE  f = s
<1>1. s = [k \in 1..len |-> s[k]]
  OBVIOUS
<1> QED BY <1>1 DEF HasElements

Stored(b, i, m) == [b EXCEPT ![i] = m]

(* A message stored behind the others is the last one.                      *)
LEMMA HeldPut ==
    ASSUME NEW C \in Nat \ {0}, NEW S, NEW b,
           NEW g \in 0..C-1, NEW z \in 0..C-1, NEW m \in S, DOMAIN b = 0..C-1,
           Held(b, g, z, C) \in Seq(S), Len(Held(b, g, z, C)) = z
    PROVE  Held(Stored(b, Wrapped(g + z, C), m), g, z + 1, C) = Append(Held(b, g, z, C), m)
<1> DEFINE i == Wrapped(g + z, C)
           b2 == Stored(b, i, m)
           old == Held(b, g, z, C)
           new == Held(b2, g, z + 1, C)
<1>1. i \in 0..C-1
  BY DEF Wrapped
<1>2. \A k \in 1..z : Wrapped(g + k - 1, C) # i /\ Wrapped(g + k - 1, C) \in 0..C-1
  BY DEF Wrapped
<1> HIDE DEF i
<1>3. b2[i] = m /\ \A k \in 1..z : b2[Wrapped(g + k - 1, C)] = b[Wrapped(g + k - 1, C)]
  BY <1>1, <1>2 DEF Stored
<1> HIDE DEF b2
<1>4. /\ HasElements(new, z + 1)
      /\ \A k \in 1..z+1 : new[k] = b2[Wrapped(g + k - 1, C)]
  <2>1. z + 1 \in 0..C
    OBVIOUS
  <2> QED BY <2>1, HeldAt
<1>5. \A k \in 1..z : old[k] = b[Wrapped(g + k - 1, C)]
  <2>1. z \in 0..C
    OBVIOUS
  <2> QED BY <2>1, HeldAt
<1> HIDE DEF old, new
<1>6. old \in Seq(S) /\ Len(old) = z
  BY DEF old
<1>7. /\ Append(old, m) \in Seq(S) /\ Len(Append(old, m)) = z + 1
      /\ Append(old, m)[z + 1] = m
      /\ \A k \in 1..z : Append(old, m)[k] = old[k]
  BY <1>6
<1>8. ASSUME NEW k \in 1..z+1 PROVE new[k] = Append(old, m)[k]
  <2>1. CASE k = z + 1
    <3>1. g + k - 1 = g + z
      BY <2>1
    <3>2. new[k] = b2[i]
      BY <1>4, <3>1 DEF i
    <3> QED BY <3>2, <1>3, <1>7, <2>1
  <2>2. CASE k # z + 1
    <3>1. k \in 1..z
      BY <2>2
    <3> QED BY <3>1, <1>3, <1>4, <1>5, <1>7
  <2> QED BY <2>1, <2>2
<1>9. new = Append(old, m)
  <2>1. z + 1 \in Nat
    OBVIOUS
  <2> QED BY <1>4, <1>7, <1>8, <2>1, AgreeEverywhere
<1> QED BY <1>9 DEF new, old, b2, i

(* Moving the first index on takes the first message away.                  *)
LEMMA HeldGet ==
    ASSUME NEW C \in Nat \ {0}, NEW S, NEW b,
           NEW g \in 0..C-1, NEW z \in 1..C,
           Held(b, g, z, C) \in Seq(S), Len(Held(b, g, z, C)) = z
    PROVE  /\ Held(b, g, z, C) # <<>>
           /\ b[g] = Head(Held(b, g, z, C))
           /\ Held(b, Wrapped(g + 1, C), z - 1, C) = Tail(Held(b, g, z, C))
<1> DEFINE g2 == Wrapped(g + 1, C)
           old == Held(b, g, z, C)
           new == Held(b, g2, z - 1, C)
<1>1. g2 \in 0..C-1
  BY DEF Wrapped
<1>2. Wrapped(g + 1 - 1, C) = g
  BY DEF Wrapped
<1>3. \A k \in 1..z-1 : Wrapped(g2 + k - 1, C) = Wrapped(g + (k + 1) - 1, C)
  BY SMTT(40) DEF Wrapped
<1> HIDE DEF g2
<1>4. /\ HasElements(new, z - 1)
      /\ \A k \in 1..z-1 : new[k] = b[Wrapped(g2 + k - 1, C)]
  <2>1. z - 1 \in 0..C
    OBVIOUS
  <2> HIDE DEF old, new
  <2>2. /\ HasElements(Held(b, g2, z - 1, C), z - 1)
        /\ \A k \in 1..z-1 : Held(b, g2, z - 1, C)[k] = b[Wrapped(g2 + k - 1, C)]
    <3>1. C \in Nat \ {0}
      OBVIOUS
    <3> QED BY ONLY <3>1, <2>1, <1>1, HeldAt, ZenonT(30)
  <2> QED BY <2>2 DEF new
<1>5. \A k \in 1..z : old[k] = b[Wrapped(g + k - 1, C)]
  <2>1. z \in 0..C
    OBVIOUS
  <2> QED BY <2>1, HeldAt
<1> HIDE DEF old, new
<1>6. old \in Seq(S) /\ Len(old) = z
  BY DEF old
<1>7. old # <<>> /\ Head(old) = old[1] /\ old[1] = b[g]
  BY <1>2, <1>5, <1>6
<1>8. /\ Tail(old) \in Seq(S) /\ Len(Tail(old)) = z - 1
      /\ \A k \in 1..z-1 : Tail(old)[k] = old[k + 1]
  BY <1>6, <1>7
<1>9. ASSUME NEW k \in 1..z-1 PROVE new[k] = Tail(old)[k]
  <2>1. k + 1 \in 1..z
    OBVIOUS
  <2>2. old[k + 1] = b[Wrapped(g + (k + 1) - 1, C)]
    BY <1>5, <2>1
  <2>3. new[k] = b[Wrapped(g + (k + 1) - 1, C)]
    BY <1>3, <1>4
  <2> QED BY <2>2, <2>3, <1>8
<1>10. new = Tail(old)
  <2>1. z - 1 \in Nat
    OBVIOUS
  <2> QED BY <1>4, <1>8, <1>9, <2>1, AgreeEverywhere
<1> QED BY <1>7, <1>10 DEF old, new, g2

-----------------------------------------------------------------------------
(* The channels in shared memory.  A ring is in its array, and has its      *)
(* messages between iget and iput.                                          *)
Ring(c) ==
    /\ size[c] \in 0..Capacity[c]
    /\ iget[c] \in 0..Capacity[c]-1
    /\ iput[c] = Wrapped(iget[c] + size[c], Capacity[c])
    /\ buf[c] \in [0..Capacity[c]-1 -> Msg \cup {NULL}]
    /\ InMemory!Contents(c) \in Seq(Msg)

(* Contents is what the ring holds, as many as size says.                   *)
LEMMA RingHolds ==
    ASSUME NEW c \in Chan, Ring(c)
    PROVE  /\ InMemory!Contents(c) = Held(buf[c], iget[c], size[c], Capacity[c])
           /\ Len(InMemory!Contents(c)) = size[c]
           /\ Capacity[c] \in Nat \ {0}
<1>1. InMemory!Contents(c) = Held(buf[c], iget[c], size[c], Capacity[c])
  BY DEF Held, InMemory!Contents
<1>2. Capacity[c] \in Nat \ {0}
  BY EchoAssumption
<1>3. HasElements(InMemory!Contents(c), size[c])
  <2>1. HasElements(Held(buf[c], iget[c], size[c], Capacity[c]), size[c])
    BY <1>2, HeldAt DEF Ring
  <2> QED BY <1>1, <2>1
<1>4. size[c] \in Nat /\ InMemory!Contents(c) \in Seq(Msg)
  BY <1>2 DEF Ring
<1>5. DOMAIN InMemory!Contents(c) = 1..size[c]
  BY <1>3 DEF HasElements
<1> QED BY <1>1, <1>2, <1>4, <1>5

(* What mc_put and mc_get do to the ring of their channel.                  *)
LEMMA PutAppends ==
    ASSUME NEW c \in Chan, NEW m \in Msg, Ring(c), size[c] # Capacity[c],
           iget'[c] = iget[c], size'[c] = size[c] + 1, iput'[c] = InMemory!After(c, iput[c]),
           buf'[c] = Stored(buf[c], iput[c], m)
    PROVE  Ring(c)' /\ InMemory!Contents(c)' = Append(InMemory!Contents(c), m)
<1>1. /\ InMemory!Contents(c) = Held(buf[c], iget[c], size[c], Capacity[c])
      /\ Len(InMemory!Contents(c)) = size[c] /\ InMemory!Contents(c) \in Seq(Msg)
      /\ Capacity[c] \in Nat \ {0} /\ size[c] \in 0..Capacity[c]-1 /\ iget[c] \in 0..Capacity[c]-1
  BY RingHolds DEF Ring
<1>2. InMemory!Contents(c)' = Held(buf'[c], iget'[c], size'[c], Capacity[c])
  BY DEF Held, InMemory!Contents
<1>3. buf'[c] = Stored(buf[c], Wrapped(iget[c] + size[c], Capacity[c]), m)
  BY DEF Ring
<1>4. InMemory!Contents(c)' = Append(InMemory!Contents(c), m)
  <2> DEFINE C == Capacity[c]
             b == buf[c]
             g == iget[c]
             z == size[c]
  <2>1. InMemory!Contents(c)' = Held(Stored(b, Wrapped(g + z, C), m), g, z + 1, C)
    BY <1>2, <1>3
  <2>2. /\ InMemory!Contents(c) = Held(b, g, z, C) /\ Held(b, g, z, C) \in Seq(Msg)
        /\ Len(Held(b, g, z, C)) = z /\ C \in Nat \ {0} /\ z \in 0..C-1 /\ g \in 0..C-1
    BY <1>1
  <2>3. DOMAIN b = 0..C-1 /\ m \in Msg
    BY DEF Ring
  <2> HIDE DEF C, b, g, z
  <2>4. Held(Stored(b, Wrapped(g + z, C), m), g, z + 1, C) = Append(Held(b, g, z, C), m)
    BY <2>2, <2>3, HeldPut
  <2> QED BY <2>1, <2>2, <2>4
<1>5. InMemory!Contents(c)' \in Seq(Msg)
  BY <1>1, <1>4
<1>6. size'[c] \in 0..Capacity[c] /\ iput'[c] = Wrapped(iget'[c] + size'[c], Capacity[c])
  <2> DEFINE C == Capacity[c]
             g == iget[c]
             z == size[c]
  <2>1. C \in Nat \ {0} /\ z \in 0..C-1 /\ g \in 0..C-1
    BY <1>1
  <2>2. size'[c] = z + 1 /\ iget'[c] = g
        /\ iput'[c] = IF Wrapped(g + z, C) + 1 = C THEN 0 ELSE Wrapped(g + z, C) + 1
    BY DEF Ring, InMemory!After
  <2> HIDE DEF C, g, z
  <2>3. z + 1 \in 0..C
        /\ (IF Wrapped(g + z, C) + 1 = C THEN 0 ELSE Wrapped(g + z, C) + 1) = Wrapped(g + (z + 1), C)
    BY <2>1 DEF Wrapped
  <2> QED BY <2>2, <2>3 DEF C
<1>7. buf'[c] \in [0..Capacity[c]-1 -> Msg \cup {NULL}]
  BY <1>1 DEF Ring, Stored
<1> QED BY <1>1, <1>4, <1>5, <1>6, <1>7 DEF Ring

(* What mc_get does to the ring of its channel.                             *)
LEMMA GetTakes ==
    ASSUME NEW c \in Chan, Ring(c), size[c] # 0,
           iput'[c] = iput[c], size'[c] = size[c] - 1, iget'[c] = InMemory!After(c, iget[c]),
           buf'[c] = buf[c]
    PROVE  /\ Ring(c)'
           /\ InMemory!Contents(c) # <<>>
           /\ buf[c][iget[c]] = Head(InMemory!Contents(c))
           /\ InMemory!Contents(c)' = Tail(InMemory!Contents(c))
<1>1. /\ InMemory!Contents(c) = Held(buf[c], iget[c], size[c], Capacity[c])
      /\ Len(InMemory!Contents(c)) = size[c] /\ InMemory!Contents(c) \in Seq(Msg)
      /\ Capacity[c] \in Nat \ {0} /\ size[c] \in 1..Capacity[c] /\ iget[c] \in 0..Capacity[c]-1
  BY RingHolds DEF Ring
<1>2. InMemory!Contents(c)' = Held(buf'[c], iget'[c], size'[c], Capacity[c])
  BY DEF Held, InMemory!Contents
<1>3. iget'[c] = Wrapped(iget[c] + 1, Capacity[c])
  BY <1>1 DEF Wrapped, InMemory!After
<1>4. /\ InMemory!Contents(c) # <<>>
      /\ buf[c][iget[c]] = Head(InMemory!Contents(c))
      /\ InMemory!Contents(c)' = Tail(InMemory!Contents(c))
  <2> DEFINE C == Capacity[c]
             b == buf[c]
             g == iget[c]
             z == size[c]
  <2>1. InMemory!Contents(c)' = Held(b, Wrapped(g + 1, C), z - 1, C)
    BY <1>2, <1>3
  <2>2. /\ InMemory!Contents(c) = Held(b, g, z, C) /\ Held(b, g, z, C) \in Seq(Msg)
        /\ Len(Held(b, g, z, C)) = z /\ C \in Nat \ {0} /\ z \in 1..C /\ g \in 0..C-1
    BY <1>1
  <2> HIDE DEF C, b, g, z
  <2>3. /\ Held(b, g, z, C) # <<>>
        /\ b[g] = Head(Held(b, g, z, C))
        /\ Held(b, Wrapped(g + 1, C), z - 1, C) = Tail(Held(b, g, z, C))
    BY <2>2, HeldGet
  <2>4. buf[c][iget[c]] = b[g]
    BY DEF b, g
  <2> QED BY <2>1, <2>2, <2>3, <2>4
<1>5. InMemory!Contents(c)' \in Seq(Msg)
  BY <1>1, <1>4
<1>6. /\ size'[c] \in 0..Capacity[c] /\ iget'[c] \in 0..Capacity[c]-1
      /\ iput'[c] = Wrapped(iget'[c] + size'[c], Capacity[c])
  <2> DEFINE C == Capacity[c]
             g == iget[c]
             z == size[c]
  <2>1. C \in Nat \ {0} /\ z \in 1..C /\ g \in 0..C-1
    BY <1>1
  <2>2. size'[c] = z - 1 /\ iget'[c] = Wrapped(g + 1, C) /\ iput'[c] = Wrapped(g + z, C)
    BY <1>3 DEF Ring
  <2> HIDE DEF C, g, z
  <2>3. z - 1 \in 0..C /\ Wrapped(g + 1, C) \in 0..C-1
        /\ Wrapped(g + z, C) = Wrapped(Wrapped(g + 1, C) + (z - 1), C)
    BY <2>1 DEF Wrapped
  <2> QED BY <2>2, <2>3 DEF C
<1> QED BY <1>4, <1>5, <1>6 DEF Ring

(* Nothing happens to the other channels.                                   *)
LEMMA RingStays ==
    ASSUME NEW c \in Chan, Ring(c),
           iput'[c] = iput[c], size'[c] = size[c], iget'[c] = iget[c], buf'[c] = buf[c]
    PROVE  Ring(c)' /\ InMemory!Contents(c)' = InMemory!Contents(c)
<1>1. InMemory!Contents(c)' = InMemory!Contents(c)
  BY DEF InMemory!Contents
<1> QED BY <1>1 DEF Ring

-----------------------------------------------------------------------------
(* Both echo services keep the same promise between a request and its       *)
(* reply.  in[f] is what is in channel f, busy the message the server is    *)
(* at, if any, waiting the clients that have sent a request and not read    *)
(* its reply; a client that was killed may count as one of them for ever.   *)
(* The request of a client is in one place at most: in the channel of       *)
(* requests, with the server, or in the channel of the client.              *)
Last(c, tries) == [sender |-> c, try |-> tries[c]]

Pending(m, waiting, tries) ==
    m.sender \in waiting /\ m = Last(m.sender, tries)

Outstanding(in, busy, waiting, tries) ==
    /\ waiting \subseteq Client
    /\ in \in [Chan -> Seq(Msg)]
    /\ \A i \in 1..Len(in[requests]) :
          /\ Pending(in[requests][i], waiting, tries)
          /\ in[in[requests][i].sender] = <<>>
          /\ \A m \in busy : m.sender # in[requests][i].sender
          /\ \A j \in 1..Len(in[requests]) : in[requests][i].sender = in[requests][j].sender => i = j
    /\ \A m \in busy : Pending(m, waiting, tries) /\ in[m.sender] = <<>>
    /\ \A c \in Client : in[c] # <<>> => c \in waiting /\ in[c] = <<Last(c, tries)>>

(* What happens to the channels: one gets other contents, some are emptied. *)
With(in, f, s) == [in EXCEPT ![f] = s]
Emptied(in, F) == [f \in Chan |-> IF f \in F THEN <<>> ELSE in[f]]

(* The channels, the processes and the messages are told apart.             *)
LEMMA Channels ==
    /\ requests \in Chan /\ requests \notin Client
    /\ Client \subseteq Chan /\ Client \subseteq Proc
    /\ Server \in Proc /\ Server \notin Client
    /\ Chan = Client \cup {requests} /\ Proc = Client \cup {Server}
    /\ NULL \notin Msg /\ NULL \notin Chan
BY EchoAssumption

(* A message says who sent it.                                              *)
LEMMA Senders ==
    /\ \A m \in Msg : m.sender \in Client /\ m.try \in 1..NITERS /\ m # NULL
    /\ \A c \in Client, i \in 1..NITERS : InMemory!Request(c, i) \in Msg
    /\ \A c, i : InMemory!Request(c, i) = OverPipes!Request(c, i)
    /\ \A c, i : InMemory!Request(c, i).sender = c /\ InMemory!Request(c, i).try = i
BY MessageAssumption, EchoAssumption DEF InMemory!Request, OverPipes!Request

(* Last is the request of the current try, in both services.                *)
LEMMA LastIsARequest ==
    ASSUME NEW c, NEW tries
    PROVE  /\ Last(c, tries) = InMemory!Request(c, tries[c])
           /\ Last(c, tries) = OverPipes!Request(c, tries[c])
           /\ Last(c, tries).sender = c
BY DEF Last, InMemory!Request, OverPipes!Request

(* A client that waits for nothing sends its next request.                  *)
LEMMA Sends ==
    ASSUME NEW in, NEW busy, NEW waiting, NEW tries, NEW c \in Client,
           NEW in2, NEW waiting2, NEW tries2, NEW m \in Msg,
           Outstanding(in, busy, waiting, tries), busy \subseteq Msg,
           c \notin waiting, waiting2 = waiting \cup {c},
           \A d \in Client : d # c => tries2[d] = tries[d],
           m = Last(c, tries2),
           in2 = With(in, requests, Append(in[requests], m))
    PROVE  Outstanding(in2, busy, waiting2, tries2)
<1> USE Channels
<1>1. in[requests] \in Seq(Msg) /\ in2[requests] = Append(in[requests], m)
      /\ in2 \in [Chan -> Seq(Msg)] /\ \A d \in Client : in2[d] = in[d]
  BY DEF Outstanding, With
<1>2. m.sender = c /\ m = Last(c, tries2)
  BY DEF Last
<1>3. in[c] = <<>> /\ \A b \in busy : b.sender # c
  BY DEF Outstanding, Pending
<1>4. \A i \in 1..Len(in[requests]) : in[requests][i].sender \in waiting
  BY DEF Outstanding, Pending
<1>5. ASSUME NEW b, Pending(b, waiting, tries) PROVE Pending(b, waiting2, tries2)
  <2>1. b.sender \in waiting /\ waiting \subseteq Client /\ b.sender # c
    BY <1>5 DEF Pending, Outstanding
  <2> QED BY <1>5, <2>1 DEF Pending, Last
<1>6. ASSUME NEW i \in 1..Len(in2[requests])
      PROVE  \/ i \in 1..Len(in[requests]) /\ in2[requests][i] = in[requests][i]
             \/ i = Len(in[requests]) + 1 /\ in2[requests][i] = m
  BY <1>1
<1>7. waiting2 \subseteq Client
  BY DEF Outstanding
<1>8. ASSUME NEW i \in 1..Len(in2[requests])
      PROVE  /\ Pending(in2[requests][i], waiting2, tries2)
             /\ in2[in2[requests][i].sender] = <<>>
             /\ \A b \in busy : b.sender # in2[requests][i].sender
  <2>1. CASE i \in 1..Len(in[requests]) /\ in2[requests][i] = in[requests][i]
    <3>1. /\ Pending(in[requests][i], waiting, tries) /\ in[in[requests][i].sender] = <<>>
          /\ \A b \in busy : b.sender # in[requests][i].sender
      BY <2>1 DEF Outstanding
    <3>2. in[requests][i].sender \in Client
      BY <1>4, <2>1 DEF Outstanding
    <3> QED BY <2>1, <3>1, <3>2, <1>1, <1>5
  <2>2. CASE in2[requests][i] = m
    BY <2>2, <1>1, <1>2, <1>3 DEF Pending
  <2> QED BY <2>1, <2>2, <1>6
<1>9. ASSUME NEW i \in 1..Len(in2[requests]), NEW j \in 1..Len(in2[requests]),
             in2[requests][i].sender = in2[requests][j].sender
      PROVE  i = j
  <2>1. CASE i \in 1..Len(in[requests]) /\ j \in 1..Len(in[requests])
    <3>1. in2[requests][i] = in[requests][i] /\ in2[requests][j] = in[requests][j]
      BY <1>1, <2>1
    <3> QED BY <1>9, <2>1, <3>1 DEF Outstanding
  <2>2. CASE i = Len(in[requests]) + 1 /\ j = Len(in[requests]) + 1
    BY <2>2
  <2>3. CASE i \in 1..Len(in[requests]) /\ j = Len(in[requests]) + 1
    <3>1. in2[requests][i] = in[requests][i] /\ in2[requests][j] = m
      BY <1>1, <2>3
    <3> QED BY <1>2, <1>4, <1>9, <2>3, <3>1
  <2>4. CASE i = Len(in[requests]) + 1 /\ j \in 1..Len(in[requests])
    <3>1. in2[requests][j] = in[requests][j] /\ in2[requests][i] = m
      BY <1>1, <2>4
    <3> QED BY <1>2, <1>4, <1>9, <2>4, <3>1
  <2> QED BY <2>1, <2>2, <2>3, <2>4, <1>6
<1>10. ASSUME NEW b \in busy PROVE Pending(b, waiting2, tries2) /\ in2[b.sender] = <<>>
  <2>1. Pending(b, waiting, tries) /\ in[b.sender] = <<>> /\ b.sender \in Client
    BY Senders DEF Outstanding
  <2> QED BY <2>1, <1>1, <1>5
<1>11. ASSUME NEW d \in Client, in2[d] # <<>>
       PROVE  d \in waiting2 /\ in2[d] = <<Last(d, tries2)>>
  <2>1. in[d] # <<>> /\ d # c /\ in2[d] = in[d]
    BY <1>1, <1>3, <1>11
  <2>2. d \in waiting /\ in[d] = <<Last(d, tries)>> /\ tries2[d] = tries[d]
    BY <2>1 DEF Outstanding
  <2> QED BY <2>1, <2>2 DEF Last
<1>12. \A i \in 1..Len(in2[requests]) : \A j \in 1..Len(in2[requests]) :
          in2[requests][i].sender = in2[requests][j].sender => i = j
  BY <1>9
<1>13. in2 \in [Chan -> Seq(Msg)]
  BY <1>1
<1> HIDE Channels
<1> QED BY ONLY <1>7, <1>8, <1>10, <1>11, <1>12, <1>13 DEF Outstanding

(* The server takes the oldest request.                                     *)
LEMMA Takes ==
    ASSUME NEW in, NEW waiting, NEW tries, NEW in2,
           Outstanding(in, {}, waiting, tries), in[requests] # <<>>,
           in2 = With(in, requests, Tail(in[requests]))
    PROVE  Outstanding(in2, {Head(in[requests])}, waiting, tries)
<1> USE Channels
<1> DEFINE q == in[requests]
           q2 == in2[requests]
           h == Head(in[requests])
<1>1. q \in Seq(Msg) /\ q # <<>> /\ q2 = Tail(q)
      /\ in2 \in [Chan -> Seq(Msg)] /\ \A d \in Client : in2[d] = in[d]
  BY DEF Outstanding, With
<1>2. /\ Len(q) \in Nat \ {0} /\ h = q[1] /\ Len(q2) = Len(q) - 1
      /\ \A i \in 1..Len(q2) : i + 1 \in 1..Len(q) /\ q2[i] = q[i + 1]
  <2> HIDE DEF q, q2
  <2>1. Len(q) \in Nat \ {0} /\ Head(q) = q[1] /\ Len(q2) = Len(q) - 1
    BY <1>1
  <2>2. \A i \in 1..Len(q) - 1 : q2[i] = q[i + 1]
    BY <1>1
  <2>3. h = Head(q)
    BY DEF q
  <2> QED BY <2>1, <2>2, <2>3
<1> HIDE DEF h
<1>3. \A i \in 1..Len(q) : /\ Pending(q[i], waiting, tries)
                           /\ in[q[i].sender] = <<>>
                           /\ q[i].sender \in Client
                           /\ \A j \in 1..Len(q) : q[i].sender = q[j].sender => i = j
  BY DEF Outstanding, Pending
<1> HIDE DEF q, q2
<1>4. Pending(h, waiting, tries) /\ in2[h.sender] = <<>>
  BY <1>1, <1>2, <1>3
<1>5. ASSUME NEW i \in 1..Len(q2)
      PROVE  /\ Pending(q2[i], waiting, tries) /\ in2[q2[i].sender] = <<>>
             /\ h.sender # q2[i].sender
             /\ \A j \in 1..Len(q2) : q2[i].sender = q2[j].sender => i = j
  <2>1. i + 1 \in 1..Len(q) /\ q2[i] = q[i + 1] /\ 1 \in 1..Len(q) /\ 1 # i + 1
    BY <1>2
  <2>2. Pending(q2[i], waiting, tries) /\ in2[q2[i].sender] = <<>>
    BY <1>1, <1>3, <2>1
  <2>3. h.sender # q2[i].sender
    BY <1>2, <1>3, <2>1
  <2>4. ASSUME NEW j \in 1..Len(q2), q2[i].sender = q2[j].sender PROVE i = j
    <3>1. j + 1 \in 1..Len(q) /\ q2[j] = q[j + 1]
      BY <1>2
    <3>2. i + 1 = j + 1
      BY <1>3, <2>1, <2>4, <3>1
    <3> QED BY <3>2
  <2> QED BY <2>2, <2>3, <2>4
<1>6. \A d \in Client : in2[d] # <<>> => d \in waiting /\ in2[d] = <<Last(d, tries)>>
  BY <1>1 DEF Outstanding
<1>7. waiting \subseteq Client
  BY DEF Outstanding
<1> QED BY <1>1, <1>4, <1>5, <1>6, <1>7 DEF Outstanding, q2, h

(* The server puts the message in the channel of its sender.                *)
LEMMA Answers ==
    ASSUME NEW in, NEW waiting, NEW tries, NEW in2, NEW m \in Msg,
           Outstanding(in, {m}, waiting, tries),
           in2 = With(in, m.sender, Append(in[m.sender], m))
    PROVE  Outstanding(in2, {}, waiting, tries)
<1> USE Channels
<1>1. m.sender \in Client /\ m.sender \in waiting /\ in[m.sender] = <<>>
      /\ m = Last(m.sender, tries)
  BY Senders DEF Outstanding, Pending
<1>2. in2[m.sender] = <<m>> /\ \A f \in Chan : f # m.sender => in2[f] = in[f]
  BY <1>1 DEF Outstanding, With
<1>3. in2 \in [Chan -> Seq(Msg)]
  BY <1>1, <1>2 DEF Outstanding, With
<1>4. in2[requests] = in[requests]
  BY <1>1, <1>2
<1>5. ASSUME NEW i \in 1..Len(in2[requests])
      PROVE  /\ Pending(in2[requests][i], waiting, tries)
             /\ in2[in2[requests][i].sender] = <<>>
             /\ \A j \in 1..Len(in2[requests]) :
                   in2[requests][i].sender = in2[requests][j].sender => i = j
  <2>1. /\ Pending(in[requests][i], waiting, tries) /\ in[in[requests][i].sender] = <<>>
        /\ m.sender # in[requests][i].sender /\ in[requests][i].sender \in Client
        /\ \A j \in 1..Len(in[requests]) :
                   in[requests][i].sender = in[requests][j].sender => i = j
    BY <1>4 DEF Outstanding, Pending
  <2> QED BY <2>1, <1>2, <1>4
<1>6. ASSUME NEW d \in Client, in2[d] # <<>>
      PROVE  d \in waiting /\ in2[d] = <<Last(d, tries)>>
  <2>1. CASE d = m.sender
    BY <1>1, <1>2, <2>1
  <2>2. CASE d # m.sender
    BY <1>2, <1>6, <2>2 DEF Outstanding
  <2> QED BY <2>1, <2>2
<1>7. waiting \subseteq Client
  BY DEF Outstanding
<1> QED BY <1>3, <1>5, <1>6, <1>7 DEF Outstanding

(* A client reads its reply.                                                *)
HasRead(in, busy, waiting, tries, in2, c) ==
    /\ Head(in[c]) = Last(c, tries) /\ c \in waiting /\ Last(c, tries) \in Msg
    /\ Outstanding(in2, busy, waiting \ {c}, tries)

LEMMA ReadsReply ==
    ASSUME NEW in, NEW busy, NEW waiting, NEW tries, NEW in2, NEW c \in Client,
           Outstanding(in, busy, waiting, tries), in[c] # <<>>, busy \subseteq Msg,
           in2 = With(in, c, Tail(in[c]))
    PROVE  HasRead(in, busy, waiting, tries, in2, c)
<1> USE Channels
<1>1. in[c] = <<Last(c, tries)>> /\ c \in waiting /\ in[c] \in Seq(Msg)
  BY DEF Outstanding
<1>2. Head(in[c]) = Last(c, tries) /\ Last(c, tries) \in Msg /\ Tail(in[c]) = <<>>
  BY <1>1
<1>3. in2[c] = <<>> /\ in2 \in [Chan -> Seq(Msg)] /\ \A f \in Chan : f # c => in2[f] = in[f]
  BY <1>2 DEF Outstanding, With
<1>4. in2[requests] = in[requests]
  BY <1>3
<1>5. ASSUME NEW i \in 1..Len(in[requests])
      PROVE  /\ Pending(in[requests][i], waiting \ {c}, tries)
             /\ in2[in[requests][i].sender] = <<>>
             /\ \A m \in busy : m.sender # in[requests][i].sender
             /\ \A j \in 1..Len(in[requests]) :
                   in[requests][i].sender = in[requests][j].sender => i = j
  <2>1. /\ Pending(in[requests][i], waiting, tries) /\ in[in[requests][i].sender] = <<>>
        /\ \A m \in busy : m.sender # in[requests][i].sender
        /\ \A j \in 1..Len(in[requests]) :
                   in[requests][i].sender = in[requests][j].sender => i = j
    BY DEF Outstanding
  <2>2. in[requests][i].sender # c /\ in[requests][i].sender \in Client
    BY <1>1, <2>1 DEF Pending, Outstanding
  <2> QED BY <1>3, <2>1, <2>2 DEF Pending
<1>6. ASSUME NEW m \in busy PROVE Pending(m, waiting \ {c}, tries) /\ in2[m.sender] = <<>>
  <2>1. Pending(m, waiting, tries) /\ in[m.sender] = <<>> /\ m.sender \in Client
    BY Senders DEF Outstanding
  <2>2. m.sender # c
    BY <1>1, <2>1
  <2> QED BY <1>3, <2>1, <2>2 DEF Pending
<1>7. ASSUME NEW d \in Client, in2[d] # <<>>
      PROVE  d \in waiting \ {c} /\ in2[d] = <<Last(d, tries)>>
  <2>1. d # c
    BY <1>3, <1>7
  <2> QED BY <1>3, <1>7, <2>1 DEF Outstanding
<1>8. waiting \ {c} \subseteq Client
  BY DEF Outstanding
<1>9. \A i \in 1..Len(in2[requests]) :
          /\ Pending(in2[requests][i], waiting \ {c}, tries)
          /\ in2[in2[requests][i].sender] = <<>>
          /\ \A m \in busy : m.sender # in2[requests][i].sender
          /\ \A j \in 1..Len(in2[requests]) :
                   in2[requests][i].sender = in2[requests][j].sender => i = j
  BY <1>4, <1>5, ZenonT(60)
<1>10. in2 \in [Chan -> Seq(Msg)]
  BY <1>3
<1>11. Outstanding(in2, busy, waiting \ {c}, tries)
  BY ONLY <1>6, <1>7, <1>8, <1>9, <1>10 DEF Outstanding
<1> QED BY <1>1, <1>2, <1>11 DEF HasRead

(* A channel is emptied; the server gives up its message; more clients are  *)
(* counted as waiting.                                                      *)
LEMMA Loses ==
    ASSUME NEW in, NEW busy, NEW waiting, NEW tries, NEW in2, NEW busy2, NEW waiting2,
           NEW F, Outstanding(in, busy, waiting, tries),
           busy2 \subseteq busy, waiting \subseteq waiting2, waiting2 \subseteq Client,
           in2 = Emptied(in, F)
    PROVE  Outstanding(in2, busy2, waiting2, tries)
<1> USE Channels
<1>1. in2 \in [Chan -> Seq(Msg)] /\ \A f \in Chan : in2[f] = <<>> \/ in2[f] = in[f]
  <2>1. <<>> \in Seq(Msg) /\ in \in [Chan -> Seq(Msg)]
    BY DEF Outstanding
  <2> QED BY <2>1 DEF Emptied
<1>2. \A b : Pending(b, waiting, tries) => Pending(b, waiting2, tries)
  BY DEF Pending
<1>3. ASSUME NEW i \in 1..Len(in2[requests])
      PROVE  /\ Pending(in2[requests][i], waiting2, tries)
             /\ in2[in2[requests][i].sender] = <<>>
             /\ \A m \in busy2 : m.sender # in2[requests][i].sender
             /\ \A j \in 1..Len(in2[requests]) :
                   in2[requests][i].sender = in2[requests][j].sender => i = j
  <2>1. in2[requests] = in[requests]
    <3>1. Len(<<>>) = 0 /\ 1..0 = {}
      OBVIOUS
    <3> QED BY <1>1, <3>1
  <2>2. /\ Pending(in[requests][i], waiting, tries) /\ in[in[requests][i].sender] = <<>>
        /\ \A m \in busy : m.sender # in[requests][i].sender
        /\ \A j \in 1..Len(in[requests]) :
                   in[requests][i].sender = in[requests][j].sender => i = j
    BY <2>1 DEF Outstanding
  <2>3. in[requests][i].sender \in Client
    BY <2>2 DEF Pending, Outstanding
  <2> QED BY <1>1, <1>2, <2>1, <2>2, <2>3
<1>4. ASSUME NEW m \in busy2 PROVE Pending(m, waiting2, tries) /\ in2[m.sender] = <<>>
  <2>1. Pending(m, waiting, tries) /\ in[m.sender] = <<>>
    BY DEF Outstanding
  <2>2. m.sender \in Client
    BY <2>1 DEF Pending, Outstanding
  <2> QED BY <1>1, <1>2, <2>1, <2>2
<1>5. \A d \in Client : in2[d] # <<>> => d \in waiting2 /\ in2[d] = <<Last(d, tries)>>
  BY <1>1 DEF Outstanding
<1> QED BY <1>1, <1>3, <1>4, <1>5 DEF Outstanding

(* Only the tries of clients that wait count.                               *)
LEMMA Counts ==
    ASSUME NEW in, NEW busy, NEW waiting, NEW tries, NEW tries2,
           Outstanding(in, busy, waiting, tries), \A c \in waiting : tries2[c] = tries[c]
    PROVE  Outstanding(in, busy, waiting, tries2)
<1>1. \A b : Pending(b, waiting, tries) => Pending(b, waiting, tries2)
  BY DEF Pending, Last
<1>2. \A c \in Client : in[c] # <<>> => c \in waiting /\ in[c] = <<Last(c, tries2)>>
  BY DEF Outstanding, Last
<1> QED BY <1>1, <1>2 DEF Outstanding

(* Whose turn it is shows in who waits.                                     *)
LEMMA NobodyWaits ==
    ASSUME NEW in, NEW busy, NEW tries, Outstanding(in, busy, {}, tries)
    PROVE  in[requests] = <<>>
<1>1. in[requests] \in Seq(Msg)
  BY Channels DEF Outstanding
<1>2. 1 \notin 1..Len(in[requests])
  BY DEF Outstanding, Pending
<1> QED BY <1>1, <1>2

-----------------------------------------------------------------------------
(* The echo service in shared memory.                                       *)
Doing == {"none", "put", "putwait", "putsignal", "get", "getwait", "getsignal", "got"}
Call == [do : Doing, ch : Chan \cup {NULL}, msg : Msg \cup {NULL}]

MemTypes ==
    /\ linked \subseteq Chan
    /\ iput \in [Chan -> Nat] /\ iget \in [Chan -> Nat] /\ size \in [Chan -> Nat]
    /\ DOMAIN buf = Chan
    /\ \A f \in Chan : Ring(f)
    /\ op \in [Proc -> Call]
    /\ pc \in [Proc -> {"start", "loop", "reply", "done", "killed", "cut"}]
    /\ try \in [Client -> 0..NITERS]
    /\ replies \in [Client -> Seq(Msg)]
    /\ received \in Seq(Msg)

(* What the call of the server is about, and that it never waits for space. *)
ServerCall(o) ==
    /\ o.do = "none" => o = InMemory!Idle
    /\ o.do \in {"get", "getwait", "getsignal", "got"} => o.ch = requests
    /\ o.do \in {"getsignal", "got", "put", "putsignal"} => o.msg \in Msg
    /\ o.do \in {"put", "putsignal"} => o.ch = o.msg.sender
    /\ o.do # "putwait"

ServerCalls ==
    /\ pc[Server] \in {"start", "loop"}
    /\ pc[Server] = "start" => op[Server] = InMemory!Idle
    /\ ServerCall(op[Server])

(* A client puts its request into the channel of the server, and gets the   *)
(* reply from its own.                                                      *)
ClientCall(c, o, l, tries) ==
    /\ l # "reply" => o = InMemory!Idle
    /\ l = "reply" => tries[c] \in 1..NITERS
    /\ o.do = "none" => o = InMemory!Idle
    /\ o.do \in {"put", "putwait", "putsignal"} => o.ch = requests /\ o.msg = Last(c, tries)
    /\ o.do \in {"get", "getwait", "getsignal", "got"} => o.ch = c
    /\ o.do \in {"getsignal", "got"} => o.msg = Last(c, tries)

ClientCalls == \A c \in Client : ClientCall(c, op[c], pc[c], try)

InMem == [f \in Chan |-> InMemory!Contents(f)]

Busy == IF op[Server].do \in {"getsignal", "got", "put"} THEN {op[Server].msg} ELSE {}

AwaitsReply(c) ==
    \/ pc[c] \in {"killed", "cut"}
    \/ pc[c] = "reply" /\ op[c].do \in {"none", "putsignal", "get", "getwait"}

Awaiting == {c \in Client : AwaitsReply(c)}

RepliesSoFar == \A c \in Client :
    /\ \A i \in 1..Len(replies[c]) : replies[c][i] = InMemory!Request(c, i)
    /\ Len(replies[c]) <= try[c]
    /\ pc[c] \notin {"reply", "killed", "cut"} => Len(replies[c]) = try[c]
    /\ pc[c] = "reply" => Len(replies[c]) + 1 = try[c]

(* A channel is there until its owner has ended.                            *)
NamesKept ==
    /\ \A c \in Client : pc[c] \in {"loop", "reply", "killed", "cut"} => c \in linked
    /\ pc[Server] = "start" => /\ requests \notin linked
                               /\ \A c \in Client : pc[c] \in {"start", "done"}
    /\ pc[Server] = "loop" => requests \in linked

MemInv ==
    /\ MemTypes /\ ServerCalls /\ ClientCalls
    /\ Outstanding(InMem, Busy, Awaiting, try)
    /\ RepliesSoFar /\ NamesKept

(* Nobody uses a channel without its owner: the server is at the channel of *)
(* a client that awaits its reply.                                          *)
LEMMA ChannelsThere ==
    ASSUME MemInv
    PROVE  InMemory!NobodyUsesADestroyedChannel
<1> USE Channels
<1> SUFFICES ASSUME NEW p \in Proc, op[p].do \in {"put", "get", "putwait", "getwait"}
             PROVE  op[p].ch \in linked
  BY DEF InMemory!NobodyUsesADestroyedChannel
<1>1. op[p].do # "none" /\ op[p] # InMemory!Idle
  BY DEF InMemory!Idle
<1>2. CASE p = Server
  <2>1. pc[Server] = "loop" /\ requests \in linked
    BY <1>1, <1>2 DEF MemInv, ServerCalls, NamesKept
  <2>2. CASE op[p].do = "put"
    <3>1. op[p].msg \in Msg /\ op[p].ch = op[p].msg.sender /\ op[p].msg \in Busy
      BY <1>2, <2>2 DEF MemInv, ServerCalls, ServerCall, Busy
    <3>2. op[p].msg.sender \in Awaiting
      BY <3>1 DEF MemInv, Outstanding, Pending
    <3> QED BY <3>1, <3>2 DEF MemInv, NamesKept, Awaiting, AwaitsReply
  <2>3. CASE op[p].do # "put"
    BY <1>2, <2>1, <2>3 DEF MemInv, ServerCalls, ServerCall
  <2> QED BY <2>2, <2>3
<1>3. CASE p \in Client
  <2>1. pc[p] = "reply" /\ ClientCall(p, op[p], pc[p], try)
    BY <1>1, <1>3 DEF MemInv, ClientCalls, ClientCall
  <2>2. p \in linked /\ requests \in linked
    BY <1>3, <2>1 DEF MemInv, NamesKept, ServerCalls
  <2> QED BY <2>1, <2>2 DEF ClientCall
<1> QED BY <1>2, <1>3

(* What the invariant is for.                                               *)
LEMMA MemInvImplies ==
    ASSUME MemInv
    PROVE  InMemory!RepliesMatch /\ InMemory!ServerSurvives
<1>1. InMemory!RepliesMatch
  BY DEF MemInv, RepliesSoFar, InMemory!RepliesMatch
<1>2. InMemory!ServerSurvives
  BY ChannelsThere DEF MemInv, ServerCalls, ServerCall, InMemory!ServerSurvives, InMemory!Waiting
<1> QED BY <1>1, <1>2

(* A ring of size 0 has no message.                                         *)
LEMMA EmptyRing ==
    ASSUME NEW c \in Chan, size[c] = 0, iget[c] = 0, iput[c] = 0,
           buf[c] \in [0..Capacity[c]-1 -> Msg \cup {NULL}]
    PROVE  Ring(c) /\ InMemory!Contents(c) = <<>>
<1>1. InMemory!Contents(c) = <<>>
  BY DEF InMemory!Contents
<1>2. Capacity[c] \in Nat \ {0}
  BY EchoAssumption
<1>3. <<>> \in Seq(Msg)
  OBVIOUS
<1> QED BY <1>1, <1>2, <1>3 DEF Ring, Wrapped

(* The invariant holds at the start.                                        *)
LEMMA MemInit ==
    ASSUME InMemory!Init
    PROVE  MemInv
<1> USE Channels
<1>1. /\ linked = {} /\ received = <<>>
      /\ \A c \in Chan : /\ size[c] = 0 /\ iget[c] = 0 /\ iput[c] = 0
      /\ \A p \in Proc : op[p] = InMemory!Idle /\ pc[p] = "start"
      /\ \A c \in Client : try[c] = 0 /\ replies[c] = <<>>
  BY DEF InMemory!Init, InMemory!ChanInit
<1>2. InMemory!Idle = [do |-> "none", ch |-> NULL, msg |-> NULL]
  BY DEF InMemory!Idle
<1>3. ASSUME NEW c \in Chan PROVE Ring(c) /\ InMemory!Contents(c) = <<>>
  <2>1. buf[c] \in [0..Capacity[c]-1 -> Msg \cup {NULL}]
    BY DEF InMemory!Init, InMemory!ChanInit
  <2> QED BY <1>1, <2>1, EmptyRing
<1>4. MemTypes
  <2>1. NITERS \in Nat /\ <<>> \in Seq(Msg)
    BY EchoAssumption
  <2>2. InMemory!Idle \in Call
    BY <1>2 DEF Call, Doing
  <2>3. /\ iput \in [Chan -> Nat] /\ iget \in [Chan -> Nat] /\ size \in [Chan -> Nat]
        /\ DOMAIN buf = Chan /\ op \in [Proc -> Call]
    BY <2>2 DEF InMemory!Init, InMemory!ChanInit
  <2>4. /\ pc \in [Proc -> {"start", "loop", "reply", "done", "killed", "cut"}]
        /\ try \in [Client -> 0..NITERS] /\ replies \in [Client -> Seq(Msg)]
    BY <2>1 DEF InMemory!Init
  <2> QED BY <1>1, <1>3, <2>1, <2>3, <2>4 DEF MemTypes
<1>5. ServerCalls /\ ClientCalls
  BY <1>1, <1>2 DEF ServerCalls, ServerCall, ClientCalls, ClientCall
<1>6. Outstanding(InMem, Busy, Awaiting, try)
  <2>1. Busy = {} /\ Awaiting = {}
    BY <1>1, <1>2 DEF Busy, Awaiting, AwaitsReply
  <2>2. InMem \in [Chan -> Seq(Msg)] /\ \A f \in Chan : InMem[f] = <<>>
    <3>1. \A f \in Chan : InMem[f] = <<>>
      BY <1>3 DEF InMem
    <3>2. <<>> \in Seq(Msg) /\ InMem = [f \in Chan |-> InMem[f]]
      BY DEF InMem
    <3> QED BY <3>1, <3>2
  <2>3. Len(<<>>) = 0 /\ 1..0 = {}
    OBVIOUS
  <2> QED BY <2>1, <2>2, <2>3 DEF Outstanding
<1>7. RepliesSoFar
  <2>1. Len(<<>>) = 0 /\ 1..0 = {}
    OBVIOUS
  <2> QED BY <1>1, <2>1 DEF RepliesSoFar
<1>8. NamesKept
  BY <1>1 DEF NamesKept
<1> QED BY <1>4, <1>5, <1>6, <1>7, <1>8 DEF MemInv

-----------------------------------------------------------------------------
(* The steps.  A ring that nobody touches stays as it is.                   *)
LEMMA StillRings ==
    ASSUME MemTypes, UNCHANGED <<iput, iget, size, buf>>
    PROVE  /\ InMem' = InMem
           /\ \A f \in Chan : Ring(f)' /\ InMemory!Contents(f)' = InMemory!Contents(f)
           /\ iput' \in [Chan -> Nat] /\ iget' \in [Chan -> Nat] /\ size' \in [Chan -> Nat]
           /\ DOMAIN buf' = Chan
<1>1. \A f \in Chan : Ring(f)' /\ InMemory!Contents(f)' = InMemory!Contents(f)
  BY RingStays DEF MemTypes
<1>2. InMem' = [f \in Chan |-> InMemory!Contents(f)']
  BY DEF InMem
<1>3. InMem' = InMem
  BY <1>1, <1>2 DEF InMem
<1> QED BY <1>1, <1>3 DEF MemTypes

(* What happens to one ring is all that happens to the channels.            *)
LEMMA OneRing ==
    ASSUME MemTypes, NEW c \in Chan, Ring(c)',
           \A f \in Chan \ {c} : /\ iput'[f] = iput[f] /\ iget'[f] = iget[f]
                                 /\ size'[f] = size[f] /\ buf'[f] = buf[f]
    PROVE  /\ InMem' = [InMem EXCEPT ![c] = InMemory!Contents(c)']
           /\ \A f \in Chan : Ring(f)'
<1>1. ASSUME NEW f \in Chan \ {c} PROVE Ring(f)' /\ InMemory!Contents(f)' = InMemory!Contents(f)
  BY RingStays DEF MemTypes
<1>2. InMem' = [f \in Chan |-> InMemory!Contents(f)'] /\ InMem = [f \in Chan |-> InMemory!Contents(f)]
  BY DEF InMem
<1>3. InMem' = [InMem EXCEPT ![c] = InMemory!Contents(c)']
  BY <1>1, <1>2
<1> QED BY <1>1, <1>3

(* A step that only takes calls further.                                    *)
LEMMA CallsGoOn ==
    ASSUME MemInv, UNCHANGED <<linked, iput, iget, size, buf, pc, try, replies, received>>,
           op' \in [Proc -> Call],
           pc[Server] = "start" => op'[Server] = op[Server],
           ServerCall(op'[Server]),
           \A c \in Client : ClientCall(c, op'[c], pc[c], try),
           Busy' \subseteq Busy,
           \A c \in Client : AwaitsReply(c) => AwaitsReply(c)'
    PROVE  MemInv'
<1>1. MemTypes'
  BY StillRings DEF MemInv, MemTypes
<1>2. ServerCalls' /\ ClientCalls'
  BY DEF MemInv, ServerCalls, ClientCalls
<1>3. Outstanding(InMem', Busy', Awaiting', try')
  <2>1. Outstanding(InMem, Busy, Awaiting, try)
    BY DEF MemInv
  <2>2. InMem' = InMem /\ try' = try
    BY StillRings DEF MemInv
  <2>3. Awaiting \subseteq Awaiting' /\ Awaiting' \subseteq Client
    BY DEF Awaiting
  <2>4. InMem = Emptied(InMem, {})
    BY DEF InMem, Emptied
  <2> QED BY <2>1, <2>2, <2>3, <2>4, Loses
<1>4. RepliesSoFar' /\ NamesKept'
  BY DEF MemInv, RepliesSoFar, NamesKept
<1> QED BY <1>1, <1>2, <1>3, <1>4 DEF MemInv

(* Somebody who waits in a call tests its condition again.                  *)
Woken(o, o2) ==
    \/ o2 = o
    \/ o.do = "putwait" /\ o2 = [o EXCEPT !.do = "put"]
    \/ o.do = "getwait" /\ o2 = [o EXCEPT !.do = "get"]

(* A call that tests its condition again is a call as good as before.       *)
LEMMA WakingIsHarmless ==
    ASSUME NEW o \in Call, NEW o2, Woken(o, o2)
    PROVE  /\ o2 \in Call
           /\ ServerCall(o) => ServerCall(o2)
           /\ \A c, l, tries : ClientCall(c, o, l, tries) => ClientCall(c, o2, l, tries)
           /\ o.do \in {"none", "putsignal", "get", "getwait"}
                 => o2.do \in {"none", "putsignal", "get", "getwait"}
           /\ ServerCall(o) => (o2.do \in {"getsignal", "got", "put"}
                                <=> o.do \in {"getsignal", "got", "put"})
           /\ o2.msg = o.msg
<1>1. /\ o2 \in Call /\ o2.ch = o.ch /\ o2.msg = o.msg
      /\ o2 = o \/ (o.do = "putwait" /\ o2.do = "put") \/ (o.do = "getwait" /\ o2.do = "get")
  BY DEF Woken, Call, Doing
<1>2. InMemory!Idle.do = "none"
  BY DEF InMemory!Idle
<1>3. ASSUME ServerCall(o) PROVE ServerCall(o2)
  BY <1>1, <1>2, <1>3 DEF ServerCall
<1>4. ASSUME NEW c, NEW l, NEW tries, ClientCall(c, o, l, tries) PROVE ClientCall(c, o2, l, tries)
  BY <1>1, <1>2, <1>4 DEF ClientCall
<1>5. ASSUME ServerCall(o)
      PROVE  o2.do \in {"getsignal", "got", "put"} <=> o.do \in {"getsignal", "got", "put"}
  BY <1>1, <1>5 DEF ServerCall
<1> QED BY <1>1, <1>3, <1>4, <1>5

(* The calls of the server, and those of a client, move alone.              *)
LEMMA ServerMoves ==
    ASSUME MemInv, UNCHANGED <<linked, iput, iget, size, buf, pc, try, replies, received>>,
           op' \in [Proc -> Call], pc[Server] # "start",
           ServerCall(op'[Server]), Busy' \subseteq Busy,
           \A c \in Client : Woken(op[c], op'[c])
    PROVE  MemInv'
<1> USE Channels
<1>1. ASSUME NEW c \in Client
      PROVE  ClientCall(c, op'[c], pc[c], try) /\ (AwaitsReply(c) => AwaitsReply(c)')
  <2>1. op[c] \in Call /\ ClientCall(c, op[c], pc[c], try) /\ Woken(op[c], op'[c])
    BY DEF MemInv, MemTypes, ClientCalls
  <2>2. ClientCall(c, op'[c], pc[c], try)
    BY <2>1, WakingIsHarmless
  <2>3. op[c].do \in {"none", "putsignal", "get", "getwait"}
           => op'[c].do \in {"none", "putsignal", "get", "getwait"}
    BY <2>1, WakingIsHarmless
  <2> QED BY <2>2, <2>3 DEF AwaitsReply
<1> QED BY <1>1, CallsGoOn

(* The call of one client moves, and may wake others.                       *)
LEMMA ClientMoves ==
    ASSUME MemInv, UNCHANGED <<linked, iput, iget, size, buf, pc, try, replies, received>>,
           op' \in [Proc -> Call], NEW c \in Client,
           ClientCall(c, op'[c], pc[c], try),
           AwaitsReply(c) => AwaitsReply(c)',
           \A q \in Proc \ {c} : Woken(op[q], op'[q])
    PROVE  MemInv'
<1> USE Channels
<1>1. ASSUME NEW d \in Client
      PROVE  ClientCall(d, op'[d], pc[d], try) /\ (AwaitsReply(d) => AwaitsReply(d)')
  <2>0. CASE d = c
    BY <2>0
  <2>1. CASE d # c
    <3>1. op[d] \in Call /\ ClientCall(d, op[d], pc[d], try) /\ Woken(op[d], op'[d])
      BY <2>1 DEF MemInv, MemTypes, ClientCalls
    <3>2. ClientCall(d, op'[d], pc[d], try)
      BY <3>1, WakingIsHarmless
    <3>3. op[d].do \in {"none", "putsignal", "get", "getwait"}
             => op'[d].do \in {"none", "putsignal", "get", "getwait"}
      BY <3>1, WakingIsHarmless
    <3> QED BY <3>2, <3>3 DEF AwaitsReply
  <2> QED BY <2>0, <2>1
<1>2. op[Server] \in Call /\ ServerCall(op[Server]) /\ Woken(op[Server], op'[Server])
  BY DEF MemInv, MemTypes, ServerCalls
<1>3. ServerCall(op'[Server])
  BY <1>2, WakingIsHarmless
<1>4. Busy' = Busy
  <2>1. /\ op'[Server].do \in {"getsignal", "got", "put"} <=> op[Server].do \in {"getsignal", "got", "put"}
        /\ op'[Server].msg = op[Server].msg
    BY <1>2, WakingIsHarmless
  <2> QED BY <2>1 DEF Busy
<1>5. pc[Server] = "start" => op'[Server] = op[Server]
  <2>1. pc[Server] = "start" => op[Server].do = "none"
    BY DEF MemInv, ServerCalls, InMemory!Idle
  <2> QED BY <2>1, <1>2 DEF Woken
<1> QED BY <1>1, <1>3, <1>4, <1>5, CallsGoOn

(* The calls of mc_put and mc_get, and the signals after them.              *)
LEMMA CallsOfEnter ==
    /\ InMemory!Idle = [do |-> "none", ch |-> NULL, msg |-> NULL]
    /\ InMemory!Idle \in Call /\ InMemory!Idle.do = "none"
    /\ \A do \in Doing, f \in Chan \cup {NULL}, m \in Msg \cup {NULL} :
          /\ [do |-> do, ch |-> f, msg |-> m] \in Call
BY DEF InMemory!Idle, Call, Doing

(* The server calls mc_get for the next request.                            *)
LEMMA ServerGetsStep ==
    ASSUME MemInv, InMemory!ServerGets
    PROVE  MemInv'
<1> USE Channels
<1> DEFINE o == [do |-> "get", ch |-> requests, msg |-> NULL]
<1>1. /\ pc[Server] = "loop" /\ op[Server] = InMemory!Idle /\ op' = [op EXCEPT ![Server] = o]
      /\ UNCHANGED <<linked, iput, iget, size, buf, pc, try, replies, received>>
  BY DEF InMemory!ServerGets, InMemory!mc_get, InMemory!Enter
<1>2. o \in Call /\ o.do = "get" /\ o.ch = requests
  BY DEF Call, Doing
<1> HIDE DEF o
<1>3. op' \in [Proc -> Call] /\ op'[Server] = o /\ \A c \in Client : op'[c] = op[c]
  BY <1>1, <1>2 DEF MemInv, MemTypes
<1>4. ServerCall(op'[Server])
  BY <1>2, <1>3 DEF ServerCall
<1>5. Busy' \subseteq Busy
  BY <1>2, <1>3 DEF Busy
<1>6. \A c \in Client : Woken(op[c], op'[c])
  BY <1>3 DEF Woken
<1> QED BY <1>1, <1>3, <1>4, <1>5, <1>6, ServerMoves

(* The channel of the sender is there: it has not been answered yet.        *)
LEMMA ServerOpensStep ==
    ASSUME MemInv, InMemory!ServerOpens
    PROVE  MemInv'
<1> USE Channels
<1> DEFINE m == op[Server].msg
           o == [op[Server] EXCEPT !.do = "put", !.ch = m.sender]
<1>1. pc[Server] = "loop" /\ op[Server].do = "got" /\ op[Server] \in Call
  BY DEF InMemory!ServerOpens, MemInv, MemTypes
<1>2. m \in Msg /\ m.sender \in Client /\ Busy = {m}
  BY <1>1, Senders DEF MemInv, ServerCalls, ServerCall, Busy
<1>3. m.sender \in Awaiting
  BY <1>2 DEF MemInv, Outstanding, Pending
<1>4. m.sender \in linked
  BY <1>2, <1>3 DEF MemInv, NamesKept, Awaiting, AwaitsReply
<1>5. /\ op' = [op EXCEPT ![Server] = o]
      /\ UNCHANGED <<linked, iput, iget, size, buf, pc, try, replies, received>>
  BY <1>4 DEF InMemory!ServerOpens
<1>6. o \in Call /\ o.do = "put" /\ o.ch = m.sender /\ o.msg = m
  BY <1>1, <1>2 DEF Call, Doing
<1> HIDE DEF o, m
<1>7. op' \in [Proc -> Call] /\ op'[Server] = o /\ \A c \in Client : op'[c] = op[c]
  BY <1>5, <1>6 DEF MemInv, MemTypes
<1>8. ServerCall(op'[Server])
  BY <1>2, <1>6, <1>7 DEF ServerCall
<1>9. Busy' \subseteq Busy
  BY <1>2, <1>6, <1>7 DEF Busy
<1>10. \A c \in Client : Woken(op[c], op'[c])
  BY <1>7 DEF Woken
<1> QED BY <1>1, <1>5, <1>7, <1>8, <1>9, <1>10, ServerMoves

(* A client calls mc_get for its reply.                                     *)
LEMMA ClientGetsStep ==
    ASSUME MemInv, NEW c \in Client, InMemory!ClientGets(c)
    PROVE  MemInv'
<1> USE Channels
<1> DEFINE o == [do |-> "get", ch |-> c, msg |-> NULL]
<1>1. /\ pc[c] = "reply" /\ op[c] = InMemory!Idle /\ op' = [op EXCEPT ![c] = o]
      /\ UNCHANGED <<linked, iput, iget, size, buf, pc, try, replies, received>>
  BY DEF InMemory!ClientGets, InMemory!mc_get, InMemory!Enter
<1>2. o \in Call /\ o.do = "get" /\ o.ch = c
  BY DEF Call, Doing
<1> HIDE DEF o
<1>3. op' \in [Proc -> Call] /\ op'[c] = o /\ \A q \in Proc \ {c} : op'[q] = op[q]
  BY <1>1, <1>2 DEF MemInv, MemTypes
<1>4. ClientCall(c, op'[c], pc[c], try)
  BY <1>1, <1>2, <1>3 DEF ClientCall, MemInv, ClientCalls
<1>5. AwaitsReply(c)'
  BY <1>1, <1>2, <1>3 DEF AwaitsReply
<1>6. \A q \in Proc \ {c} : Woken(op[q], op'[q])
  BY <1>3 DEF Woken
<1> QED BY <1>1, <1>3, <1>4, <1>5, <1>6, ClientMoves

(* A wait in a call, whoever is in it.                                      *)
LEMMA WaitStep ==
    ASSUME MemInv, NEW p \in Proc, op[p].do \in {"put", "get"},
           op[p].do = "put" => p # Server,
           op' = [op EXCEPT ![p].do = IF op[p].do = "put" THEN "putwait" ELSE "getwait"],
           UNCHANGED <<linked, iput, iget, size, buf, pc, try, replies, received>>
    PROVE  MemInv'
<1> USE Channels
<1> DEFINE o == [op[p] EXCEPT !.do = IF op[p].do = "put" THEN "putwait" ELSE "getwait"]
<1>1. op[p] \in Call
  BY DEF MemInv, MemTypes
<1>2. /\ o \in Call /\ o.ch = op[p].ch /\ o.msg = op[p].msg
      /\ op[p].do = "put" => o.do = "putwait"
      /\ op[p].do = "get" => o.do = "getwait"
  BY <1>1 DEF Call, Doing
<1>3. op' = [op EXCEPT ![p] = o]
  OBVIOUS
<1> HIDE DEF o
<1>4. op' \in [Proc -> Call] /\ op'[p] = o /\ \A q \in Proc \ {p} : op'[q] = op[q]
  <2>1. op \in [Proc -> Call]
    BY DEF MemInv, MemTypes
  <2> QED BY ONLY <2>1, <1>2, <1>3
<1>5. CASE p = Server
  <2>1. op[p].do = "get" /\ ServerCall(op[p]) /\ pc[Server] # "start"
    BY <1>5, CallsOfEnter DEF MemInv, ServerCalls
  <2>2. ServerCall(op'[Server])
    BY <1>2, <1>4, <1>5, <2>1 DEF ServerCall
  <2>3. Busy' \subseteq Busy
    BY <1>2, <1>4, <1>5, <2>1 DEF Busy
  <2>4. \A c \in Client : Woken(op[c], op'[c])
    BY <1>4, <1>5 DEF Woken
  <2> QED BY <1>4, <2>1, <2>2, <2>3, <2>4, ServerMoves
<1>6. CASE p \in Client
  <2>1. ClientCall(p, op[p], pc[p], try) /\ op[p] # InMemory!Idle
    BY <1>6, CallsOfEnter DEF MemInv, ClientCalls
  <2>2. ClientCall(p, op'[p], pc[p], try)
    BY <1>2, <1>4, <2>1 DEF ClientCall
  <2>3. AwaitsReply(p) => AwaitsReply(p)'
    BY <1>2, <1>4, <2>1 DEF AwaitsReply, ClientCall
  <2>4. \A q \in Proc \ {p} : Woken(op[q], op'[q])
    BY <1>4 DEF Woken
  <2> QED BY <1>4, <1>6, <2>2, <2>3, <2>4, ClientMoves
<1> QED BY <1>5, <1>6

(* The signal after a call ends it, and may wake somebody.                  *)
WakesUp(p, next, q, again) == op' = [op EXCEPT ![p] = next, ![q].do = again]

(* A signal changes the call of its caller, and of one waiter at most.      *)
LEMMA SignalWakes ==
    ASSUME MemInv, NEW p \in Proc, NEW next \in Call, NEW f,
           \/ /\ op[p].do = "putsignal"
              /\ InMemory!SignalOne(p, next, InMemory!Waiting("getwait", f), "get")
           \/ /\ op[p].do = "getsignal"
              /\ InMemory!SignalOne(p, next, InMemory!Waiting("putwait", f), "put")
    PROVE  /\ op' \in [Proc -> Call] /\ op'[p] = next
           /\ \A q \in Proc \ {p} : Woken(op[q], op'[q])
<1>1. op \in [Proc -> Call]
  BY DEF MemInv, MemTypes
<1>2. CASE op' = [op EXCEPT ![p] = next]
  BY <1>1, <1>2 DEF Woken
<1>3. ASSUME NEW q \in Proc, NEW wait, NEW again, op[q].do = wait, wait # op[p].do,
             (wait = "putwait" /\ again = "put") \/ (wait = "getwait" /\ again = "get"),
             WakesUp(p, next, q, again)
      PROVE  /\ op' \in [Proc -> Call] /\ op'[p] = next
             /\ \A r \in Proc \ {p} : Woken(op[r], op'[r])
  <2>1. p # q
    BY <1>3
  <2> DEFINE o == [op[q] EXCEPT !.do = again]
  <2>2. op'[p] = next /\ op'[q] = o /\ \A r \in Proc \ {p, q} : op'[r] = op[r]
    BY <1>1, <1>3, <2>1 DEF WakesUp
  <2>3. Woken(op[q], o)
    BY <1>3 DEF Woken
  <2>4. o \in Call
    BY <1>1, <2>3, WakingIsHarmless
  <2> HIDE DEF o
  <2>5. op' \in [Proc -> Call]
    <3>1. op' = [r \in Proc |-> op'[r]]
      BY <1>1, <1>3 DEF WakesUp
    <3>2. \A r \in Proc : op'[r] \in Call
      BY <1>1, <2>2, <2>4
    <3> QED BY <3>1, <3>2
  <2>6. \A r \in Proc \ {p} : Woken(op[r], op'[r])
    BY <2>2, <2>3 DEF Woken
  <2> QED BY <2>2, <2>5, <2>6
<1>4. CASE op[p].do = "putsignal" /\ \E q \in InMemory!Waiting("getwait", f) :
              op' = [op EXCEPT ![p] = next, ![q].do = "get"]
  <2>1. PICK q \in Proc : op[q].do = "getwait" /\ WakesUp(p, next, q, "get")
    BY <1>4 DEF InMemory!Waiting, WakesUp
  <2> QED BY <1>3, <1>4, <2>1
<1>5. CASE op[p].do = "getsignal" /\ \E q \in InMemory!Waiting("putwait", f) :
              op' = [op EXCEPT ![p] = next, ![q].do = "put"]
  <2>1. PICK q \in Proc : op[q].do = "putwait" /\ WakesUp(p, next, q, "put")
    BY <1>5 DEF InMemory!Waiting, WakesUp
  <2> QED BY <1>3, <1>5, <2>1
<1> QED BY <1>2, <1>4, <1>5 DEF InMemory!SignalOne

(* The signals after the unlock, whoever sends them.                        *)
LEMMA SignalStep ==
    ASSUME MemInv, NEW p \in Proc, InMemory!PutSignals(p) \/ InMemory!GetSignals(p),
           UNCHANGED <<pc, try, replies, received>>
    PROVE  MemInv'
<1> USE Channels
<1> DEFINE next == IF op[p].do = "putsignal" THEN InMemory!Idle ELSE [op[p] EXCEPT !.do = "got"]
<1>1. /\ op[p] \in Call /\ op[p].do \in {"putsignal", "getsignal"}
      /\ UNCHANGED <<linked, iput, iget, size, buf, pc, try, replies, received>>
  BY DEF MemInv, MemTypes, InMemory!PutSignals, InMemory!GetSignals
<1>2. /\ next \in Call
      /\ op[p].do = "putsignal" => next = InMemory!Idle
      /\ op[p].do = "getsignal" => next.do = "got" /\ next.ch = op[p].ch /\ next.msg = op[p].msg
  BY <1>1, CallsOfEnter DEF Call, Doing
<1>3. /\ op' \in [Proc -> Call] /\ op'[p] = next
      /\ \A q \in Proc \ {p} : Woken(op[q], op'[q])
  <2>1. CASE InMemory!PutSignals(p)
    <3>1. /\ op[p].do = "putsignal"
          /\ InMemory!SignalOne(p, next, InMemory!Waiting("getwait", op[p].ch), "get")
      BY <2>1, <1>2 DEF InMemory!PutSignals
    <3> HIDE DEF next
    <3> QED BY <1>2, <3>1, SignalWakes
  <2>2. CASE InMemory!GetSignals(p)
    <3>1. /\ op[p].do = "getsignal"
          /\ InMemory!SignalOne(p, next, InMemory!Waiting("putwait", op[p].ch), "put")
      BY <2>2, <1>2 DEF InMemory!GetSignals
    <3> HIDE DEF next
    <3> QED BY <1>2, <3>1, SignalWakes
  <2> QED BY <2>1, <2>2
<1> HIDE DEF next
<1>4. CASE p = Server
  <2>1. ServerCall(op[p]) /\ pc[Server] # "start"
    BY <1>1, <1>4, CallsOfEnter DEF MemInv, ServerCalls
  <2>2. ServerCall(op'[Server])
    BY <1>1, <1>2, <1>3, <1>4, <2>1, CallsOfEnter DEF ServerCall
  <2>3. Busy' \subseteq Busy
    BY <1>1, <1>2, <1>3, <1>4, CallsOfEnter DEF Busy
  <2>4. \A c \in Client : Woken(op[c], op'[c])
    BY <1>3, <1>4
  <2> QED BY <1>1, <1>3, <2>1, <2>2, <2>3, <2>4, ServerMoves
<1>5. CASE p \in Client
  <2>1. ClientCall(p, op[p], pc[p], try) /\ op[p] # InMemory!Idle
    BY <1>1, <1>5, CallsOfEnter DEF MemInv, ClientCalls
  <2>2. ClientCall(p, op'[p], pc[p], try)
    BY <1>1, <1>2, <1>3, <2>1, CallsOfEnter DEF ClientCall
  <2>3. AwaitsReply(p) => AwaitsReply(p)'
    BY <1>1, <1>2, <1>3, <2>1, CallsOfEnter DEF AwaitsReply, ClientCall
  <2> QED BY <1>1, <1>3, <1>5, <2>2, <2>3, ClientMoves
<1> QED BY <1>4, <1>5

(* A spurious wake-up, whoever has it.                                      *)
LEMMA WakesStep ==
    ASSUME MemInv, NEW p \in Proc, InMemory!Wakes(p)
    PROVE  MemInv'
<1> USE Channels
<1> DEFINE o == [op[p] EXCEPT !.do = IF op[p].do = "putwait" THEN "put" ELSE "get"]
<1>1. /\ op[p] \in Call /\ op[p].do \in {"putwait", "getwait"} /\ op' = [op EXCEPT ![p] = o]
      /\ UNCHANGED <<linked, iput, iget, size, buf, pc, try, replies, received>>
  BY DEF MemInv, MemTypes, InMemory!Wakes, InMemory!SpuriousWakeup
<1>2. Woken(op[p], o)
  BY <1>1 DEF Woken
<1>3. o \in Call
  BY <1>1, <1>2, WakingIsHarmless
<1> HIDE DEF o
<1>4. op' \in [Proc -> Call] /\ op'[p] = o /\ \A q \in Proc \ {p} : op'[q] = op[q]
  BY <1>1, <1>3 DEF MemInv, MemTypes
<1>5. CASE p = Server
  <2>1. ServerCall(op[p]) /\ pc[Server] # "start"
    BY <1>1, <1>5, CallsOfEnter DEF MemInv, ServerCalls
  <2>2. ServerCall(op'[Server])
    BY <1>1, <1>2, <1>4, <1>5, <2>1, WakingIsHarmless
  <2>3. Busy' \subseteq Busy
    BY <1>1, <1>2, <1>4, <1>5, <2>1, WakingIsHarmless DEF Busy
  <2>4. \A c \in Client : Woken(op[c], op'[c])
    BY <1>4, <1>5 DEF Woken
  <2> QED BY <1>1, <1>4, <2>1, <2>2, <2>3, <2>4, ServerMoves
<1>6. CASE p \in Client
  <2>1. ClientCall(p, op[p], pc[p], try)
    BY <1>6 DEF MemInv, ClientCalls
  <2>2. ClientCall(p, op'[p], pc[p], try)
    BY <1>1, <1>2, <1>4, <2>1, WakingIsHarmless
  <2>3. op[p].do \in {"none", "putsignal", "get", "getwait"}
           => op'[p].do \in {"none", "putsignal", "get", "getwait"}
    BY <1>1, <1>2, <1>4, WakingIsHarmless
  <2>4. AwaitsReply(p) => AwaitsReply(p)'
    BY <1>1, <2>3 DEF AwaitsReply
  <2>5. \A q \in Proc \ {p} : Woken(op[q], op'[q])
    BY <1>4 DEF Woken
  <2> QED BY <1>1, <1>4, <1>6, <2>2, <2>4, <2>5, ClientMoves
<1> QED BY <1>5, <1>6

(* What may happen to the channel of requests, and to what the server has   *)
(* taken from it.                                                           *)
RequestsStay == InMemory!Contents(requests)' = InMemory!Contents(requests) /\ received' = received

RequestsMove ==
    \/ RequestsStay
    \/ \E m \in Msg : /\ Len(InMemory!Contents(requests)) < Capacity[requests]
                      /\ InMemory!Contents(requests)' = Append(InMemory!Contents(requests), m)
                      /\ received' = received
    \/ /\ InMemory!Contents(requests) # <<>>
       /\ received' = Append(received, Head(InMemory!Contents(requests)))
       /\ InMemory!Contents(requests)' = Tail(InMemory!Contents(requests))

(* A put that finds space, and what it does.                                *)
PutsIn(p, c) ==
    /\ op[p].do = "put" /\ op[p].ch = c /\ size[c] # Capacity[c]
    /\ buf' = [buf EXCEPT ![c][iput[c]] = op[p].msg]
    /\ iput' = [iput EXCEPT ![c] = InMemory!After(c, iput[c])]
    /\ size' = [size EXCEPT ![c] = size[c] + 1]
    /\ op' = [op EXCEPT ![p].do = "putsignal"]
    /\ UNCHANGED <<linked, iget, pc, try, replies, received>>

HasPut(p, c, m) ==
    /\ MemTypes'
    /\ op'[p] \in Call /\ op'[p].do = "putsignal" /\ op'[p].ch = c /\ op'[p].msg = m
    /\ \A q \in Proc \ {p} : op'[q] = op[q]
    /\ InMemory!Contents(c)' = Append(InMemory!Contents(c), m)
    /\ InMem' = With(InMem, c, Append(InMem[c], m))
    /\ \A f \in Chan \ {c} : InMemory!Contents(f)' = InMemory!Contents(f)
    /\ Len(InMemory!Contents(c)) < Capacity[c]

(* A put that finds space appends its message.                              *)
LEMMA PutGoes ==
    ASSUME MemInv, NEW p \in Proc, NEW c \in Chan, op[p].msg \in Msg, PutsIn(p, c)
    PROVE  HasPut(p, c, op[p].msg)
<1> DEFINE m == op[p].msg
<1> USE DEF PutsIn
<1> USE Channels
<1>1. MemTypes
  BY DEF MemInv
<1>2. /\ iget'[c] = iget[c] /\ size'[c] = size[c] + 1 /\ iput'[c] = InMemory!After(c, iput[c])
      /\ buf'[c] = Stored(buf[c], iput[c], m)
      /\ \A f \in Chan \ {c} : /\ iput'[f] = iput[f] /\ iget'[f] = iget[f]
                               /\ size'[f] = size[f] /\ buf'[f] = buf[f]
      /\ DOMAIN buf' = Chan
  BY <1>1 DEF MemTypes, Stored
<1>3. Ring(c)' /\ InMemory!Contents(c)' = Append(InMemory!Contents(c), m)
  <2>1. Ring(c) /\ size[c] # Capacity[c] /\ m \in Msg
    BY <1>1 DEF MemTypes
  <2> QED BY ONLY <2>1, <1>2, EchoAssumption, c \in Chan, PutAppends
<1>4. /\ InMem' = [InMem EXCEPT ![c] = InMemory!Contents(c)']
      /\ \A f \in Chan : Ring(f)'
  BY <1>1, <1>2, <1>3, OneRing
<1>5. InMem' = With(InMem, c, Append(InMem[c], m))
  BY <1>3, <1>4 DEF With, InMem
<1>6. /\ op' \in [Proc -> Call] /\ op'[p] \in Call /\ op'[p].do = "putsignal"
      /\ op'[p].ch = c /\ op'[p].msg = m /\ \A q \in Proc \ {p} : op'[q] = op[q]
  <2> DEFINE o == [op[p] EXCEPT !.do = "putsignal"]
  <2>1. op \in [Proc -> Call] /\ op' = [op EXCEPT ![p] = o]
    BY <1>1 DEF MemTypes
  <2>2. o \in Call /\ o.do = "putsignal" /\ o.ch = c /\ o.msg = m
    BY <2>1 DEF Call, Doing
  <2> HIDE DEF o
  <2> QED BY <2>1, <2>2
<1>7. iput' \in [Chan -> Nat] /\ iget' \in [Chan -> Nat] /\ size' \in [Chan -> Nat]
  <2>0. size[c] \in Nat /\ iput[c] \in Nat
    BY <1>1 DEF MemTypes
  <2>1. size[c] + 1 \in Nat /\ InMemory!After(c, iput[c]) \in Nat
    BY ONLY <2>0 DEF InMemory!After
  <2> QED BY <1>1, <2>1 DEF MemTypes
<1>8. MemTypes'
  BY <1>1, <1>2, <1>4, <1>6, <1>7 DEF MemTypes
<1>9. \A f \in Chan \ {c} : InMemory!Contents(f)' = InMemory!Contents(f)
  BY <1>2 DEF InMemory!Contents
<1>10. Len(InMemory!Contents(c)) < Capacity[c]
  <2>1. Ring(c)
    BY <1>1 DEF MemTypes
  <2>2. Len(InMemory!Contents(c)) = size[c] /\ Capacity[c] \in Nat \ {0} /\ size[c] \in 0..Capacity[c]
    BY <2>1, RingHolds DEF Ring
  <2> QED BY <2>2
<1> QED BY <1>3, <1>5, <1>6, <1>8, <1>9, <1>10 DEF HasPut

(* A get that finds a message, and what it does.                            *)
TakesFrom(p, c) ==
    /\ op[p].do = "get" /\ op[p].ch = c /\ size[c] # 0
    /\ iget' = [iget EXCEPT ![c] = InMemory!After(c, iget[c])]
    /\ size' = [size EXCEPT ![c] = size[c] - 1]
    /\ op' = [op EXCEPT ![p] = [do |-> "getsignal", ch |-> c, msg |-> buf[c][iget[c]]]]
    /\ UNCHANGED <<linked, iput, buf, pc, try, replies>>

HasTaken(p, c) ==
    /\ received' \in Seq(Msg) => MemTypes'
    /\ op'[p] = [do |-> "getsignal", ch |-> c, msg |-> Head(InMem[c])]
    /\ \A q \in Proc \ {p} : op'[q] = op[q]
    /\ InMemory!Contents(c) # <<>>
    /\ InMem[c] = InMemory!Contents(c) /\ InMem[c] \in Seq(Msg) /\ Head(InMem[c]) \in Msg
    /\ InMemory!Contents(c)' = Tail(InMemory!Contents(c))
    /\ InMem' = With(InMem, c, Tail(InMem[c]))
    /\ \A f \in Chan \ {c} : InMemory!Contents(f)' = InMemory!Contents(f) /\ size'[f] = size[f]
    /\ size'[c] < size[c]

(* A get that finds a message takes the oldest one.                         *)
LEMMA GetGoes ==
    ASSUME MemInv, NEW p \in Proc, NEW c \in Chan, TakesFrom(p, c)
    PROVE  HasTaken(p, c)
<1> USE DEF TakesFrom
<1> USE Channels
<1>1. MemTypes
  BY DEF MemInv
<1>2. /\ iput'[c] = iput[c] /\ size'[c] = size[c] - 1 /\ iget'[c] = InMemory!After(c, iget[c])
      /\ buf'[c] = buf[c]
      /\ \A f \in Chan \ {c} : /\ iput'[f] = iput[f] /\ iget'[f] = iget[f]
                               /\ size'[f] = size[f] /\ buf'[f] = buf[f]
      /\ DOMAIN buf' = Chan
  BY <1>1 DEF MemTypes
<1>3. /\ Ring(c)' /\ InMemory!Contents(c)' = Tail(InMemory!Contents(c))
      /\ InMemory!Contents(c) # <<>> /\ buf[c][iget[c]] = Head(InMemory!Contents(c))
  BY <1>1, <1>2, GetTakes DEF MemTypes
<1>4. /\ InMem' = [InMem EXCEPT ![c] = InMemory!Contents(c)']
      /\ \A f \in Chan : Ring(f)'
  BY <1>1, <1>2, <1>3, OneRing
<1>5. InMem' = With(InMem, c, Tail(InMem[c])) /\ InMem[c] = InMemory!Contents(c)
  BY <1>3, <1>4 DEF With, InMem
<1>6. InMemory!Contents(c) \in Seq(Msg) /\ Head(InMemory!Contents(c)) \in Msg
  <2>1. InMemory!Contents(c) \in Seq(Msg)
    BY <1>1 DEF MemTypes, Ring
  <2> QED BY <2>1, <1>3
<1>7. /\ op' \in [Proc -> Call]
      /\ op'[p] = [do |-> "getsignal", ch |-> c, msg |-> Head(InMem[c])]
      /\ \A q \in Proc \ {p} : op'[q] = op[q]
  <2> DEFINE o == [do |-> "getsignal", ch |-> c, msg |-> buf[c][iget[c]]]
  <2>1. op \in [Proc -> Call] /\ op' = [op EXCEPT ![p] = o]
    BY <1>1 DEF MemTypes
  <2>2. o \in Call /\ o = [do |-> "getsignal", ch |-> c, msg |-> Head(InMem[c])]
    BY <1>3, <1>5, <1>6 DEF Call, Doing
  <2> HIDE DEF o
  <2> QED BY <2>1, <2>2
<1>8. iput' \in [Chan -> Nat] /\ iget' \in [Chan -> Nat] /\ size' \in [Chan -> Nat] /\ size'[c] < size[c]
  <2>1. size[c] - 1 \in Nat /\ InMemory!After(c, iget[c]) \in Nat /\ size[c] - 1 < size[c]
    <3>1. size[c] \in Nat /\ iget[c] \in Nat /\ size[c] # 0
      BY <1>1 DEF MemTypes
    <3> QED BY ONLY <3>1 DEF InMemory!After
  <2> QED BY <1>1, <1>2, <2>1 DEF MemTypes
<1>9. received' \in Seq(Msg) => MemTypes'
  BY <1>1, <1>2, <1>4, <1>7, <1>8 DEF MemTypes
<1>10. \A f \in Chan \ {c} : InMemory!Contents(f)' = InMemory!Contents(f) /\ size'[f] = size[f]
  BY <1>2 DEF InMemory!Contents
<1> QED BY <1>3, <1>5, <1>6, <1>7, <1>8, <1>9, <1>10 DEF HasTaken

(* The server answers: the channel of the sender is empty, so the put goes. *)
LEMMA ServerPutStep ==
    ASSUME MemInv, InMemory!PutLocks(Server), UNCHANGED <<pc, try, replies, received>>
    PROVE  MemInv' /\ RequestsMove
<1> USE Channels
<1> DEFINE m == op[Server].msg
           c == op[Server].ch
<1>1. op[Server].do = "put" /\ m \in Msg /\ c = m.sender /\ c \in Client /\ Busy = {m}
  BY Senders DEF InMemory!PutLocks, MemInv, ServerCalls, ServerCall, Busy
<1>2. InMem[c] = <<>> /\ Outstanding(InMem, {m}, Awaiting, try)
  BY <1>1 DEF MemInv, Outstanding
<1>3. size[c] # Capacity[c]
  <2>1. InMemory!Contents(c) = <<>> /\ Ring(c)
    BY <1>1, <1>2 DEF InMem, MemInv, MemTypes
  <2>2. Len(InMemory!Contents(c)) = size[c] /\ Len(<<>>) = 0
    BY <1>1, <2>1, RingHolds
  <2>3. Capacity[c] = 1
    BY <1>1, EchoAssumption
  <2> QED BY <2>1, <2>2, <2>3
<1>4. PutsIn(Server, c)
  BY <1>1, <1>3 DEF InMemory!PutLocks, PutsIn
<1>5. HasPut(Server, c, m)
  BY <1>1, <1>4, PutGoes
<1>12. UNCHANGED <<linked, iget, pc, try, replies, received>>
  BY <1>4 DEF PutsIn
<1> HIDE DEF m, c
<1>6. Outstanding(InMem', Busy', Awaiting', try')
  <2>1. Busy' = {} /\ Awaiting' = Awaiting /\ try' = try
    BY <1>12, <1>5 DEF HasPut, Busy, Awaiting, AwaitsReply
  <2>2. InMem' = With(InMem, c, Append(InMem[c], m))
    BY <1>5 DEF HasPut
  <2>3. Outstanding(With(InMem, m.sender, Append(InMem[m.sender], m)), {}, Awaiting, try)
    BY <1>1, <1>2, Answers
  <2> QED BY <1>1, <2>1, <2>2, <2>3
<1>7. pc[Server] = "loop" /\ pc' = pc
  BY <1>1, <1>12, CallsOfEnter DEF MemInv, ServerCalls
<1>8. ServerCalls'
  BY <1>1, <1>5, <1>7 DEF HasPut, ServerCalls, ServerCall
<1>9. ClientCalls'
  BY <1>12, <1>5, <1>7 DEF HasPut, MemInv, ClientCalls
<1>10. RepliesSoFar' /\ NamesKept'
  BY <1>12 DEF MemInv, RepliesSoFar, NamesKept
<1>11. RequestsStay
  BY <1>1, <1>12, <1>5 DEF HasPut, RequestsStay
<1> QED BY <1>5, <1>6, <1>8, <1>9, <1>10, <1>11 DEF HasPut, MemInv, RequestsMove

(* A client sends its request, or waits for space.                          *)
LEMMA ClientPutStep ==
    ASSUME MemInv, NEW c \in Client, InMemory!PutLocks(c), UNCHANGED <<pc, try, replies, received>>
    PROVE  MemInv' /\ RequestsMove
<1> USE Channels
<1> DEFINE m == op[c].msg
<1>1. /\ op[c].do = "put" /\ op[c].ch = requests /\ m = Last(c, try)
      /\ pc[c] = "reply" /\ try[c] \in 1..NITERS
  BY CallsOfEnter DEF InMemory!PutLocks, MemInv, ClientCalls, ClientCall
<1>2. m \in Msg
  BY <1>1, Senders, LastIsARequest
<1>3. CASE size[requests] = Capacity[requests]
  <2>1. /\ op' = [op EXCEPT ![c].do = IF op[c].do = "put" THEN "putwait" ELSE "getwait"]
        /\ UNCHANGED <<linked, iput, iget, size, buf, pc, try, replies, received>>
    BY <1>1, <1>3 DEF InMemory!PutLocks
  <2>2. MemInv'
    BY <1>1, <2>1, WaitStep
  <2>3. RequestsStay
    BY <2>1 DEF RequestsStay, InMemory!Contents
  <2> QED BY <2>2, <2>3 DEF RequestsMove
<1>4. CASE size[requests] # Capacity[requests]
  <2>1. PutsIn(c, requests)
    BY <1>1, <1>4 DEF InMemory!PutLocks, PutsIn
  <2>2. HasPut(c, requests, m)
    BY <1>2, <2>1, PutGoes
  <2>8. UNCHANGED <<linked, iget, pc, try, replies, received>>
    BY <2>1 DEF PutsIn
  <2> HIDE DEF m
  <2>3. Outstanding(InMem', Busy', Awaiting', try')
    <3>1. Busy' = Busy /\ Busy \subseteq Msg
      BY <2>2 DEF HasPut, Busy, MemInv, ServerCalls, ServerCall
    <3>2. c \notin Awaiting /\ Awaiting' = Awaiting \cup {c}
      BY <1>1, <2>8, <2>2 DEF HasPut, Awaiting, AwaitsReply
    <3>3. Outstanding(InMem, Busy, Awaiting, try) /\ try' = try
      BY <2>8 DEF MemInv
    <3>4. Outstanding(With(InMem, requests, Append(InMem[requests], m)), Busy, Awaiting \cup {c}, try)
      BY <1>1, <1>2, <3>1, <3>2, <3>3, Sends
    <3>5. InMem' = With(InMem, requests, Append(InMem[requests], m))
      BY <2>2 DEF HasPut
    <3> QED BY <3>1, <3>2, <3>3, <3>4, <3>5
  <2>4. ServerCalls'
    BY <2>8, <2>2 DEF HasPut, MemInv, ServerCalls
  <2>5. ClientCalls'
    <3> SUFFICES ASSUME NEW d \in Client PROVE ClientCall(d, op'[d], pc'[d], try')
      BY DEF ClientCalls
    <3>1. CASE d = c
      BY <1>1, <2>8, <2>2, <3>1 DEF HasPut, ClientCall
    <3>2. CASE d # c
      BY <2>8, <2>2, <3>2 DEF HasPut, MemInv, ClientCalls
    <3> QED BY <3>1, <3>2
  <2>6. RepliesSoFar' /\ NamesKept'
    BY <2>8 DEF MemInv, RepliesSoFar, NamesKept
  <2>7. RequestsMove
    BY <1>2, <2>8, <2>2 DEF HasPut, RequestsMove
  <2> QED BY <2>2, <2>3, <2>4, <2>5, <2>6, <2>7 DEF HasPut, MemInv
<1> QED BY <1>3, <1>4

(* The server takes the oldest request, or waits for one.                   *)
LEMMA ServerGetStep ==
    ASSUME MemInv, InMemory!GetLocks(Server), UNCHANGED <<pc, try, replies>>,
           received' = IF op[Server].ch = requests /\ size'[requests] < size[requests]
                       THEN Append(received, op'[Server].msg) ELSE received
    PROVE  MemInv' /\ RequestsMove
<1> USE Channels
<1>1. /\ op[Server].do = "get" /\ op[Server].ch = requests /\ pc[Server] = "loop"
      /\ Busy = {} /\ size[requests] \in Nat /\ received \in Seq(Msg)
  BY CallsOfEnter DEF InMemory!GetLocks, MemInv, MemTypes, ServerCalls, ServerCall, Busy
<1>2. CASE size[requests] = 0
  <2>1. op' = [op EXCEPT ![Server].do = IF op[Server].do = "put" THEN "putwait" ELSE "getwait"]
    BY <1>1, <1>2 DEF InMemory!GetLocks
  <2>2. UNCHANGED <<linked, iput, iget, size, buf>>
    BY <1>1, <1>2 DEF InMemory!GetLocks
  <2>3. UNCHANGED <<linked, iput, iget, size, buf, pc, try, replies, received>>
    BY <1>1, <2>2
  <2>4. MemInv'
    BY <1>1, <2>1, <2>3, WaitStep
  <2>5. RequestsStay
    BY <2>3 DEF RequestsStay, InMemory!Contents
  <2> QED BY <2>4, <2>5 DEF RequestsMove
<1>3. CASE size[requests] # 0
  <2>1. TakesFrom(Server, requests)
    BY <1>1, <1>3 DEF InMemory!GetLocks, TakesFrom
  <2>2. HasTaken(Server, requests)
    BY <2>1, GetGoes
  <2> DEFINE m == Head(InMem[requests])
  <2>3. /\ op'[Server].do = "getsignal" /\ op'[Server].ch = requests /\ op'[Server].msg = m
        /\ m \in Msg /\ \A q \in Proc \ {Server} : op'[q] = op[q]
        /\ InMem[requests] # <<>> /\ InMem[requests] = InMemory!Contents(requests)
        /\ InMem' = With(InMem, requests, Tail(InMem[requests]))
        /\ InMemory!Contents(requests)' = Tail(InMemory!Contents(requests))
    BY <2>2 DEF HasTaken
  <2>4. received' = Append(received, m)
    <3>1. op[Server].ch = requests /\ size'[requests] < size[requests]
      BY <1>1, <2>2 DEF HasTaken
    <3> QED BY <2>3, <3>1
  <2> HIDE DEF m
  <2>5. received' \in Seq(Msg)
    BY <1>1, <2>3, <2>4
  <2>6. MemTypes'
    BY <2>2, <2>5 DEF HasTaken
  <2>7. UNCHANGED <<linked, pc, try, replies>>
    BY <2>1 DEF TakesFrom
  <2>8. Outstanding(InMem', Busy', Awaiting', try')
    <3>1. Busy' = {m} /\ Awaiting' = Awaiting /\ try' = try
      BY <2>3, <2>7 DEF Busy, Awaiting, AwaitsReply
    <3>2. Outstanding(InMem, {}, Awaiting, try)
      BY <1>1 DEF MemInv
    <3>3. Outstanding(With(InMem, requests, Tail(InMem[requests])), {Head(InMem[requests])}, Awaiting, try)
      BY <2>3, <3>2, Takes
    <3> QED BY <2>3, <3>1, <3>3 DEF m
  <2>9. ServerCalls'
    BY <1>1, <2>3, <2>7 DEF ServerCalls, ServerCall
  <2>10. ClientCalls'
    BY <2>3, <2>7 DEF MemInv, ClientCalls
  <2>11. RepliesSoFar' /\ NamesKept'
    BY <2>7 DEF MemInv, RepliesSoFar, NamesKept
  <2>12. RequestsMove
    BY <2>3, <2>4 DEF RequestsMove, m
  <2> QED BY <2>6, <2>8, <2>9, <2>10, <2>11, <2>12 DEF MemInv
<1> QED BY <1>2, <1>3

(* A client takes its reply, or waits for it.                               *)
LEMMA ClientGetStep ==
    ASSUME MemInv, NEW c \in Client, InMemory!GetLocks(c), UNCHANGED <<pc, try, replies>>,
           received' = IF op[c].ch = requests /\ size'[requests] < size[requests]
                       THEN Append(received, op'[c].msg) ELSE received
    PROVE  MemInv' /\ RequestsMove
<1> USE Channels
<1>0. op[c].do = "get" /\ ClientCall(c, op[c], pc[c], try) /\ received \in Seq(Msg)
  BY DEF InMemory!GetLocks, MemInv, MemTypes, ClientCalls
<1>1. /\ op[c].do = "get" /\ op[c].ch = c /\ pc[c] = "reply" /\ received' = received
      /\ ClientCall(c, op[c], pc[c], try) /\ received \in Seq(Msg)
  <2>1. op[c].ch = c /\ pc[c] = "reply"
    BY <1>0, CallsOfEnter DEF ClientCall
  <2> QED BY <1>0, <2>1
<1>2. CASE size[c] = 0
  <2>1. op' = [op EXCEPT ![c].do = IF op[c].do = "put" THEN "putwait" ELSE "getwait"]
    BY <1>1, <1>2 DEF InMemory!GetLocks
  <2>2. UNCHANGED <<linked, iput, iget, size, buf>>
    BY <1>1, <1>2 DEF InMemory!GetLocks
  <2>3. UNCHANGED <<linked, iput, iget, size, buf, pc, try, replies, received>>
    BY <1>1, <2>2
  <2>4. MemInv'
    BY <1>1, <2>1, <2>3, WaitStep
  <2>5. RequestsStay
    BY <2>3 DEF RequestsStay, InMemory!Contents
  <2> QED BY <2>4, <2>5 DEF RequestsMove
<1>3. CASE size[c] # 0
  <2>1. TakesFrom(c, c)
    BY <1>1, <1>3 DEF InMemory!GetLocks, TakesFrom
  <2>2. HasTaken(c, c)
    BY <2>1, GetGoes
  <2>3. /\ op'[c].do = "getsignal" /\ op'[c].ch = c /\ op'[c].msg = Head(InMem[c])
        /\ \A q \in Proc \ {c} : op'[q] = op[q]
        /\ InMem[c] # <<>>
        /\ InMem' = With(InMem, c, Tail(InMem[c]))
        /\ InMemory!Contents(requests)' = InMemory!Contents(requests)
        /\ MemTypes'
    BY <1>1, <2>2 DEF HasTaken
  <2>4. UNCHANGED <<linked, pc, try, replies>>
    BY <2>1 DEF TakesFrom
  <2>5. Busy' = Busy /\ Busy \subseteq Msg
    BY <2>3 DEF Busy, MemInv, ServerCalls, ServerCall
  <2>6. /\ Head(InMem[c]) = Last(c, try)
        /\ Outstanding(With(InMem, c, Tail(InMem[c])), Busy, Awaiting \ {c}, try)
    <3>1. Outstanding(InMem, Busy, Awaiting, try) /\ InMem[c] # <<>> /\ Busy \subseteq Msg
      BY <2>3, <2>5 DEF MemInv
    <3>2. HasRead(InMem, Busy, Awaiting, try, With(InMem, c, Tail(InMem[c])), c)
      BY ONLY <3>1, c \in Client, ReadsReply
    <3> QED BY ONLY <3>2 DEF HasRead
  <2>7. Awaiting' = Awaiting \ {c}
    BY <1>1, <2>3, <2>4 DEF Awaiting, AwaitsReply
  <2>8. Outstanding(InMem', Busy', Awaiting', try')
    BY <2>3, <2>4, <2>5, <2>6, <2>7
  <2>9. ServerCalls'
    BY <2>3, <2>4 DEF MemInv, ServerCalls
  <2>10. ClientCalls'
    <3> SUFFICES ASSUME NEW d \in Client PROVE ClientCall(d, op'[d], pc'[d], try')
      BY DEF ClientCalls
    <3>1. CASE d = c
      BY <1>1, <2>3, <2>4, <2>6, <3>1 DEF ClientCall
    <3>2. CASE d # c
      BY <2>3, <2>4, <3>2 DEF MemInv, ClientCalls
    <3> QED BY <3>1, <3>2
  <2>11. RepliesSoFar' /\ NamesKept'
    BY <2>4 DEF MemInv, RepliesSoFar, NamesKept
  <2>12. RequestsMove
    BY <1>1, <2>3 DEF RequestsMove, RequestsStay
  <2> QED BY <2>3, <2>8, <2>9, <2>10, <2>11, <2>12 DEF MemInv
<1> QED BY <1>2, <1>3

(* mc_create leaves an empty ring.                                          *)
LEMMA Creates ==
    ASSUME MemTypes, NEW c \in Chan, InMemory!mc_create(c)
    PROVE  /\ \A f \in Chan : Ring(f)'
           /\ InMemory!Contents(c)' = <<>>
           /\ \A f \in Chan \ {c} : InMemory!Contents(f)' = InMemory!Contents(f)
           /\ InMem' = Emptied(InMem, {c})
           /\ iput' \in [Chan -> Nat] /\ iget' \in [Chan -> Nat] /\ size' \in [Chan -> Nat]
           /\ DOMAIN buf' = Chan /\ op' = op
           /\ linked' = linked \cup {c} /\ linked' \subseteq Chan
<1>1. /\ size'[c] = 0 /\ iget'[c] = 0 /\ iput'[c] = 0 /\ buf' = buf /\ op' = op
      /\ linked' = linked \cup {c} /\ linked' \subseteq Chan
      /\ iput' \in [Chan -> Nat] /\ iget' \in [Chan -> Nat] /\ size' \in [Chan -> Nat]
      /\ \A f \in Chan \ {c} : /\ iput'[f] = iput[f] /\ iget'[f] = iget[f]
                               /\ size'[f] = size[f] /\ buf'[f] = buf[f]
  BY DEF MemTypes, InMemory!mc_create
<1>2. Ring(c)' /\ InMemory!Contents(c)' = <<>>
  <2>1. buf'[c] \in [0..Capacity[c]-1 -> Msg \cup {NULL}]
    BY <1>1 DEF MemTypes, Ring
  <2>2. InMemory!Contents(c)' = <<>>
    BY <1>1 DEF InMemory!Contents
  <2>3. Capacity[c] \in Nat \ {0}
    BY EchoAssumption
  <2>4. <<>> \in Seq(Msg)
    OBVIOUS
  <2> QED BY <1>1, <2>1, <2>2, <2>3, <2>4 DEF Ring, Wrapped
<1>3. InMem' = [InMem EXCEPT ![c] = InMemory!Contents(c)'] /\ \A f \in Chan : Ring(f)'
  BY <1>1, <1>2, OneRing
<1>4. InMem' = Emptied(InMem, {c})
  BY <1>2, <1>3 DEF InMem, Emptied
<1>5. \A f \in Chan \ {c} : InMemory!Contents(f)' = InMemory!Contents(f)
  BY <1>1 DEF InMemory!Contents
<1>6. DOMAIN buf' = Chan
  BY <1>1 DEF MemTypes
<1> QED BY <1>1, <1>2, <1>3, <1>4, <1>5, <1>6

(* Nobody has sent anything before the server starts.                       *)
LEMMA ServerStartsStep ==
    ASSUME MemInv, InMemory!ServerStarts
    PROVE  MemInv' /\ RequestsMove
<1> USE Channels
<1>1. /\ pc[Server] = "start" /\ pc' = [pc EXCEPT ![Server] = "loop"]
      /\ UNCHANGED <<try, replies, received>> /\ InMemory!mc_create(requests)
  BY DEF InMemory!ServerStarts, InMemory!Go
<1>2. /\ \A f \in Chan : Ring(f)'
      /\ InMemory!Contents(requests)' = <<>>
      /\ InMem' = Emptied(InMem, {requests})
      /\ iput' \in [Chan -> Nat] /\ iget' \in [Chan -> Nat] /\ size' \in [Chan -> Nat]
      /\ DOMAIN buf' = Chan /\ op' = op
      /\ linked' = linked \cup {requests} /\ linked' \subseteq Chan
  BY <1>1, Creates DEF MemInv
<1>3. pc' \in [Proc -> {"start", "loop", "reply", "done", "killed", "cut"}]
      /\ pc'[Server] = "loop" /\ \A c \in Client : pc'[c] = pc[c]
  BY <1>1 DEF MemInv, MemTypes
<1>4. MemTypes'
  BY <1>1, <1>2, <1>3 DEF MemInv, MemTypes
<1>5. ServerCalls' /\ ClientCalls'
  BY <1>1, <1>2, <1>3 DEF MemInv, ServerCalls, ClientCalls
<1>6. Outstanding(InMem', Busy', Awaiting', try')
  <2>1. Outstanding(InMem, Busy, Awaiting, try)
    BY DEF MemInv
  <2>2. Busy' = Busy /\ Awaiting' = Awaiting /\ try' = try /\ Awaiting \subseteq Client
    BY <1>1, <1>2, <1>3 DEF Busy, Awaiting, AwaitsReply
  <2>3. Outstanding(Emptied(InMem, {requests}), Busy, Awaiting, try)
    BY <2>1, <2>2, Loses
  <2> QED BY <1>2, <2>2, <2>3
<1>7. RepliesSoFar' /\ NamesKept'
  BY <1>1, <1>2, <1>3 DEF MemInv, RepliesSoFar, NamesKept
<1>8. InMemory!Contents(requests) = <<>>
  <2>1. Awaiting = {}
    BY <1>1 DEF MemInv, NamesKept, Awaiting, AwaitsReply
  <2>2. InMem[requests] = <<>>
    BY <2>1, NobodyWaits DEF MemInv
  <2> QED BY <2>2 DEF InMem
<1>9. RequestsStay
  BY <1>1, <1>2, <1>8 DEF RequestsStay
<1> QED BY <1>4, <1>5, <1>6, <1>7, <1>9 DEF MemInv, RequestsMove

(* A client creates its channel, or finds no server and ends.               *)
LEMMA ClientStartsStep ==
    ASSUME MemInv, NEW c \in Client, InMemory!ClientStarts(c)
    PROVE  MemInv' /\ RequestsMove
<1> USE Channels
<1>1. pc[c] = "start" /\ op[c] = InMemory!Idle /\ UNCHANGED <<try, replies, received>>
  BY DEF InMemory!ClientStarts, MemInv, ClientCalls, ClientCall
<1>2. CASE requests \in linked
  <2>1. pc' = [pc EXCEPT ![c] = "loop"] /\ InMemory!mc_create(c)
    BY <1>2 DEF InMemory!ClientStarts, InMemory!Go
  <2>2. /\ \A f \in Chan : Ring(f)'
        /\ InMemory!Contents(requests)' = InMemory!Contents(requests)
        /\ InMem' = Emptied(InMem, {c})
        /\ iput' \in [Chan -> Nat] /\ iget' \in [Chan -> Nat] /\ size' \in [Chan -> Nat]
        /\ DOMAIN buf' = Chan /\ op' = op
        /\ linked' = linked \cup {c} /\ linked' \subseteq Chan
    BY <2>1, Creates DEF MemInv
  <2>3. pc' \in [Proc -> {"start", "loop", "reply", "done", "killed", "cut"}]
        /\ pc'[c] = "loop" /\ \A q \in Proc \ {c} : pc'[q] = pc[q]
    BY <2>1 DEF MemInv, MemTypes
  <2>4. MemTypes'
    BY <1>1, <2>2, <2>3 DEF MemInv, MemTypes
  <2>5. ServerCalls' /\ ClientCalls'
    BY <1>1, <2>2, <2>3 DEF MemInv, ServerCalls, ClientCalls, ClientCall
  <2>6. Outstanding(InMem', Busy', Awaiting', try')
    <3>1. Outstanding(InMem, Busy, Awaiting, try)
      BY DEF MemInv
    <3>2. Busy' = Busy /\ Awaiting' = Awaiting /\ try' = try /\ Awaiting \subseteq Client
      BY <1>1, <2>2, <2>3 DEF Busy, Awaiting, AwaitsReply
    <3>3. Outstanding(Emptied(InMem, {c}), Busy, Awaiting, try)
      BY <3>1, <3>2, Loses
    <3> QED BY <2>2, <3>2, <3>3
  <2>7. RepliesSoFar'
    BY <1>1, <2>3 DEF MemInv, RepliesSoFar
  <2>8. NamesKept'
    BY <1>2, <2>2, <2>3 DEF MemInv, NamesKept
  <2>9. RequestsStay
    BY <1>1, <2>2 DEF RequestsStay
  <2> QED BY <2>4, <2>5, <2>6, <2>7, <2>8, <2>9 DEF MemInv, RequestsMove
<1>3. CASE requests \notin linked
  <2>1. /\ pc' = [pc EXCEPT ![c] = "done"]
        /\ UNCHANGED <<linked, iput, iget, size, buf, op>>
    BY <1>3 DEF InMemory!ClientStarts, InMemory!Go, InMemory!chanVars
  <2>2. pc' \in [Proc -> {"start", "loop", "reply", "done", "killed", "cut"}]
        /\ pc'[c] = "done" /\ \A q \in Proc \ {c} : pc'[q] = pc[q]
    BY <2>1 DEF MemInv, MemTypes
  <2>3. MemTypes'
    BY <1>1, <2>1, <2>2, StillRings DEF MemInv, MemTypes
  <2>4. ServerCalls' /\ ClientCalls'
    BY <1>1, <2>1, <2>2 DEF MemInv, ServerCalls, ClientCalls, ClientCall
  <2>5. Outstanding(InMem', Busy', Awaiting', try')
    <3>1. Busy' = Busy /\ Awaiting' = Awaiting /\ try' = try
      BY <1>1, <2>1, <2>2 DEF Busy, Awaiting, AwaitsReply
    <3>2. InMem' = InMem
      BY <2>1, StillRings DEF MemInv
    <3> QED BY <3>1, <3>2 DEF MemInv
  <2>6. RepliesSoFar' /\ NamesKept'
    BY <1>1, <2>1, <2>2 DEF MemInv, RepliesSoFar, NamesKept
  <2>7. RequestsStay
    BY <1>1, <2>1 DEF RequestsStay, InMemory!Contents
  <2> QED BY <2>3, <2>4, <2>5, <2>6, <2>7 DEF MemInv, RequestsMove
<1> QED BY <1>2, <1>3

(* A client begins its next try: its request is not outstanding yet.        *)
LEMMA ClientPutsStep ==
    ASSUME MemInv, NEW c \in Client, InMemory!ClientPuts(c)
    PROVE  MemInv' /\ RequestsMove
<1> USE Channels
<1> DEFINE m == InMemory!Request(c, try[c] + 1)
           o == [do |-> "put", ch |-> requests, msg |-> m]
<1>1. /\ pc[c] = "loop" /\ try[c] < NITERS /\ try[c] \in 0..NITERS /\ NITERS \in Nat
      /\ op[c] = InMemory!Idle
      /\ op' = [op EXCEPT ![c] = o] /\ pc' = [pc EXCEPT ![c] = "reply"]
      /\ try' = [try EXCEPT ![c] = try[c] + 1]
      /\ UNCHANGED <<linked, iput, iget, size, buf, replies, received>>
  BY EchoAssumption DEF InMemory!ClientPuts, InMemory!mc_put, InMemory!Enter, InMemory!Go,
     MemInv, MemTypes
<1>2. /\ try'[c] = try[c] + 1 /\ try'[c] \in 1..NITERS /\ try' \in [Client -> 0..NITERS]
      /\ \A d \in Client \ {c} : try'[d] = try[d]
  BY <1>1 DEF MemInv, MemTypes
<1>3. m = Last(c, try') /\ m \in Msg
  BY <1>2, Senders, LastIsARequest
<1>4. o \in Call /\ o.do = "put" /\ o.ch = requests /\ o.msg = m
  BY <1>3 DEF Call, Doing
<1> HIDE DEF o, m
<1>5. op' \in [Proc -> Call] /\ op'[c] = o /\ \A q \in Proc \ {c} : op'[q] = op[q]
  BY <1>1, <1>4 DEF MemInv, MemTypes
<1>6. pc' \in [Proc -> {"start", "loop", "reply", "done", "killed", "cut"}]
      /\ pc'[c] = "reply" /\ \A q \in Proc \ {c} : pc'[q] = pc[q]
  BY <1>1 DEF MemInv, MemTypes
<1>7. MemTypes'
  BY <1>1, <1>2, <1>5, <1>6, StillRings DEF MemInv, MemTypes
<1>8. ServerCalls'
  BY <1>5, <1>6 DEF MemInv, ServerCalls
<1>9. ClientCalls'
  <2> SUFFICES ASSUME NEW d \in Client PROVE ClientCall(d, op'[d], pc'[d], try')
    BY DEF ClientCalls
  <2>1. CASE d = c
    BY <1>2, <1>3, <1>4, <1>5, <1>6, <2>1 DEF ClientCall
  <2>2. CASE d # c
    BY <1>2, <1>5, <1>6, <2>2 DEF MemInv, ClientCalls, ClientCall, Last
  <2> QED BY <2>1, <2>2
<1>10. Outstanding(InMem', Busy', Awaiting', try')
  <2>1. Busy' = Busy /\ Awaiting' = Awaiting /\ c \notin Awaiting /\ Awaiting \subseteq Client
    BY <1>1, <1>4, <1>5, <1>6 DEF Busy, Awaiting, AwaitsReply
  <2>2. InMem' = InMem
    BY <1>1, StillRings DEF MemInv
  <2>3. \A d \in Awaiting : try'[d] = try[d]
    BY <1>2, <2>1
  <2>4. Outstanding(InMem, Busy, Awaiting, try')
    BY <2>3, Counts DEF MemInv
  <2> QED BY <2>1, <2>2, <2>4
<1>11. RepliesSoFar'
  <2> SUFFICES ASSUME NEW d \in Client
               PROVE  /\ \A i \in 1..Len(replies[d]) : replies[d][i] = InMemory!Request(d, i)
                      /\ Len(replies[d]) <= try'[d]
                      /\ pc'[d] \notin {"reply", "killed", "cut"} => Len(replies[d]) = try'[d]
                      /\ pc'[d] = "reply" => Len(replies[d]) + 1 = try'[d]
    BY <1>1 DEF RepliesSoFar
  <2>1. CASE d = c
    BY <1>1, <1>2, <1>6, <2>1 DEF MemInv, RepliesSoFar
  <2>2. CASE d # c
    BY <1>2, <1>6, <2>2 DEF MemInv, RepliesSoFar
  <2> QED BY <2>1, <2>2
<1>12. NamesKept'
  BY <1>1, <1>6 DEF MemInv, NamesKept
<1>13. RequestsStay
  BY <1>1 DEF RequestsStay, InMemory!Contents
<1> QED BY <1>7, <1>8, <1>9, <1>10, <1>11, <1>12, <1>13 DEF MemInv, RequestsMove

(* A client prints the reply it got, to the request it sent last.           *)
LEMMA ClientPrintsStep ==
    ASSUME MemInv, NEW c \in Client, InMemory!ClientPrints(c)
    PROVE  MemInv' /\ RequestsMove
<1> USE Channels
<1>1. /\ pc[c] = "reply" /\ op[c].do = "got" /\ op[c].msg = Last(c, try)
      /\ try[c] \in 1..NITERS /\ NITERS \in Nat /\ op[c].msg \in Msg
      /\ Len(replies[c]) + 1 = try[c] /\ replies[c] \in Seq(Msg)
      /\ \A i \in 1..Len(replies[c]) : replies[c][i] = InMemory!Request(c, i)
      /\ replies' = [replies EXCEPT ![c] = Append(replies[c], op[c].msg)]
      /\ op' = [op EXCEPT ![c] = InMemory!Idle] /\ pc' = [pc EXCEPT ![c] = "loop"]
      /\ UNCHANGED <<linked, iput, iget, size, buf, try, received>>
  <2>1. ClientCall(c, op[c], pc[c], try) /\ pc[c] = "reply" /\ op[c].do = "got"
    BY DEF InMemory!ClientPrints, MemInv, ClientCalls
  <2>2. op[c].msg = Last(c, try) /\ try[c] \in 1..NITERS
    BY <2>1 DEF ClientCall
  <2>3. op[c].msg \in Msg
    BY <2>2, Senders, LastIsARequest
  <2> QED BY <2>1, <2>2, <2>3, EchoAssumption
          DEF InMemory!ClientPrints, InMemory!Go, MemInv, MemTypes, RepliesSoFar
<1>2. op' \in [Proc -> Call] /\ op'[c] = InMemory!Idle /\ \A q \in Proc \ {c} : op'[q] = op[q]
  BY <1>1, CallsOfEnter DEF MemInv, MemTypes
<1>3. pc' \in [Proc -> {"start", "loop", "reply", "done", "killed", "cut"}]
      /\ pc'[c] = "loop" /\ \A q \in Proc \ {c} : pc'[q] = pc[q]
  BY <1>1 DEF MemInv, MemTypes
<1>4. /\ replies' \in [Client -> Seq(Msg)] /\ replies'[c] = Append(replies[c], op[c].msg)
      /\ \A d \in Client \ {c} : replies'[d] = replies[d]
  BY <1>1 DEF MemInv, MemTypes
<1>5. MemTypes'
  BY <1>1, <1>2, <1>3, <1>4, StillRings DEF MemInv, MemTypes
<1>6. ServerCalls'
  BY <1>2, <1>3 DEF MemInv, ServerCalls
<1>7. ClientCalls'
  <2> SUFFICES ASSUME NEW d \in Client PROVE ClientCall(d, op'[d], pc'[d], try')
    BY DEF ClientCalls
  <2>1. CASE d = c
    BY <1>2, <1>3, <2>1, CallsOfEnter DEF ClientCall
  <2>2. CASE d # c
    BY <1>1, <1>2, <1>3, <2>2 DEF MemInv, ClientCalls
  <2> QED BY <2>1, <2>2
<1>8. Outstanding(InMem', Busy', Awaiting', try')
  <2>1. Busy' = Busy /\ Awaiting' = Awaiting
    BY <1>1, <1>2, <1>3 DEF Busy, Awaiting, AwaitsReply
  <2>2. InMem' = InMem
    BY <1>1, StillRings DEF MemInv
  <2> QED BY <1>1, <2>1, <2>2 DEF MemInv
<1>9. RepliesSoFar'
  <2> SUFFICES ASSUME NEW d \in Client
               PROVE  /\ \A i \in 1..Len(replies'[d]) : replies'[d][i] = InMemory!Request(d, i)
                      /\ Len(replies'[d]) <= try[d]
                      /\ pc'[d] \notin {"reply", "killed", "cut"} => Len(replies'[d]) = try[d]
                      /\ pc'[d] = "reply" => Len(replies'[d]) + 1 = try[d]
    BY <1>1 DEF RepliesSoFar
  <2>1. CASE d = c
    <3>1. op[c].msg = InMemory!Request(c, try[c])
      BY <1>1, LastIsARequest
    <3>2. /\ Len(replies'[c]) = try[c] /\ replies'[c][try[c]] = op[c].msg
          /\ \A i \in 1..Len(replies[c]) : replies'[c][i] = replies[c][i]
      BY <1>1, <1>4
    <3>3. ASSUME NEW i \in 1..try[c] PROVE replies'[c][i] = InMemory!Request(c, i)
      <4>1. i = try[c] \/ i \in 1..Len(replies[c])
        BY <1>1
      <4> QED BY <1>1, <3>1, <3>2, <4>1
    <3> QED BY <1>1, <1>3, <2>1, <3>2, <3>3
  <2>2. CASE d # c
    BY <1>3, <1>4, <2>2 DEF MemInv, RepliesSoFar
  <2> QED BY <2>1, <2>2
<1>10. NamesKept'
  BY <1>1, <1>3 DEF MemInv, NamesKept
<1>11. RequestsStay
  BY <1>1 DEF RequestsStay, InMemory!Contents
<1> QED BY <1>5, <1>6, <1>7, <1>8, <1>9, <1>10, <1>11 DEF MemInv, RequestsMove

(* A client that has read its last reply takes its channel away.            *)
LEMMA ClientEndsStep ==
    ASSUME MemInv, NEW c \in Client, InMemory!ClientEnds(c)
    PROVE  MemInv' /\ RequestsMove
<1> USE Channels
<1>1. /\ pc[c] = "loop" /\ pc' = [pc EXCEPT ![c] = "done"] /\ linked' = linked \ {c}
      /\ UNCHANGED <<iput, iget, size, buf, op, try, replies, received>>
  BY DEF InMemory!ClientEnds, InMemory!mc_destroy, InMemory!Go
<1>2. pc' \in [Proc -> {"start", "loop", "reply", "done", "killed", "cut"}]
      /\ pc'[c] = "done" /\ \A q \in Proc \ {c} : pc'[q] = pc[q]
  BY <1>1 DEF MemInv, MemTypes
<1>3. MemTypes'
  BY <1>1, <1>2, StillRings DEF MemInv, MemTypes
<1>4. ServerCalls' /\ ClientCalls'
  BY <1>1, <1>2 DEF MemInv, ServerCalls, ClientCalls, ClientCall
<1>5. Outstanding(InMem', Busy', Awaiting', try')
  <2>1. Busy' = Busy /\ Awaiting' = Awaiting
    BY <1>1, <1>2 DEF Busy, Awaiting, AwaitsReply
  <2>2. InMem' = InMem
    BY <1>1, StillRings DEF MemInv
  <2> QED BY <1>1, <2>1, <2>2 DEF MemInv
<1>6. RepliesSoFar' /\ NamesKept'
  BY <1>1, <1>2 DEF MemInv, RepliesSoFar, NamesKept
<1>7. RequestsStay
  BY <1>1 DEF RequestsStay, InMemory!Contents
<1> QED BY <1>3, <1>4, <1>5, <1>6, <1>7 DEF MemInv, RequestsMove

(* What a killed client sent stays where it is.                             *)
LEMMA KilledStep ==
    ASSUME MemInv, NEW c \in Client, InMemory!Killed(c)
    PROVE  MemInv' /\ RequestsMove
<1> USE Channels
<1>1. /\ pc[c] \in {"loop", "reply"}
      /\ pc' = [pc EXCEPT ![c] = IF op[c] = InMemory!Idle THEN "killed" ELSE "cut"]
      /\ op' = [op EXCEPT ![c] = InMemory!Idle]
      /\ UNCHANGED <<linked, iput, iget, size, buf, try, replies, received>>
  BY DEF InMemory!Killed, InMemory!Go
<1>2. pc' \in [Proc -> {"start", "loop", "reply", "done", "killed", "cut"}]
      /\ pc'[c] \in {"killed", "cut"} /\ \A q \in Proc \ {c} : pc'[q] = pc[q]
  BY <1>1 DEF MemInv, MemTypes
<1>3. op' \in [Proc -> Call] /\ op'[c] = InMemory!Idle /\ \A q \in Proc \ {c} : op'[q] = op[q]
  BY <1>1, CallsOfEnter DEF MemInv, MemTypes
<1>4. MemTypes'
  BY <1>1, <1>2, <1>3, StillRings DEF MemInv, MemTypes
<1>5. ServerCalls'
  BY <1>2, <1>3 DEF MemInv, ServerCalls
<1>6. ClientCalls'
  <2> SUFFICES ASSUME NEW d \in Client PROVE ClientCall(d, op'[d], pc'[d], try')
    BY DEF ClientCalls
  <2>1. CASE d = c
    BY <1>2, <1>3, <2>1, CallsOfEnter DEF ClientCall
  <2>2. CASE d # c
    BY <1>1, <1>2, <1>3, <2>2 DEF MemInv, ClientCalls
  <2> QED BY <2>1, <2>2
<1>7. Outstanding(InMem', Busy', Awaiting', try')
  <2>1. Busy' \subseteq Busy
    BY <1>3 DEF Busy
  <2>2. Awaiting \subseteq Awaiting' /\ Awaiting' \subseteq Client
    <3> SUFFICES ASSUME NEW d \in Client, AwaitsReply(d) PROVE AwaitsReply(d)'
      BY DEF Awaiting
    <3>1. CASE d = c
      BY <1>2, <3>1 DEF AwaitsReply
    <3>2. CASE d # c
      BY <1>2, <1>3, <3>2 DEF AwaitsReply
    <3> QED BY <3>1, <3>2
  <2>3. Outstanding(InMem, Busy, Awaiting, try)
    BY DEF MemInv
  <2>4. InMem' = InMem /\ try' = try /\ InMem = Emptied(InMem, {})
    BY <1>1, StillRings DEF MemInv, Emptied, InMem
  <2>5. Outstanding(InMem, Busy', Awaiting', try)
    BY <2>1, <2>2, <2>3, <2>4, Loses
  <2> QED BY <2>4, <2>5
<1>8. RepliesSoFar' /\ NamesKept'
  BY <1>1, <1>2 DEF MemInv, RepliesSoFar, NamesKept
<1>9. RequestsStay
  BY <1>1 DEF RequestsStay, InMemory!Contents
<1> QED BY <1>4, <1>5, <1>6, <1>7, <1>8, <1>9 DEF MemInv, RequestsMove

(* A step inside a call.                                                    *)
LEMMA ChannelStepStep ==
    ASSUME MemInv, NEW p \in Proc, InMemory!ChannelStep(p)
    PROVE  MemInv' /\ RequestsMove
<1> USE Channels
<1>1. /\ UNCHANGED <<pc, try, replies>> /\ InMemory!InCall(p)
      /\ received' = IF op[p].ch = requests /\ size'[requests] < size[requests]
                     THEN Append(received, op'[p].msg) ELSE received
  BY DEF InMemory!ChannelStep
<1>2. \A f \in Chan : size[f] \in Nat
  BY DEF MemInv, MemTypes
<1>3. CASE InMemory!PutLocks(p)
  <2>1. received' = received
    <3>1. op[p].ch = requests => size'[requests] = size[requests] \/ size'[requests] = size[requests] + 1
      BY <1>3 DEF InMemory!PutLocks, MemInv, MemTypes
    <3> QED BY <1>1, <1>2, <3>1
  <2>2. CASE p = Server
    BY <1>1, <1>3, <2>1, <2>2, ServerPutStep
  <2>3. CASE p \in Client
    BY <1>1, <1>3, <2>1, <2>3, ClientPutStep
  <2> QED BY <2>2, <2>3
<1>4. CASE InMemory!GetLocks(p)
  <2>1. CASE p = Server
    BY <1>1, <1>4, <2>1, ServerGetStep
  <2>2. CASE p \in Client
    BY <1>1, <1>4, <2>2, ClientGetStep
  <2> QED BY <2>1, <2>2
<1>5. CASE InMemory!PutSignals(p) \/ InMemory!GetSignals(p)
  <2>1. UNCHANGED <<iget, size, buf>> /\ received' = received
    <3>1. UNCHANGED <<iget, size, buf>>
      BY <1>5 DEF InMemory!PutSignals, InMemory!GetSignals
    <3> QED BY <1>1, <1>2, <3>1
  <2>2. MemInv'
    BY <1>1, <1>5, <2>1, SignalStep
  <2>3. RequestsStay
    BY <2>1 DEF RequestsStay, InMemory!Contents
  <2> QED BY <2>2, <2>3 DEF RequestsMove
<1> QED BY <1>1, <1>3, <1>4, <1>5 DEF InMemory!InCall

(* Every step of the service in shared memory.                              *)
LEMMA MemStep ==
    ASSUME MemInv, InMemory!Next
    PROVE  MemInv' /\ RequestsMove
<1> USE Channels
<1>1. CASE InMemory!ServerStarts
  BY <1>1, ServerStartsStep
<1>2. CASE InMemory!ServerGets
  <2>1. RequestsStay
    BY <1>2 DEF RequestsStay, InMemory!Contents, InMemory!ServerGets, InMemory!mc_get
  <2> QED BY <1>2, <2>1, ServerGetsStep DEF RequestsMove
<1>3. CASE InMemory!ServerOpens
  <2>1. RequestsStay
    BY <1>3 DEF RequestsStay, InMemory!Contents, InMemory!ServerOpens
  <2> QED BY <1>3, <2>1, ServerOpensStep DEF RequestsMove
<1>4. ASSUME NEW p \in Proc, InMemory!ChannelStep(p) PROVE MemInv' /\ RequestsMove
  BY <1>4, ChannelStepStep
<1>5. ASSUME NEW p \in Proc, InMemory!Wakes(p) PROVE MemInv' /\ RequestsMove
  <2>1. RequestsStay
    BY <1>5 DEF RequestsStay, InMemory!Contents, InMemory!Wakes, InMemory!SpuriousWakeup
  <2> QED BY <1>5, <2>1, WakesStep DEF RequestsMove
<1>6. ASSUME NEW c \in Client, InMemory!ClientStarts(c) PROVE MemInv' /\ RequestsMove
  BY <1>6, ClientStartsStep
<1>7. ASSUME NEW c \in Client, InMemory!ClientPuts(c) PROVE MemInv' /\ RequestsMove
  BY <1>7, ClientPutsStep
<1>8. ASSUME NEW c \in Client, InMemory!ClientGets(c) PROVE MemInv' /\ RequestsMove
  <2>1. RequestsStay
    BY <1>8 DEF RequestsStay, InMemory!Contents, InMemory!ClientGets, InMemory!mc_get
  <2> QED BY <1>8, <2>1, ClientGetsStep DEF RequestsMove
<1>9. ASSUME NEW c \in Client, InMemory!ClientPrints(c) PROVE MemInv' /\ RequestsMove
  BY <1>9, ClientPrintsStep
<1>10. ASSUME NEW c \in Client, InMemory!ClientEnds(c) PROVE MemInv' /\ RequestsMove
  BY <1>10, ClientEndsStep
<1>11. ASSUME NEW c \in Client, InMemory!Killed(c) PROVE MemInv' /\ RequestsMove
  BY <1>11, KilledStep
<1> QED BY <1>1, <1>2, <1>3, <1>4, <1>5, <1>6, <1>7, <1>8, <1>9, <1>10, <1>11
        DEF InMemory!Next, InMemory!ServerStep, InMemory!ClientStep

-----------------------------------------------------------------------------
(* The echo service over pipes.                                             *)
PipePcs == {"start", "read", "open", "write", "done", "dead",
            "mkfifo", "create", "loop", "reply", "unlink", "killed"}

PipeTypes ==
    /\ linked \subseteq Chan /\ owned \subseteq Chan
    /\ pc \in [Proc -> PipePcs]
    /\ msg \in Msg \cup {NULL}
    /\ pc[Server] \in {"open", "write"} => msg \in Msg
    /\ try \in [Client -> 0..NITERS]
    /\ replies \in [Client -> Seq(Msg)]

AtHand == IF pc[Server] \in {"open", "write"} THEN {msg} ELSE {}
Asking == {c \in Client : pc[c] \in {"reply", "killed"}}

(* A client that takes part has its fifo, with its name.                    *)
FifosKept == \A c \in Client :
    /\ pc[c] \in {"create", "loop", "reply", "unlink"} => c \in linked
    /\ pc[c] \in {"loop", "reply"} => c \in owned

SomeoneWasKilled == \E c \in Client : pc[c] = "killed"
ServerWorks == pc[Server] \in {"done", "dead"} => SomeoneWasKilled

PipeInv ==
    /\ PipeTypes
    /\ Outstanding(queue, AtHand, Asking, try)
    /\ RepliesSoFar /\ FifosKept /\ ServerWorks

(* What the invariant is for.                                               *)
LEMMA PipeInvImplies ==
    ASSUME PipeInv
    PROVE  OverPipes!RepliesMatch /\ OverPipes!ServerSurvives
<1>1. OverPipes!RepliesMatch
  BY Senders DEF PipeInv, RepliesSoFar, OverPipes!RepliesMatch
<1>2. OverPipes!ServerSurvives
  <2>1. pc[Server] = "open" => msg.sender \in Client
    BY Senders DEF PipeInv, PipeTypes
  <2> QED BY <2>1 DEF PipeInv, ServerWorks, SomeoneWasKilled, OverPipes!ServerSurvives,
          OverPipes!ServerStopped
<1> QED BY <1>1, <1>2

(* The invariant holds at the start.                                        *)
LEMMA PipeInit ==
    ASSUME OverPipes!Init
    PROVE  PipeInv
<1> USE Channels
<1>1. /\ linked = {} /\ owned = {} /\ msg = NULL
      /\ queue = [f \in Chan |-> <<>>]
      /\ pc = [p \in Proc |-> "start"]
      /\ try = [c \in Client |-> 0] /\ replies = [c \in Client |-> <<>>]
  BY DEF OverPipes!Init, OverPipes!Fifo
<1>2. <<>> \in Seq(Msg) /\ Len(<<>>) = 0 /\ 1..0 = {} /\ NITERS \in Nat
  BY EchoAssumption
<1>3. PipeTypes
  BY <1>1, <1>2 DEF PipeTypes, PipePcs
<1>4. Outstanding(queue, AtHand, Asking, try)
  <2>1. AtHand = {} /\ Asking = {}
    BY <1>1 DEF AtHand, Asking
  <2>2. queue \in [Chan -> Seq(Msg)] /\ \A f \in Chan : queue[f] = <<>>
    BY <1>1, <1>2
  <2> QED BY <1>2, <2>1, <2>2 DEF Outstanding
<1>5. RepliesSoFar
  BY <1>1, <1>2 DEF RepliesSoFar
<1>6. FifosKept /\ ServerWorks
  BY <1>1 DEF FifosKept, ServerWorks
<1> QED BY <1>3, <1>4, <1>5, <1>6 DEF PipeInv

(* A process moves on in its program, and nothing is sent or read.          *)
LEMMA PipeMoves ==
    ASSUME PipeInv, NEW p \in Proc, NEW l \in PipePcs, pc' = [pc EXCEPT ![p] = l],
           UNCHANGED <<msg, try, replies>>,
           NEW F, queue' = Emptied(queue, F),
           linked' \subseteq Chan, owned' \subseteq Chan,
           \A c \in Client \ {p} : c \in linked => c \in linked',
           \A c \in Client \ {p} : c \in owned => c \in owned',
           pc[p] # "killed",
           p = Server => /\ l = "write" => pc[Server] = "open"
                         /\ l # "open"
                         /\ l \in {"done", "dead"} => SomeoneWasKilled,
           p \in Client => /\ pc[p] = "reply" => l = "killed"
                           /\ l # "reply"
                           /\ l \in {"create", "loop", "unlink"} => p \in linked'
                           /\ l = "loop" => p \in owned'
    PROVE  PipeInv'
<1> USE Channels
<1>1. pc' \in [Proc -> PipePcs] /\ pc'[p] = l /\ \A q \in Proc \ {p} : pc'[q] = pc[q]
  BY DEF PipeInv, PipeTypes
<1>2. AtHand' \subseteq AtHand
  BY <1>1 DEF AtHand
<1>3. PipeTypes'
  BY <1>1 DEF PipeInv, PipeTypes
<1>4. Asking \subseteq Asking' /\ Asking' \subseteq Client
  BY <1>1 DEF Asking
<1>5. Outstanding(queue', AtHand', Asking', try')
  <2>1. Outstanding(queue, AtHand, Asking, try) /\ try' = try
    BY DEF PipeInv
  <2>2. Outstanding(Emptied(queue, F), AtHand', Asking', try)
    BY <1>2, <1>4, <2>1, Loses
  <2> QED BY <2>1, <2>2
<1>6. RepliesSoFar'
  <2> SUFFICES ASSUME NEW c \in Client
               PROVE  /\ \A i \in 1..Len(replies[c]) : replies[c][i] = InMemory!Request(c, i)
                      /\ Len(replies[c]) <= try[c]
                      /\ pc'[c] \notin {"reply", "killed", "cut"} => Len(replies[c]) = try[c]
                      /\ pc'[c] = "reply" => Len(replies[c]) + 1 = try[c]
    BY DEF RepliesSoFar
  <2>1. CASE c = p
    <3>1. pc[p] # "cut"
      BY DEF PipeInv, PipeTypes, PipePcs
    <3> QED BY <1>1, <2>1, <3>1 DEF PipeInv, RepliesSoFar
  <2>2. CASE c # p
    BY <1>1, <2>2 DEF PipeInv, RepliesSoFar
  <2> QED BY <2>1, <2>2
<1>7. FifosKept'
  <2> SUFFICES ASSUME NEW c \in Client
               PROVE  /\ pc'[c] \in {"create", "loop", "reply", "unlink"} => c \in linked'
                      /\ pc'[c] \in {"loop", "reply"} => c \in owned'
    BY DEF FifosKept
  <2>1. CASE c = p
    BY <1>1, <2>1
  <2>2. CASE c # p
    BY <1>1, <2>2 DEF PipeInv, FifosKept
  <2> QED BY <2>1, <2>2
<1>8. ServerWorks'
  <2>1. SomeoneWasKilled => SomeoneWasKilled'
    BY <1>1 DEF SomeoneWasKilled
  <2> QED BY <1>1, <2>1 DEF PipeInv, ServerWorks
<1> QED BY <1>3, <1>5, <1>6, <1>7, <1>8 DEF PipeInv

(* A fifo that its owner closes loses what is in it; the others stay.       *)
LEMMA ClosesEmpties ==
    ASSUME PipeInv, NEW f \in Chan, OverPipes!Closes(f)
    PROVE  queue' = Emptied(queue, {f}) /\ owned' = owned \ {f}
<1>1. queue \in [Chan -> Seq(Msg)]
  BY DEF PipeInv, Outstanding
<1> QED BY <1>1 DEF OverPipes!Closes, Emptied

(* To empty no channel changes nothing.                                     *)
LEMMA NothingEmptied ==
    ASSUME PipeInv
    PROVE  Emptied(queue, {}) = queue
BY DEF PipeInv, Outstanding, Emptied

(* The server makes and opens its fifo.                                     *)
LEMMA PipeServerCreates ==
    ASSUME PipeInv, OverPipes!ServerCreates
    PROVE  PipeInv'
<1> USE Channels, NothingEmptied
<1> USE DEF PipePcs
<1>1. CASE OverPipes!Makes(Server, requests, "start")
  <2>1. /\ pc[Server] = "start" /\ pc' = [pc EXCEPT ![Server] = "create"]
        /\ linked' = linked \cup {requests} /\ UNCHANGED <<owned, queue, msg, try, replies>>
    BY <1>1 DEF OverPipes!Makes, OverPipes!Go
  <2> QED BY <2>1, PipeMoves DEF PipeInv, PipeTypes
<1>2. CASE OverPipes!Opens(Server, requests, "read")
  <2>1. /\ pc[Server] = "create" /\ pc' = [pc EXCEPT ![Server] = "read"]
        /\ owned' = owned \cup {requests} /\ UNCHANGED <<linked, queue, msg, try, replies>>
    BY <1>2 DEF OverPipes!Opens, OverPipes!Go
  <2> QED BY <2>1, PipeMoves DEF PipeInv, PipeTypes
<1> QED BY <1>1, <1>2 DEF OverPipes!ServerCreates

(* Who sent the message at hand still waits for it, or was killed.          *)
LEMMA SenderWaits ==
    ASSUME PipeInv, pc[Server] \in {"open", "write"}
    PROVE  /\ msg \in Msg /\ msg.sender \in Client
           /\ pc[msg.sender] = "killed" \/ msg.sender \in linked \cap owned
<1>1. msg \in Msg /\ msg.sender \in Client /\ AtHand = {msg}
  BY Senders DEF PipeInv, PipeTypes, AtHand
<1>2. msg.sender \in Asking
  BY <1>1 DEF PipeInv, Outstanding, Pending
<1> QED BY <1>1, <1>2 DEF Asking, PipeInv, FifosKept

(* The server opens the fifo of the sender, or ends without it.             *)
LEMMA PipeOpens ==
    ASSUME PipeInv, OverPipes!open_client_fifo
    PROVE  PipeInv'
<1> USE Channels, NothingEmptied
<1> USE DEF PipePcs
<1>1. pc[Server] = "open" /\ UNCHANGED <<linked, msg, try, replies>>
      /\ linked \subseteq Chan /\ owned \subseteq Chan
  BY DEF OverPipes!open_client_fifo, PipeInv, PipeTypes
<1>2. CASE pc' = [pc EXCEPT ![Server] = "write"] /\ UNCHANGED <<owned, queue>>
  BY <1>1, <1>2, PipeMoves
<1>3. CASE msg.sender \notin linked /\ pc' = [pc EXCEPT ![Server] = "done"] /\ OverPipes!Closes(requests)
  <2>1. SomeoneWasKilled
    BY <1>1, <1>3, SenderWaits DEF SomeoneWasKilled
  <2>2. queue' = Emptied(queue, {requests}) /\ owned' = owned \ {requests}
    BY <1>3, ClosesEmpties
  <2> QED BY <1>1, <1>3, <2>1, <2>2, PipeMoves
<1> QED BY <1>2, <1>3 DEF OverPipes!open_client_fifo, OverPipes!Go

(* The server reads the oldest request.                                     *)
LEMMA PipeServerReads ==
    ASSUME PipeInv, OverPipes!ServerReads
    PROVE  PipeInv'
<1> USE Channels
<1>1. /\ pc[Server] = "read" /\ queue[requests] # <<>> /\ msg' = Head(queue[requests])
      /\ pc' = [pc EXCEPT ![Server] = "open"] /\ UNCHANGED <<linked, owned, try, replies>>
      /\ queue' = With(queue, requests, Tail(queue[requests]))
  BY DEF OverPipes!ServerReads, OverPipes!Go, With
<1>2. pc' \in [Proc -> PipePcs] /\ pc'[Server] = "open" /\ \A c \in Client : pc'[c] = pc[c]
  BY <1>1 DEF PipeInv, PipeTypes, PipePcs
<1>3. queue[requests] \in Seq(Msg)
  BY DEF PipeInv, Outstanding
<1>4. PipeTypes'
  BY <1>1, <1>2, <1>3 DEF PipeInv, PipeTypes
<1>5. Outstanding(queue', AtHand', Asking', try')
  <2>1. Asking' = Asking /\ try' = try
    BY <1>1, <1>2 DEF Asking
  <2>2. AtHand' = {Head(queue[requests])} /\ AtHand = {}
    BY <1>1, <1>2 DEF AtHand
  <2>3. Outstanding(queue, {}, Asking, try)
    BY <2>2 DEF PipeInv
  <2>4. Outstanding(With(queue, requests, Tail(queue[requests])), {Head(queue[requests])}, Asking, try)
    BY <1>1, <2>3, Takes
  <2> QED BY <1>1, <2>1, <2>2, <2>4
<1>6. RepliesSoFar' /\ FifosKept'
  BY <1>1, <1>2 DEF PipeInv, RepliesSoFar, FifosKept
<1>7. ServerWorks'
  BY <1>2 DEF ServerWorks
<1> QED BY <1>4, <1>5, <1>6, <1>7 DEF PipeInv

(* The server writes the reply, or is killed by its write.                  *)
LEMMA PipeServerWrites ==
    ASSUME PipeInv, OverPipes!ServerWrites
    PROVE  PipeInv'
<1> USE Channels
<1>1. /\ pc[Server] = "write" /\ UNCHANGED <<linked, msg, try, replies>>
      /\ msg \in Msg /\ msg.sender \in Client
  BY SenderWaits DEF OverPipes!ServerWrites
<1>2. CASE /\ queue' = [queue EXCEPT ![msg.sender] = Append(queue[msg.sender], msg)]
           /\ pc' = [pc EXCEPT ![Server] = "read"] /\ owned' = owned
  <2>1. pc' \in [Proc -> PipePcs] /\ pc'[Server] = "read" /\ \A c \in Client : pc'[c] = pc[c]
    BY <1>2 DEF PipeInv, PipeTypes, PipePcs
  <2>2. PipeTypes'
    BY <1>1, <1>2, <2>1 DEF PipeInv, PipeTypes
  <2>3. Outstanding(queue', AtHand', Asking', try')
    <3>1. Asking' = Asking /\ AtHand' = {} /\ AtHand = {msg} /\ try' = try
      BY <1>1, <2>1 DEF Asking, AtHand
    <3>2. Outstanding(queue, {msg}, Asking, try)
      BY <3>1 DEF PipeInv
    <3>3. queue' = With(queue, msg.sender, Append(queue[msg.sender], msg))
      BY <1>2 DEF With
    <3>4. Outstanding(With(queue, msg.sender, Append(queue[msg.sender], msg)), {}, Asking, try)
      BY <1>1, <3>2, Answers
    <3> QED BY <3>1, <3>3, <3>4
  <2>4. RepliesSoFar' /\ FifosKept'
    BY <1>1, <1>2, <2>1 DEF PipeInv, RepliesSoFar, FifosKept
  <2>5. ServerWorks'
    BY <2>1 DEF ServerWorks
  <2> QED BY <2>2, <2>3, <2>4, <2>5 DEF PipeInv
<1>3. CASE /\ msg.sender \notin owned /\ pc' = [pc EXCEPT ![Server] = "dead"]
           /\ OverPipes!Closes(requests)
  <2>1. SomeoneWasKilled
    BY <1>1, <1>3, SenderWaits DEF SomeoneWasKilled
  <2>2. queue' = Emptied(queue, {requests}) /\ owned' = owned \ {requests}
    BY <1>3, ClosesEmpties
  <2> QED BY <1>1, <1>3, <2>1, <2>2, PipeMoves DEF PipeInv, PipeTypes, PipePcs
<1> QED BY <1>2, <1>3 DEF OverPipes!ServerWrites, OverPipes!Go

(* The steps of a client that send and read nothing.                        *)
LEMMA PipeClientMoves ==
    ASSUME PipeInv, NEW c \in Client,
           \/ OverPipes!open_server_fifo(c) \/ OverPipes!ClientCreates(c)
           \/ OverPipes!ClientCloses(c) \/ OverPipes!ClientUnlinks(c) \/ OverPipes!Killed(c)
    PROVE  PipeInv'
<1> USE Channels, NothingEmptied
<1> USE DEF PipePcs
<1>0. linked \subseteq Chan /\ owned \subseteq Chan
  BY DEF PipeInv, PipeTypes
<1>1. CASE OverPipes!open_server_fifo(c)
  <2>1. PICK l \in {"done", "mkfifo"} : pc[c] = "start" /\ pc' = [pc EXCEPT ![c] = l]
    BY <1>1 DEF OverPipes!open_server_fifo, OverPipes!Go
  <2>2. UNCHANGED <<linked, owned, queue, msg, try, replies>>
    BY <1>1 DEF OverPipes!open_server_fifo
  <2> QED BY <1>0, <2>1, <2>2, PipeMoves
<1>2. CASE OverPipes!Makes(c, c, "mkfifo")
  <2>1. /\ pc[c] = "mkfifo" /\ pc' = [pc EXCEPT ![c] = "create"]
        /\ linked' = linked \cup {c} /\ UNCHANGED <<owned, queue, msg, try, replies>>
    BY <1>2 DEF OverPipes!Makes, OverPipes!Go
  <2> QED BY <1>0, <2>1, PipeMoves
<1>3. CASE OverPipes!Opens(c, c, "loop")
  <2>1. /\ pc[c] = "create" /\ pc' = [pc EXCEPT ![c] = "loop"]
        /\ owned' = owned \cup {c} /\ UNCHANGED <<linked, queue, msg, try, replies>>
    BY <1>3 DEF OverPipes!Opens, OverPipes!Go
  <2>2. c \in linked
    BY <2>1 DEF PipeInv, FifosKept
  <2> QED BY <1>0, <2>1, <2>2, PipeMoves
<1>4. CASE OverPipes!ClientCloses(c)
  <2>1. /\ pc[c] = "loop" /\ pc' = [pc EXCEPT ![c] = "unlink"] /\ OverPipes!Closes(c)
        /\ UNCHANGED <<linked, msg, try, replies>>
    BY <1>4 DEF OverPipes!ClientCloses, OverPipes!Go
  <2>2. queue' = Emptied(queue, {c}) /\ owned' = owned \ {c} /\ c \in linked
    BY <2>1, ClosesEmpties DEF PipeInv, FifosKept
  <2> QED BY <1>0, <2>1, <2>2, PipeMoves
<1>5. CASE OverPipes!ClientUnlinks(c)
  <2>1. /\ pc[c] = "unlink" /\ pc' = [pc EXCEPT ![c] = "done"] /\ linked' = linked \ {c}
        /\ UNCHANGED <<owned, queue, msg, try, replies>>
    BY <1>5 DEF OverPipes!ClientUnlinks, OverPipes!Go
  <2> QED BY <1>0, <2>1, PipeMoves
<1>6. CASE OverPipes!Killed(c)
  <2>1. /\ pc[c] # "killed" /\ pc' = [pc EXCEPT ![c] = "killed"] /\ OverPipes!Closes(c)
        /\ UNCHANGED <<linked, msg, try, replies>>
    BY <1>6 DEF OverPipes!Killed, OverPipes!Go
  <2>2. queue' = Emptied(queue, {c}) /\ owned' = owned \ {c}
    BY <2>1, ClosesEmpties
  <2> QED BY <1>0, <2>1, <2>2, PipeMoves
<1> QED BY <1>1, <1>2, <1>3, <1>4, <1>5, <1>6 DEF OverPipes!ClientCreates

(* A client writes its request, or is killed by its write.                  *)
LEMMA PipeClientWrites ==
    ASSUME PipeInv, NEW c \in Client, OverPipes!ClientWrites(c)
    PROVE  PipeInv'
<1> USE Channels
<1> DEFINE m == OverPipes!Request(c, try[c] + 1)
<1>1. /\ pc[c] = "loop" /\ try[c] < NITERS /\ try[c] \in 0..NITERS /\ NITERS \in Nat
      /\ UNCHANGED <<linked, msg, replies>> /\ linked \subseteq Chan /\ owned \subseteq Chan
  BY EchoAssumption DEF OverPipes!ClientWrites, PipeInv, PipeTypes
<1>2. CASE /\ try' = [try EXCEPT ![c] = try[c] + 1]
           /\ queue' = [queue EXCEPT ![requests] = Append(queue[requests], OverPipes!Request(c, try'[c]))]
           /\ pc' = [pc EXCEPT ![c] = "reply"] /\ owned' = owned
  <2>1. /\ try'[c] = try[c] + 1 /\ try'[c] \in 1..NITERS /\ try' \in [Client -> 0..NITERS]
        /\ \A d \in Client \ {c} : try'[d] = try[d]
    BY <1>1, <1>2 DEF PipeInv, PipeTypes
  <2>2. m = Last(c, try') /\ m \in Msg
    <3>1. m = InMemory!Request(c, try'[c])
      BY <2>1, Senders
    <3> QED BY <2>1, <3>1, Senders, LastIsARequest
  <2>3. queue' = With(queue, requests, Append(queue[requests], m))
    BY <1>2, <2>1 DEF With
  <2> HIDE DEF m
  <2>4. pc' \in [Proc -> PipePcs] /\ pc'[c] = "reply" /\ \A q \in Proc \ {c} : pc'[q] = pc[q]
    BY <1>2 DEF PipeInv, PipeTypes, PipePcs
  <2>5. PipeTypes'
    BY <1>1, <1>2, <2>1, <2>4 DEF PipeInv, PipeTypes
  <2>6. Outstanding(queue', AtHand', Asking', try')
    <3>1. /\ AtHand' = AtHand /\ AtHand \subseteq Msg
          /\ c \notin Asking /\ Asking' = Asking \cup {c}
      BY <1>1, <2>4 DEF Asking, AtHand, PipeInv, PipeTypes
    <3>2. Outstanding(queue, AtHand, Asking, try)
      BY DEF PipeInv
    <3>3. \A d \in Client : d # c => try'[d] = try[d]
      BY <2>1
    <3>4. Outstanding(With(queue, requests, Append(queue[requests], m)), AtHand, Asking \cup {c}, try')
      BY <2>2, <3>1, <3>2, <3>3, Sends
    <3> QED BY <2>3, <3>1, <3>4
  <2>7. RepliesSoFar'
    <3> SUFFICES ASSUME NEW d \in Client
                 PROVE  /\ \A i \in 1..Len(replies[d]) : replies[d][i] = InMemory!Request(d, i)
                        /\ Len(replies[d]) <= try'[d]
                        /\ pc'[d] \notin {"reply", "killed", "cut"} => Len(replies[d]) = try'[d]
                        /\ pc'[d] = "reply" => Len(replies[d]) + 1 = try'[d]
      BY <1>1 DEF RepliesSoFar
    <3>1. CASE d = c
      BY <1>1, <2>1, <2>4, <3>1 DEF PipeInv, RepliesSoFar
    <3>2. CASE d # c
      BY <2>1, <2>4, <3>2 DEF PipeInv, RepliesSoFar
    <3> QED BY <3>1, <3>2
  <2>8. FifosKept' /\ ServerWorks'
    BY <1>1, <1>2, <2>4 DEF PipeInv, FifosKept, ServerWorks, SomeoneWasKilled
  <2> QED BY <2>5, <2>6, <2>7, <2>8 DEF PipeInv
<1>3. CASE OverPipes!Closes(c) /\ pc' = [pc EXCEPT ![c] = "killed"] /\ try' = try
  <2>1. queue' = Emptied(queue, {c}) /\ owned' = owned \ {c}
    BY <1>3, ClosesEmpties
  <2> QED BY <1>1, <1>3, <2>1, PipeMoves DEF PipePcs
<1> QED BY <1>2, <1>3 DEF OverPipes!ClientWrites, OverPipes!Go

(* A client reads the reply to the request it wrote last.                   *)
LEMMA PipeClientReads ==
    ASSUME PipeInv, NEW c \in Client, OverPipes!ClientReads(c)
    PROVE  PipeInv'
<1> USE Channels
<1>1. /\ pc[c] = "reply" /\ queue[c] # <<>> /\ pc' = [pc EXCEPT ![c] = "loop"]
      /\ replies' = [replies EXCEPT ![c] = Append(replies[c], Head(queue[c]))]
      /\ queue' = With(queue, c, Tail(queue[c]))
      /\ UNCHANGED <<linked, owned, msg, try>>
  BY DEF OverPipes!ClientReads, OverPipes!Go, With
<1>2. pc' \in [Proc -> PipePcs] /\ pc'[c] = "loop" /\ \A q \in Proc \ {c} : pc'[q] = pc[q]
  BY <1>1 DEF PipeInv, PipeTypes, PipePcs
<1>3. /\ Head(queue[c]) = Last(c, try) /\ Last(c, try) \in Msg
      /\ Outstanding(With(queue, c, Tail(queue[c])), AtHand, Asking \ {c}, try)
  <2>1. Outstanding(queue, AtHand, Asking, try) /\ queue[c] # <<>> /\ AtHand \subseteq Msg
    BY <1>1 DEF PipeInv, PipeTypes, AtHand
  <2>2. HasRead(queue, AtHand, Asking, try, With(queue, c, Tail(queue[c])), c)
    BY ONLY <2>1, c \in Client, ReadsReply
  <2> QED BY ONLY <2>2 DEF HasRead
<1>4. /\ replies' \in [Client -> Seq(Msg)] /\ replies'[c] = Append(replies[c], Last(c, try))
      /\ \A d \in Client \ {c} : replies'[d] = replies[d]
  BY <1>1, <1>3 DEF PipeInv, PipeTypes
<1>5. PipeTypes'
  BY <1>1, <1>2, <1>4 DEF PipeInv, PipeTypes
<1>6. Outstanding(queue', AtHand', Asking', try')
  <2>1. AtHand' = AtHand /\ Asking' = Asking \ {c}
    BY <1>1, <1>2 DEF Asking, AtHand
  <2> QED BY <1>1, <1>3, <2>1
<1>7. RepliesSoFar'
  <2> SUFFICES ASSUME NEW d \in Client
               PROVE  /\ \A i \in 1..Len(replies'[d]) : replies'[d][i] = InMemory!Request(d, i)
                      /\ Len(replies'[d]) <= try[d]
                      /\ pc'[d] \notin {"reply", "killed", "cut"} => Len(replies'[d]) = try[d]
                      /\ pc'[d] = "reply" => Len(replies'[d]) + 1 = try[d]
    BY <1>1 DEF RepliesSoFar
  <2>1. CASE d = c
    <3>1. /\ Len(replies[c]) + 1 = try[c] /\ replies[c] \in Seq(Msg) /\ try[c] \in Nat
          /\ \A i \in 1..Len(replies[c]) : replies[c][i] = InMemory!Request(c, i)
      BY <1>1, EchoAssumption DEF PipeInv, PipeTypes, RepliesSoFar
    <3>2. Last(c, try) = InMemory!Request(c, try[c])
      BY LastIsARequest
    <3>3. /\ Len(replies'[c]) = try[c] /\ replies'[c][try[c]] = Last(c, try)
          /\ \A i \in 1..Len(replies[c]) : replies'[c][i] = replies[c][i]
      BY <1>3, <1>4, <3>1
    <3>4. ASSUME NEW i \in 1..try[c] PROVE replies'[c][i] = InMemory!Request(c, i)
      <4>1. i = try[c] \/ i \in 1..Len(replies[c])
        BY <3>1
      <4> QED BY <3>1, <3>2, <3>3, <4>1
    <3>5. /\ \A i \in 1..Len(replies'[c]) : replies'[c][i] = InMemory!Request(c, i)
          /\ Len(replies'[c]) <= try[c]
      BY <3>1, <3>3, <3>4
    <3> QED BY <1>2, <2>1, <3>3, <3>5
  <2>2. CASE d # c
    <3>1. replies'[d] = replies[d] /\ pc'[d] = pc[d]
      BY <1>2, <1>4, <2>2 DEF PipeInv, PipeTypes
    <3> QED BY <3>1 DEF PipeInv, RepliesSoFar
  <2> QED BY <2>1, <2>2
<1>8. FifosKept' /\ ServerWorks'
  BY <1>1, <1>2 DEF PipeInv, FifosKept, ServerWorks, SomeoneWasKilled
<1> QED BY <1>5, <1>6, <1>7, <1>8 DEF PipeInv

(* Every step of the service over pipes.                                    *)
LEMMA PipeStep ==
    ASSUME PipeInv, OverPipes!Next
    PROVE  PipeInv'
<1>1. CASE OverPipes!ServerCreates
  BY <1>1, PipeServerCreates
<1>2. CASE OverPipes!ServerReads
  BY <1>2, PipeServerReads
<1>3. CASE OverPipes!open_client_fifo
  BY <1>3, PipeOpens
<1>4. CASE OverPipes!ServerWrites
  BY <1>4, PipeServerWrites
<1>5. ASSUME NEW c \in Client, OverPipes!ClientWrites(c) PROVE PipeInv'
  BY <1>5, PipeClientWrites
<1>6. ASSUME NEW c \in Client, OverPipes!ClientReads(c) PROVE PipeInv'
  BY <1>6, PipeClientReads
<1>7. ASSUME NEW c \in Client,
             \/ OverPipes!open_server_fifo(c) \/ OverPipes!ClientCreates(c)
             \/ OverPipes!ClientCloses(c) \/ OverPipes!ClientUnlinks(c) \/ OverPipes!Killed(c)
      PROVE  PipeInv'
  BY <1>7, PipeClientMoves
<1> QED BY <1>1, <1>2, <1>3, <1>4, <1>5, <1>6, <1>7
        DEF OverPipes!Next, OverPipes!ServerStep, OverPipes!ClientStep

-----------------------------------------------------------------------------
(* Both services, whichever runs.                                           *)
EchoInv == (kind = "memory" => MemInv) /\ (kind = "fifo" => PipeInv)

(* The invariant of either service holds at the start.                      *)
LEMMA EchoInit ==
    ASSUME Init
    PROVE  EchoInv
BY MemInit, PipeInit DEF Init, EchoInv

(* Nothing moves in a service that does not take a step.                    *)
LEMMA EchoStutters ==
    ASSUME EchoInv, UNCHANGED allVars
    PROVE  EchoInv' /\ RequestsStay
<1>1. /\ UNCHANGED <<kind, pc, linked, try, replies, received, iput, iget, size, buf, op>>
      /\ UNCHANGED <<owned, queue, msg>>
  BY DEF allVars, serviceVars, chanVars, pipeVars
<1>2. RequestsStay
  BY <1>1 DEF RequestsStay, InMemory!Contents
<1>3. RepliesSoFar => RepliesSoFar'
  BY <1>1 DEF RepliesSoFar
<1>4. MemInv => MemInv'
  <2> SUFFICES ASSUME MemInv PROVE MemInv'
    OBVIOUS
  <2>1. /\ InMem' = InMem /\ (\A f \in Chan : Ring(f)')
        /\ iput' \in [Chan -> Nat] /\ iget' \in [Chan -> Nat] /\ size' \in [Chan -> Nat]
        /\ DOMAIN buf' = Chan
    BY <1>1, StillRings DEF MemInv
  <2>2. MemTypes'
    BY <1>1, <2>1 DEF MemInv, MemTypes
  <2>3. ServerCalls' /\ ClientCalls' /\ NamesKept'
    BY <1>1 DEF MemInv, ServerCalls, ClientCalls, NamesKept
  <2>4. Busy' = Busy /\ Awaiting' = Awaiting
    BY <1>1 DEF Busy, Awaiting, AwaitsReply
  <2>5. Outstanding(InMem', Busy', Awaiting', try')
    BY <1>1, <2>1, <2>4 DEF MemInv
  <2> QED BY <1>3, <2>2, <2>3, <2>5 DEF MemInv
<1>5. PipeInv => PipeInv'
  <2> SUFFICES ASSUME PipeInv PROVE PipeInv'
    OBVIOUS
  <2>1. PipeTypes' /\ FifosKept' /\ ServerWorks'
    BY <1>1 DEF PipeInv, PipeTypes, FifosKept, ServerWorks, SomeoneWasKilled
  <2>2. AtHand' = AtHand /\ Asking' = Asking
    BY <1>1 DEF AtHand, Asking
  <2>3. Outstanding(queue', AtHand', Asking', try')
    BY <1>1, <2>2 DEF PipeInv
  <2> QED BY <1>3, <2>1, <2>3 DEF PipeInv
<1> QED BY <1>1, <1>2, <1>4, <1>5 DEF EchoInv

(* Every step keeps it; the requests in memory move as in a FIFO.           *)
LEMMA EchoStep ==
    ASSUME EchoInv, [Next]_allVars
    PROVE  EchoInv' /\ kind' = kind /\ (kind = "memory" => RequestsMove)
<1>1. CASE UNCHANGED allVars
  BY <1>1, EchoStutters DEF allVars, RequestsMove
<1>2. CASE Next
  <2>1. kind' = kind
    BY <1>2 DEF Next, Keeps
  <2>2. CASE kind = "memory"
    <3>1. InMemory!Next
      BY <1>2, <2>2 DEF Next
    <3> QED BY <2>1, <2>2, <3>1, MemStep DEF EchoInv
  <2>3. CASE kind = "fifo"
    <3>1. OverPipes!Next
      BY <1>2, <2>3 DEF Next
    <3> QED BY <2>1, <2>3, <3>1, PipeStep DEF EchoInv
  <2> QED BY <2>1, <2>2, <2>3 DEF EchoInv
<1> QED BY <1>1, <1>2

(* The inductive invariant of the service that runs.                        *)
THEOREM EchoInvHolds == Spec => []EchoInv
<1>1. Init => EchoInv
  BY EchoInit
<1>2. EchoInv /\ [Next]_allVars => EchoInv'
  BY EchoStep
<1> QED BY <1>1, <1>2, PTL DEF Spec

(* Whatever clients are killed, and wherever: a client never reads the      *)
(* reply to another's request, a stale one or one twice.  Its request is    *)
(* in one place at most, and a channel of the client that is left over has  *)
(* nobody who reads it (RepliesMatch).                                      *)
THEOREM EveryReplyIsOnesOwn == Spec => []RepliesMatch
<1>1. EchoInv => RepliesMatch
  BY MemInvImplies, PipeInvImplies DEF EchoInv, RepliesMatch
<1> QED BY <1>1, EchoInvHolds, PTL

(* The server in memory never ends and never waits for space: a channel it  *)
(* answers on has its name and is empty, whoever was killed meanwhile; and  *)
(* over pipes only a death stops it (ServerSurvives).                       *)
THEOREM DeathsDoNotStopTheService == Spec => []ServerSurvives
<1>1. EchoInv => ServerSurvives
  BY MemInvImplies, PipeInvImplies DEF EchoInv, ServerSurvives
<1> QED BY <1>1, EchoInvHolds, PTL

(* The ring of requests with its mutex and two condition variables          *)
(* implements the bounded FIFO, for any capacity, number of clients and     *)
(* tries: the detailed channel refines BoundedFifo (RequestsAreFifo).       *)
THEOREM RequestsReachTheServerInOrder == Spec => RequestsAreFifo
<1>1. Init => RequestChannel!FifoInit
  <2> SUFFICES ASSUME Init PROVE RequestChannel!FifoInit
    OBVIOUS
  <2>1. CASE kind = "memory"
    <3>1. InMemory!Init
      BY <2>1 DEF Init
    <3>2. size[requests] = 0 /\ received = <<>>
      BY <3>1, Channels DEF InMemory!Init, InMemory!ChanInit
    <3>3. InMemory!Contents(requests) = <<>>
      BY <3>2 DEF InMemory!Contents
    <3> QED BY <2>1, <3>2, <3>3 DEF RequestChannel!FifoInit
  <2>2. CASE kind # "memory"
    BY <2>2 DEF RequestChannel!FifoInit
  <2> QED BY <2>1, <2>2
<1>2. EchoInv /\ [Next]_allVars => [RequestChannel!FifoNext]_(RequestChannel!fifoVars)
  <2> SUFFICES ASSUME EchoInv, [Next]_allVars
               PROVE  RequestChannel!FifoNext \/ UNCHANGED RequestChannel!fifoVars
    OBVIOUS
  <2>1. kind' = kind /\ (kind = "memory" => RequestsMove)
    BY EchoStep
  <2>2. CASE kind # "memory"
    BY <2>1, <2>2 DEF RequestChannel!fifoVars
  <2>3. CASE kind = "memory"
    <3>1. CASE RequestsStay
      BY <2>1, <2>3, <3>1 DEF RequestsStay, RequestChannel!fifoVars
    <3>2. CASE \E m \in Msg :
                 /\ Len(InMemory!Contents(requests)) < Capacity[requests]
                 /\ InMemory!Contents(requests)' = Append(InMemory!Contents(requests), m)
                 /\ received' = received
      BY <2>1, <2>3, <3>2 DEF RequestChannel!FifoNext, RequestChannel!Put
    <3>3. CASE /\ InMemory!Contents(requests) # <<>>
               /\ received' = Append(received, Head(InMemory!Contents(requests)))
               /\ InMemory!Contents(requests)' = Tail(InMemory!Contents(requests))
      BY <2>1, <2>3, <3>3 DEF RequestChannel!FifoNext, RequestChannel!Get
    <3> QED BY <2>1, <2>3, <3>1, <3>2, <3>3 DEF RequestsMove
  <2> QED BY <2>2, <2>3
<1>3. Spec => Init /\ [][Next]_allVars
  BY PTL DEF Spec
<1> QED BY <1>1, <1>2, <1>3, EchoInvHolds, PTL DEF RequestsAreFifo, RequestChannel!FifoSpec

-----------------------------------------------------------------------------
(* The small programs.  Sequences of anything, by what they hold.           *)
Elements(s) == {s[i] : i \in 1..Len(s)}
IsSeq(s) == s \in Seq(Elements(s))

LEMMA SeqIsSeq ==
    ASSUME NEW S, NEW s \in Seq(S)
    PROVE  IsSeq(s) /\ Len(s) \in Nat
<1>1. Len(s) \in Nat /\ s = [i \in 1..Len(s) |-> s[i]]
  OBVIOUS
<1>2. \A i \in 1..Len(s) : s[i] \in Elements(s)
  BY DEF Elements
<1> QED BY <1>1, <1>2 DEF IsSeq

LEMMA SeqAppend ==
    ASSUME NEW s, NEW e, IsSeq(s)
    PROVE  /\ IsSeq(Append(s, e)) /\ Len(s) \in Nat /\ Len(Append(s, e)) = Len(s) + 1
           /\ \A i \in 1..Len(s) : Append(s, e)[i] = s[i]
           /\ Append(s, e)[Len(s) + 1] = e
<1> DEFINE S == Elements(s) \cup {e}
<1>1. s \in Seq(S) /\ e \in S
  BY DEF IsSeq
<1> HIDE DEF S
<1>2. Append(s, e) \in Seq(S)
  BY <1>1
<1>3. IsSeq(Append(s, e))
  BY <1>2, SeqIsSeq
<1> QED BY <1>1, <1>3, AppendProperties, LenProperties

LEMMA SeqCat ==
    ASSUME NEW s, NEW r, IsSeq(s), IsSeq(r)
    PROVE  /\ IsSeq(s \o r) /\ Len(s) \in Nat /\ Len(r) \in Nat
           /\ Len(s \o r) = Len(s) + Len(r)
           /\ \A i \in 1..Len(s \o r) : (s \o r)[i] = IF i <= Len(s) THEN s[i] ELSE r[i - Len(s)]
<1> DEFINE S == Elements(s) \cup Elements(r)
<1>1. s \in Seq(S) /\ r \in Seq(S)
  BY DEF IsSeq
<1> HIDE DEF S
<1>2. s \o r \in Seq(S)
  BY <1>1
<1>3. IsSeq(s \o r)
  BY <1>2, SeqIsSeq
<1> QED BY <1>1, <1>3, ConcatProperties, LenProperties

LEMMA SeqTail ==
    ASSUME NEW s, IsSeq(s), s # <<>>
    PROVE  /\ IsSeq(Tail(s)) /\ Len(s) \in Nat \ {0} /\ Len(Tail(s)) = Len(s) - 1
           /\ \A i \in 1..Len(s)-1 : Tail(s)[i] = s[i + 1]
           /\ Head(s) = s[1]
<1> DEFINE S == Elements(s)
<1>1. s \in Seq(S)
  BY DEF IsSeq
<1> HIDE DEF S
<1>2. Tail(s) \in Seq(S)
  BY <1>1
<1>3. IsSeq(Tail(s))
  BY <1>2, SeqIsSeq
<1> QED BY <1>1, <1>3, HeadTailProperties, LenProperties, EmptySeq

LEMMA NothingIsSeq == IsSeq(<<>>) /\ Len(<<>>) = 0
<1>1. <<>> \in Seq({})
  OBVIOUS
<1> QED BY <1>1, SeqIsSeq

(* The elements of short sequences.                                         *)
LEMMA One ==
    ASSUME NEW a
    PROVE  /\ IsSeq(<<a>>) /\ Len(<<a>>) = 1
           /\ <<a>>[1] = a
<1>1. <<a>> \in Seq({a})
  OBVIOUS
<1> QED BY <1>1, SeqIsSeq

LEMMA Two ==
    ASSUME NEW a, NEW b
    PROVE  /\ IsSeq(<<a, b>>) /\ Len(<<a, b>>) = 2
           /\ <<a, b>>[1] = a /\ <<a, b>>[2] = b
<1>1. <<a, b>> \in Seq({a, b})
  OBVIOUS
<1> QED BY <1>1, SeqIsSeq

LEMMA Three ==
    ASSUME NEW a, NEW b, NEW c
    PROVE  /\ IsSeq(<<a, b, c>>) /\ Len(<<a, b, c>>) = 3
           /\ <<a, b, c>>[1] = a /\ <<a, b, c>>[2] = b /\ <<a, b, c>>[3] = c
<1>1. <<a, b, c>> \in Seq({a, b, c})
  OBVIOUS
<1> QED BY <1>1, SeqIsSeq

LEMMA Four ==
    ASSUME NEW a, NEW b, NEW c, NEW d
    PROVE  /\ IsSeq(<<a, b, c, d>>) /\ Len(<<a, b, c, d>>) = 4
           /\ LET s == <<a, b, c, d>> IN
                 s[1] = a /\ s[2] = b /\ s[3] = c /\ s[4] = d
<1>1. <<a, b, c, d>> \in Seq({a, b, c, d})
  OBVIOUS
<1> QED BY <1>1, SeqIsSeq

LEMMA Five ==
    ASSUME NEW a, NEW b, NEW c, NEW d, NEW e
    PROVE  /\ IsSeq(<<a, b, c, d, e>>) /\ Len(<<a, b, c, d, e>>) = 5
           /\ LET s == <<a, b, c, d, e>> IN
                 s[1] = a /\ s[2] = b /\ s[3] = c /\ s[4] = d /\ s[5] = e
<1>1. <<a, b, c, d, e>> \in Seq({a, b, c, d, e})
  OBVIOUS
<1> QED BY <1>1, SeqIsSeq

LEMMA Eight ==
    ASSUME NEW a, NEW b, NEW c, NEW d, NEW e, NEW g, NEW h, NEW k
    PROVE  /\ IsSeq(<<a, b, c, d, e, g, h, k>>) /\ Len(<<a, b, c, d, e, g, h, k>>) = 8
           /\ LET s == <<a, b, c, d, e, g, h, k>> IN
                 s[1] = a /\ s[2] = b /\ s[3] = c /\ s[4] = d /\ s[5] = e /\ s[6] = g /\ s[7] = h /\ s[8] = k
<1>1. <<a, b, c, d, e, g, h, k>> \in Seq({a, b, c, d, e, g, h, k})
  OBVIOUS
<1> QED BY <1>1, SeqIsSeq

LEMMA Nine ==
    ASSUME NEW a, NEW b, NEW c, NEW d, NEW e, NEW g, NEW h, NEW k, NEW u
    PROVE  /\ IsSeq(<<a, b, c, d, e, g, h, k, u>>) /\ Len(<<a, b, c, d, e, g, h, k, u>>) = 9
           /\ LET s == <<a, b, c, d, e, g, h, k, u>> IN
                 s[1] = a /\ s[2] = b /\ s[3] = c /\ s[4] = d /\ s[5] = e /\ s[6] = g /\ s[7] = h /\ s[8] = k /\ s[9] = u
<1>1. <<a, b, c, d, e, g, h, k, u>> \in Seq({a, b, c, d, e, g, h, k, u})
  OBVIOUS
<1> QED BY <1>1, SeqIsSeq

LEMMA Ten ==
    ASSUME NEW a, NEW b, NEW c, NEW d, NEW e, NEW g, NEW h, NEW k, NEW u, NEW v
    PROVE  /\ IsSeq(<<a, b, c, d, e, g, h, k, u, v>>) /\ Len(<<a, b, c, d, e, g, h, k, u, v>>) = 10
           /\ LET s == <<a, b, c, d, e, g, h, k, u, v>> IN
                 s[1] = a /\ s[2] = b /\ s[3] = c /\ s[4] = d /\ s[5] = e /\ s[6] = g /\ s[7] = h /\ s[8] = k /\ s[9] = u /\ s[10] = v
<1>1. <<a, b, c, d, e, g, h, k, u, v>> \in Seq({a, b, c, d, e, g, h, k, u, v})
  OBVIOUS
<1> QED BY <1>1, SeqIsSeq

(* Induction on the natural numbers, over a set rather than a predicate.    *)
LessThan == {ss \in Nat \X Nat : ss[1] < ss[2]}

(* The order of the natural numbers is well founded.                        *)
LEMMA LessThanIsWellFounded == IsWellFoundedOn(LessThan, Nat)
BY NatLessThanWellFounded, Zenon DEF OpToRel, LessThan

(* A set with 0 that has with each number the next has them all.            *)
LEMMA SetInduction ==
    ASSUME NEW S, 0 \in S, \A k \in Nat : k \in S => k+1 \in S
    PROVE  Nat \subseteq S
<1> DEFINE T == Nat \ S
<1> SUFFICES ASSUME T # {} PROVE FALSE
  OBVIOUS
<1>1. PICK k \in T : \A m \in T : ~(<<m, k>> \in LessThan)
  <2> T \subseteq Nat
    OBVIOUS
  <2> HIDE DEF T
  <2> QED BY LessThanIsWellFounded, WFMin
<1>2. k # 0 /\ k \in Nat
  OBVIOUS
<1>3. k-1 \in Nat /\ k-1 < k /\ (k-1)+1 = k
  BY <1>2
<1>4. <<k-1, k>> \in LessThan
  BY <1>2, <1>3 DEF LessThan
<1> QED BY <1>1, <1>3, <1>4

(* A set of numbers has a least one.                                        *)
LEMMA Smallest ==
    ASSUME NEW S, S \subseteq Nat, S # {}
    PROVE  \E m \in S : \A k \in S : m <= k
<1>2. PICK m \in S : \A k \in S : ~(<<k, m>> \in LessThan)
  BY LessThanIsWellFounded, WFMin
<1>3. ASSUME NEW k \in S PROVE m <= k
  <2> m \in Nat /\ k \in Nat /\ ~(<<k, m>> \in LessThan)
    BY <1>2
  <2> QED BY DEF LessThan
<1> QED BY <1>3

(* f puts the first m sequences of ss together, one after the other.        *)
IsFlat(ss, m, f) == f = [i \in 1..m |-> IF i = 1 THEN ss[i] ELSE f[i-1] \o ss[i]]

(* What is read at i of the sequences put together is in one of them.       *)
LEMMA FlattenHolds ==
    ASSUME NEW ss, IsSeq(ss), \A i \in 1..Len(ss) : IsSeq(ss[i])
    PROVE  /\ IsSeq(Programs!FlattenSeq(ss))
           /\ \A k \in 1..Len(Programs!FlattenSeq(ss)) :
                 \E i \in 1..Len(ss) : \E j \in 1..Len(ss[i]) :
                    Programs!FlattenSeq(ss)[k] = ss[i][j]
<1> DEFINE top == Len(ss)
           all == 1..top
           From(s) == IsSeq(s) /\ \A k \in 1..Len(s) : \E i \in all : \E j \in 1..Len(ss[i]) : s[k] = ss[i][j]
           flatten[i \in all] == IF i = 1 THEN ss[i] ELSE flatten[i-1] \o ss[i]
<1>1. top \in Nat
  BY DEF IsSeq
<1>2. CASE top = 0
  <2>1. Programs!FlattenSeq(ss) = ss
    BY <1>2 DEF Programs!FlattenSeq
  <2> QED BY <1>2, <2>1
<1>3. CASE top # 0
  <2> DEFINE S == {m \in Nat : \E f : IsFlat(ss, m, f)}
  <2>1. 0 \in S
    <3> DEFINE f == [i \in 1..0 |-> ss[i]]
    <3>1. f = [i \in 1..0 |-> IF i = 1 THEN ss[i] ELSE f[i-1] \o ss[i]]
      OBVIOUS
    <3> HIDE DEF f
    <3> QED BY <3>1 DEF IsFlat
  <2>2. ASSUME NEW m \in Nat, m \in S PROVE m+1 \in S
    <3>1. PICK f : f = [i \in 1..m |-> IF i = 1 THEN ss[i] ELSE f[i-1] \o ss[i]]
      BY <2>2 DEF IsFlat
    <3> DEFINE last == IF m = 0 THEN ss[m+1] ELSE f[m] \o ss[m+1]
               g == [i \in 1..m+1 |-> IF i \in 1..m THEN f[i] ELSE last]
    <3>2. ASSUME NEW i \in 1..m+1 PROVE g[i] = IF i = 1 THEN ss[i] ELSE g[i-1] \o ss[i]
      <4>1. CASE i \in 1..m
        <5>1. g[i] = f[i] /\ (i # 1 => g[i-1] = f[i-1])
          BY <4>1
        <5>2. f[i] = IF i = 1 THEN ss[i] ELSE f[i-1] \o ss[i]
          BY <3>1, <4>1
        <5> QED BY <5>1, <5>2
      <4>2. CASE i = m+1
        <5>1. g[i] = last /\ (m # 0 => g[i-1] = f[m])
          BY <4>2
        <5> QED BY <4>2, <5>1
      <4> QED BY <4>1, <4>2
    <3>3. g = [i \in 1..m+1 |-> IF i = 1 THEN ss[i] ELSE g[i-1] \o ss[i]]
      BY <3>2
    <3> HIDE DEF g
    <3>4. IsFlat(ss, m+1, g)
      BY <3>3 DEF IsFlat
    <3> QED BY <3>4
  <2>3. top \in S
    <3> HIDE DEF S, top
    <3>1. Nat \subseteq S
      BY <2>1, <2>2, SetInduction
    <3> QED BY <1>1, <3>1
  <2>4. \E f : f = [i \in all |-> IF i = 1 THEN ss[i] ELSE f[i-1] \o ss[i]]
    BY <2>3 DEF IsFlat
  <2>5. flatten = [i \in all |-> IF i = 1 THEN ss[i] ELSE flatten[i-1] \o ss[i]]
    <3> HIDE DEF all
    <3> QED BY <2>4, Zenon
  <2>6. Programs!FlattenSeq(ss) = flatten[top]
    BY <1>3 DEF Programs!FlattenSeq
  <2> HIDE DEF flatten
  <2> DEFINE T == {m \in Nat : m+1 \in all => From(flatten[m+1])}
  <2>7. 0 \in T
    <3>1. CASE 1 \in all
      <4>1. flatten[1] = ss[1]
        BY <2>5, <3>1
      <4>2. IsSeq(ss[1])
        BY <3>1
      <4> QED BY <3>1, <4>1, <4>2
    <3> QED BY <3>1
  <2>8. ASSUME NEW m \in Nat, m \in T PROVE m+1 \in T
    <3> SUFFICES ASSUME m+2 \in all PROVE From(flatten[m+2])
      BY <1>1
    <3> DEFINE a == flatten[m+1]
               b == ss[m+2]
    <3>1. flatten[m+2] = a \o b
      <4>1. m+2 # 1 /\ (m+2)-1 = m+1
        OBVIOUS
      <4> QED BY <2>5, <4>1
    <3>2. From(a) /\ IsSeq(b)
      BY <1>1, <2>8
    <3>3. /\ IsSeq(a \o b) /\ Len(a) \in Nat /\ Len(b) \in Nat /\ Len(a \o b) = Len(a) + Len(b)
          /\ \A k \in 1..Len(a \o b) : (a \o b)[k] = IF k <= Len(a) THEN a[k] ELSE b[k - Len(a)]
      <4> HIDE DEF a, b
      <4> QED BY <3>2, SeqCat
    <3>4. ASSUME NEW k \in 1..Len(a \o b)
          PROVE  \E i \in all : \E j \in 1..Len(ss[i]) : (a \o b)[k] = ss[i][j]
      <4>1. CASE k <= Len(a)
        <5>1. k \in 1..Len(a) /\ (a \o b)[k] = a[k]
          BY <3>3, <4>1
        <5>2. \A d \in 1..Len(a) : \E i \in all : \E j \in 1..Len(ss[i]) : a[d] = ss[i][j]
          BY <3>2
        <5> HIDE DEF a, b, all
        <5> QED BY ONLY <5>1, <5>2
      <4>2. CASE k > Len(a)
        <5>1. k - Len(a) \in 1..Len(b) /\ (a \o b)[k] = b[k - Len(a)]
          <6> HIDE DEF a, b
          <6>1. \A x, y \in Nat : \A j \in 1..(x + y) : j > x => j - x \in 1..y /\ ~(j <= x)
            OBVIOUS
          <6>2. Len(a) \in Nat /\ Len(b) \in Nat /\ k \in 1..(Len(a) + Len(b))
            BY <3>3
          <6>3. k - Len(a) \in 1..Len(b) /\ ~(k <= Len(a))
            BY ONLY <4>2, <6>1, <6>2
          <6> QED BY <3>3, <6>3
        <5> QED BY <5>1
      <4> QED BY <3>3, <4>1, <4>2
    <3>5. From(a \o b)
      <4> HIDE DEF a, b
      <4> QED BY <3>3, <3>4
    <3> HIDE DEF a, b, From
    <3> QED BY <3>1, <3>5
  <2>9. top-1 \in T
    <3> HIDE DEF T, top
    <3>1. Nat \subseteq T
      BY <2>7, <2>8, SetInduction
    <3> QED BY <1>1, <1>3, <3>1
  <2> QED BY <1>1, <1>3, <2>6, <2>9
<1> QED BY <1>2, <1>3

-----------------------------------------------------------------------------
(* Kinds of calls, by what they may put in front of a task's program or     *)
(* give to another task.  A plain call does neither; a line leaves nothing  *)
(* in the buffer of a terminal; a child's call starts nobody.               *)
Plain(c) ==
    /\ c.op \notin {"fork", "create", "clone", "exec", "waitpid", "signal", "read"}
    /\ c.body = <<>> /\ c.bad = <<>> /\ c.refused = NULL
PlainLine(c) == Plain(c) /\ c.newline

Plains(s) == IsSeq(s) /\ \A k \in 1..Len(s) : Plain(s[k])
Lines(s) == IsSeq(s) /\ \A k \in 1..Len(s) : PlainLine(s[k])

OfChild(c) ==
    /\ c.op \notin {"fork", "create", "clone"}
    /\ Plains(c.body) /\ Lines(c.bad)
    /\ c.op \in {"waitpid", "signal"} => Lines(c.body)
    /\ c.refused = NULL \/ Lines(c.refused)
OfChildren(s) == IsSeq(s) /\ \A k \in 1..Len(s) : OfChild(s[k])

OfParent(c) ==
    \/ OfChild(c)
    \/ /\ c.op \in {"fork", "create", "clone"}
       /\ OfChildren(c.body)
       /\ c.refused = NULL \/ Lines(c.refused)

(* After this call the buffer may hold something, or others share it.       *)
Shares(c) == ~c.newline \/ c.op \in {"create", "clone", "read"}

Early(s) == IsSeq(s) /\ \A k \in 1..Len(s) : OfParent(s[k]) /\ ~Shares(s[k])
Late(s) == IsSeq(s) /\ \A k \in 1..Len(s) : OfParent(s[k]) /\ s[k].op # "fork"

(* A program forks before it leaves anything in the buffer.                 *)
ForksEarly(s) ==
    /\ IsSeq(s)
    /\ \A k \in 1..Len(s) : OfParent(s[k])
    /\ \A j, k \in 1..Len(s) : j < k /\ Shares(s[j]) => s[k].op # "fork"

(* What is so of each part is so of both together.                          *)
LEMMA Together ==
    ASSUME NEW s, NEW r
    PROVE  /\ Plains(s) /\ Plains(r) => Plains(s \o r)
           /\ Lines(s) /\ Lines(r) => Lines(s \o r)
           /\ OfChildren(s) /\ OfChildren(r) => OfChildren(s \o r)
           /\ Early(s) /\ Early(r) => Early(s \o r)
           /\ Late(s) /\ Late(r) => Late(s \o r)
           /\ Early(s) /\ ForksEarly(r) => ForksEarly(s \o r)
           /\ ForksEarly(s) /\ Late(r) => ForksEarly(s \o r)
<1> SUFFICES ASSUME IsSeq(s), IsSeq(r)
             PROVE  /\ Plains(s) /\ Plains(r) => Plains(s \o r)
                    /\ Lines(s) /\ Lines(r) => Lines(s \o r)
                    /\ OfChildren(s) /\ OfChildren(r) => OfChildren(s \o r)
                    /\ Early(s) /\ Early(r) => Early(s \o r)
                    /\ Late(s) /\ Late(r) => Late(s \o r)
                    /\ Early(s) /\ ForksEarly(r) => ForksEarly(s \o r)
                    /\ ForksEarly(s) /\ Late(r) => ForksEarly(s \o r)
  BY Zenon DEF Plains, Lines, OfChildren, Early, Late, ForksEarly
<1> DEFINE q == s \o r
<1>1. /\ IsSeq(q) /\ Len(s) \in Nat /\ Len(r) \in Nat /\ Len(q) = Len(s) + Len(r)
      /\ \A i \in 1..Len(q) : q[i] = IF i <= Len(s) THEN s[i] ELSE r[i - Len(s)]
  BY SeqCat
<1> HIDE DEF q
<1>2. \A i \in 1..Len(q) : \/ i \in 1..Len(s) /\ q[i] = s[i]
                           \/ i > Len(s) /\ i - Len(s) \in 1..Len(r) /\ q[i] = r[i - Len(s)]
  BY <1>1
<1>3. Plains(s) /\ Plains(r) => Plains(q)
  BY <1>1, <1>2, Zenon DEF Plains
<1>4. Lines(s) /\ Lines(r) => Lines(q)
  BY <1>1, <1>2, Zenon DEF Lines
<1>5. OfChildren(s) /\ OfChildren(r) => OfChildren(q)
  BY <1>1, <1>2, Zenon DEF OfChildren
<1>6. Early(s) /\ Early(r) => Early(q)
  BY <1>1, <1>2, Zenon DEF Early
<1>7. Late(s) /\ Late(r) => Late(q)
  BY <1>1, <1>2, Zenon DEF Late
<1>8. ASSUME Early(s), ForksEarly(r) PROVE ForksEarly(q)
  <2>1. \A k \in 1..Len(q) : OfParent(q[k])
    BY <1>2, <1>8, Zenon DEF Early, ForksEarly
  <2>2. ASSUME NEW j \in 1..Len(q), NEW k \in 1..Len(q), j < k, Shares(q[j]) PROVE q[k].op # "fork"
    <3>1. j > Len(s) /\ j - Len(s) \in 1..Len(r) /\ q[j] = r[j - Len(s)]
      BY <1>2, <1>8, <2>2 DEF Early
    <3>2. ~(k \in 1..Len(s))
      BY <1>1, <2>2, <3>1
    <3>3. k - Len(s) \in 1..Len(r) /\ q[k] = r[k - Len(s)] /\ j - Len(s) < k - Len(s)
      BY <1>1, <1>2, <2>2, <3>2
    <3> QED BY <1>8, <2>2, <3>1, <3>3 DEF ForksEarly
  <2> QED BY <1>1, <2>1, <2>2 DEF ForksEarly
<1>9. ASSUME ForksEarly(s), Late(r) PROVE ForksEarly(q)
  <2>1. \A k \in 1..Len(q) : OfParent(q[k])
    BY <1>2, <1>9, Zenon DEF Late, ForksEarly
  <2>2. ASSUME NEW j \in 1..Len(q), NEW k \in 1..Len(q), j < k, Shares(q[j]) PROVE q[k].op # "fork"
    <3>1. CASE k \in 1..Len(s) /\ q[k] = s[k]
      <4>1. j \in 1..Len(s) /\ q[j] = s[j]
        BY <1>1, <2>2, <3>1
      <4> QED BY <1>9, <2>2, <3>1, <4>1 DEF ForksEarly
    <3>2. CASE k - Len(s) \in 1..Len(r) /\ q[k] = r[k - Len(s)]
      BY <1>9, <3>2 DEF Late
    <3> QED BY <1>2, <3>1, <3>2
  <2> QED BY <1>1, <2>1, <2>2 DEF ForksEarly
<1> QED BY <1>3, <1>4, <1>5, <1>6, <1>7, <1>8, <1>9 DEF q

(* Who may make a plain call.                                               *)
LEMMA PlainIsOfAll ==
    /\ \A c : Plain(c) => OfChild(c) /\ OfParent(c) /\ c.op # "fork" /\ c.op \notin {"create", "clone"}
    /\ \A c : PlainLine(c) => Plain(c) /\ ~Shares(c)
    /\ \A c : OfChild(c) => OfParent(c) /\ c.op # "fork"
<1>1. ASSUME NEW c, Plain(c) PROVE OfChild(c) /\ OfParent(c) /\ c.op # "fork" /\ c.op \notin {"create", "clone"}
  BY <1>1, NothingIsSeq DEF Plain, OfParent, OfChild, Plains, Lines
<1>2. ASSUME NEW c, PlainLine(c) PROVE Plain(c) /\ ~Shares(c)
  BY <1>2 DEF PlainLine, Plain, Shares
<1>3. ASSUME NEW c, OfChild(c) PROVE OfParent(c) /\ c.op # "fork"
  BY <1>3 DEF OfChild, OfParent
<1> QED BY <1>1, <1>2, <1>3

LEMMA WhoseCalls ==
    ASSUME NEW s
    PROVE  /\ Lines(s) => Plains(s) /\ Early(s)
           /\ Plains(s) => OfChildren(s)
           /\ OfChildren(s) => Late(s)
           /\ Late(s) => ForksEarly(s)
BY PlainIsOfAll, Zenon DEF Lines, Plains, OfChildren, Early, Late, ForksEarly

(* A repetition of what children may call is theirs too.                    *)
LEMMA Flattened ==
    ASSUME NEW ss, IsSeq(ss)
    PROVE  /\ (\A i \in 1..Len(ss) : OfChildren(ss[i])) => OfChildren(Programs!FlattenSeq(ss))
           /\ (\A i \in 1..Len(ss) : Late(ss[i])) => Late(Programs!FlattenSeq(ss))
<1>1. ASSUME \A i \in 1..Len(ss) : OfChildren(ss[i])
      PROVE  OfChildren(Programs!FlattenSeq(ss))
  <2>1. \A i \in 1..Len(ss) : IsSeq(ss[i])
    BY <1>1, Zenon DEF OfChildren
  <2> QED BY <1>1, <2>1, FlattenHolds, Zenon DEF OfChildren
<1>2. ASSUME \A i \in 1..Len(ss) : Late(ss[i])
      PROVE  Late(Programs!FlattenSeq(ss))
  <2>1. \A i \in 1..Len(ss) : IsSeq(ss[i])
    BY <1>2, Zenon DEF Late
  <2>2. ASSUME NEW k \in 1..Len(Programs!FlattenSeq(ss))
        PROVE  LET c == Programs!FlattenSeq(ss)[k] IN OfParent(c) /\ c.op # "fork"
    <3>1. PICK i \in 1..Len(ss) : \E j \in 1..Len(ss[i]) : Programs!FlattenSeq(ss)[k] = ss[i][j]
      BY <2>1, FlattenHolds
    <3> QED BY <1>2, <3>1 DEF Late
  <2> QED BY <2>1, <2>2, FlattenHolds DEF Late
<1> QED BY <1>1, <1>2

LEMMA SeqOf ==
    ASSUME NEW k \in Nat, NEW f, f = [i \in 1..k |-> f[i]]
    PROVE  IsSeq(f) /\ Len(f) = k
<1> DEFINE S == {f[i] : i \in 1..k}
<1>1. f \in [1..k -> S]
  OBVIOUS
<1> HIDE DEF S
<1>2. f \in Seq(S) /\ Len(f) = k
  BY <1>1
<1> QED BY <1>2, SeqIsSeq

LEMMA Repeated ==
    ASSUME NEW k \in Nat, NEW s
    PROVE  /\ OfChildren(s) => OfChildren(Programs!Times(k, s))
           /\ Late(s) => Late(Programs!Times(k, s))
<1> DEFINE ss == [i \in 1..k |-> s]
<1>1. Programs!Times(k, s) = Programs!FlattenSeq(ss)
  BY DEF Programs!Times
<1>2. ss = [i \in 1..k |-> ss[i]] /\ \A i \in 1..k : ss[i] = s
  OBVIOUS
<1> HIDE DEF ss
<1>3. IsSeq(ss) /\ Len(ss) = k
  BY <1>2, SeqOf
<1> QED BY <1>1, <1>2, <1>3, Flattened

-----------------------------------------------------------------------------
(* The calls of the programs.                                               *)
LEMMA PlainCalls ==
    /\ \A x : /\ PlainLine(Programs!Says(x)) /\ Plain(Programs!Prompts(x))
              /\ PlainLine(Programs!Complains(x))
    /\ \A x, v : /\ PlainLine(Programs!Shows(x, v)) /\ PlainLine(Programs!ShowsShared(x, v))
                 /\ PlainLine(Programs!Sets(x, v)) /\ PlainLine(Programs!SetsShared(x, v))
                 /\ PlainLine(Programs!AddsTo(x, v)) /\ PlainLine(Programs!Dups(x, v))
    /\ \A x : PlainLine(Programs!Closes(x))
    /\ \A x \in {"fflush", "getchar", "lock", "unlock", "join", "pipe", "exit"} :
          PlainLine(Programs!Do(x))
<1> USE DEF PlainLine, Plain, Programs!Do
<1>1. \A x : /\ PlainLine(Programs!Says(x)) /\ Plain(Programs!Prompts(x))
             /\ PlainLine(Programs!Complains(x))
  BY DEF Programs!Says, Programs!Prompts, Programs!Complains
<1>2. \A x, v : PlainLine(Programs!Shows(x, v)) /\ PlainLine(Programs!ShowsShared(x, v))
  BY DEF Programs!Shows, Programs!ShowsShared, Programs!Says
<1>3. \A x, v : PlainLine(Programs!Sets(x, v)) /\ PlainLine(Programs!SetsShared(x, v))
  BY DEF Programs!Sets, Programs!SetsShared
<1>4. \A x, v : PlainLine(Programs!AddsTo(x, v)) /\ PlainLine(Programs!Dups(x, v))
  BY DEF Programs!AddsTo, Programs!Dups
<1>5. \A x : PlainLine(Programs!Closes(x))
  BY DEF Programs!Closes
<1>6. \A x \in {"fflush", "getchar", "lock", "unlock", "join", "pipe", "exit"} :
          PlainLine(Programs!Do(x))
  OBVIOUS
<1> QED BY <1>1, <1>2, <1>3, <1>4, <1>5, <1>6

LEMMA LinesCalled ==
    /\ Lines(<<>>)
    /\ \A x : Lines(Programs!Fails(x)) /\ Lines(Programs!phase_start(x))
    /\ \A v, x : Lines(Programs!Increments(v, x))
    /\ \A c : PlainLine(c) => Lines(<<c>>)
    /\ \A a, b : PlainLine(a) /\ PlainLine(b) => Lines(<<a, b>>)
    /\ \A c : Plain(c) => Plains(<<c>>)
    /\ \A c : OfChild(c) => OfChildren(<<c>>)
    /\ \A c : OfParent(c) /\ ~Shares(c) => Early(<<c>>)
    /\ \A c : OfParent(c) /\ c.op # "fork" => Late(<<c>>)
<1> USE One, Two
<1>1. Lines(<<>>)
  BY NothingIsSeq DEF Lines
<1>2. \A a, b : PlainLine(a) /\ PlainLine(b) => Lines(<<a, b>>)
  BY DEF Lines
<1>3. \A x : Lines(Programs!Fails(x)) /\ Lines(Programs!phase_start(x))
  BY <1>2, PlainCalls DEF Programs!Fails, Programs!phase_start
<1>4. \A v, x : Lines(Programs!Increments(v, x))
  <2> SUFFICES ASSUME NEW v, NEW x PROVE Lines(Programs!Increments(v, x))
    OBVIOUS
  <2>1. PlainLine([Programs!Do("load") EXCEPT !.var = v])
    BY DEF PlainLine, Plain, Programs!Do
  <2>2. PlainLine([Programs!Do("store") EXCEPT !.var = v, !.val = x])
    BY DEF PlainLine, Plain, Programs!Do
  <2> QED BY <1>2, <2>1, <2>2 DEF Programs!Increments
<1>5. \A c : PlainLine(c) => Lines(<<c>>)
  BY DEF Lines
<1>6. \A c : Plain(c) => Plains(<<c>>)
  BY DEF Plains
<1>7. \A c : OfChild(c) => OfChildren(<<c>>)
  BY DEF OfChildren
<1>8. \A c : OfParent(c) /\ ~Shares(c) => Early(<<c>>)
  BY DEF Early
<1>9. \A c : OfParent(c) /\ c.op # "fork" => Late(<<c>>)
  BY DEF Late
<1> QED BY <1>1, <1>2, <1>3, <1>4, <1>5, <1>6, <1>7, <1>8, <1>9

(* A fork, a creation, an exec and a wait, with what they are given.        *)
LEMMA OtherCalls ==
    ASSUME NEW s, NEW x
    PROVE  /\ OfChildren(s) /\ (x = NULL \/ Lines(x)) =>
                /\ OfParent(Programs!Forks(s, x)) /\ ~Shares(Programs!Forks(s, x))
                /\ OfParent(Programs!Creates(s, x)) /\ Programs!Creates(s, x).op # "fork"
                /\ OfParent(Programs!Clones(s, x)) /\ Programs!Clones(s, x).op # "fork"
           /\ Plains(s) => OfChild(Programs!Executes(s, x)) /\ ~Shares(Programs!Executes(s, x))
           /\ \A k : Lines(s) /\ Lines(x) => OfChild(Programs!WaitsFor(k, s, x))
<1> USE DEF Programs!Do
<1>0. Lines(<<>>) /\ Plains(<<>>)
  BY LinesCalled, WhoseCalls
<1>1. ASSUME OfChildren(s), x = NULL \/ Lines(x)
      PROVE  /\ OfParent(Programs!Forks(s, x)) /\ ~Shares(Programs!Forks(s, x))
             /\ OfParent(Programs!Creates(s, x)) /\ Programs!Creates(s, x).op # "fork"
             /\ OfParent(Programs!Clones(s, x)) /\ Programs!Clones(s, x).op # "fork"
  BY <1>1 DEF OfParent, Shares, Programs!Forks, Programs!Creates, Programs!Clones
<1>2. ASSUME Plains(s) PROVE OfChild(Programs!Executes(s, x)) /\ ~Shares(Programs!Executes(s, x))
  BY <1>0, <1>2 DEF OfChild, Shares, Programs!Executes
<1>3. ASSUME NEW k, Lines(s), Lines(x) PROVE OfChild(Programs!WaitsFor(k, s, x))
  BY <1>0, <1>3, WhoseCalls DEF OfChild, Programs!WaitsFor
<1> QED BY <1>1, <1>2, <1>3

-----------------------------------------------------------------------------
(* Short programs, call by call.                                            *)
EarlyCall(c) == OfParent(c) /\ ~Shares(c)
LateCall(c) == OfParent(c) /\ c.op # "fork"

LEMMA PlainsTwo ==
    ASSUME NEW a, NEW b, Plain(a), Plain(b)
    PROVE  Plains(<<a, b>>)
<1> HIDE DEF Plain
<1> QED BY Two DEF Plains

LEMMA OfChildrenThree ==
    ASSUME NEW a, NEW b, NEW c,
           OfChild(a), OfChild(b), OfChild(c)
    PROVE  OfChildren(<<a, b, c>>)
BY Three DEF OfChildren, OfChild

LEMMA OfChildrenFour ==
    ASSUME NEW a, NEW b, NEW c, NEW d,
           OfChild(a), OfChild(b), OfChild(c), OfChild(d)
    PROVE  OfChildren(<<a, b, c, d>>)
BY Four DEF OfChildren, OfChild

LEMMA EarlyTwo ==
    ASSUME NEW a, NEW b,
           EarlyCall(a), EarlyCall(b)
    PROVE  Early(<<a, b>>)
BY Two DEF Early, EarlyCall

LEMMA EarlyThree ==
    ASSUME NEW a, NEW b, NEW c,
           EarlyCall(a), EarlyCall(b), EarlyCall(c)
    PROVE  Early(<<a, b, c>>)
BY Three DEF Early, EarlyCall

LEMMA LateOne ==
    ASSUME NEW a,
           LateCall(a)
    PROVE  Late(<<a>>)
BY One DEF Late, LateCall

LEMMA LateTwo ==
    ASSUME NEW a, NEW b,
           LateCall(a), LateCall(b)
    PROVE  Late(<<a, b>>)
BY Two DEF Late, LateCall

LEMMA LateThree ==
    ASSUME NEW a, NEW b, NEW c,
           LateCall(a), LateCall(b), LateCall(c)
    PROVE  Late(<<a, b, c>>)
BY Three DEF Late, LateCall

LEMMA LateFour ==
    ASSUME NEW a, NEW b, NEW c, NEW d,
           LateCall(a), LateCall(b), LateCall(c), LateCall(d)
    PROVE  Late(<<a, b, c, d>>)
BY Four DEF Late, LateCall

LEMMA LateFive ==
    ASSUME NEW a, NEW b, NEW c, NEW d, NEW e,
           LateCall(a), LateCall(b), LateCall(c), LateCall(d), LateCall(e)
    PROVE  Late(<<a, b, c, d, e>>)
BY Five DEF Late, LateCall

LEMMA LateTen ==
    ASSUME NEW a, NEW b, NEW c, NEW d, NEW e, NEW g, NEW h, NEW k, NEW u, NEW v,
           LateCall(a), LateCall(b), LateCall(c), LateCall(d), LateCall(e), LateCall(g), LateCall(h), LateCall(k), LateCall(u), LateCall(v)
    PROVE  Late(<<a, b, c, d, e, g, h, k, u, v>>)
BY Ten DEF Late, LateCall

LEMMA ForksTwo ==
    ASSUME NEW a, NEW b,
           EarlyCall(a),
           LateCall(b)
    PROVE  ForksEarly(<<a, b>>)
<1> DEFINE s == <<a, b>>
<1>1. IsSeq(s) /\ Len(s) = 2 /\ s[1] = a /\ s[2] = b
  BY Two
<1> HIDE DEF s
<1>2. (\A i \in 1..1 : EarlyCall(s[i])) /\ (\A i \in 2..2 : LateCall(s[i]))
  BY <1>1
<1>3. ForksEarly(s)
  BY <1>1, <1>2 DEF ForksEarly, EarlyCall, LateCall
<1> QED BY <1>3 DEF s

LEMMA ForksThree ==
    ASSUME NEW a, NEW b, NEW c,
           EarlyCall(a),
           LateCall(b), LateCall(c)
    PROVE  ForksEarly(<<a, b, c>>)
<1> DEFINE s == <<a, b, c>>
<1>1. IsSeq(s) /\ Len(s) = 3 /\ s[1] = a /\ s[2] = b /\ s[3] = c
  BY Three
<1> HIDE DEF s
<1>2. (\A i \in 1..1 : EarlyCall(s[i])) /\ (\A i \in 2..3 : LateCall(s[i]))
  BY <1>1
<1>3. ForksEarly(s)
  BY <1>1, <1>2 DEF ForksEarly, EarlyCall, LateCall
<1> QED BY <1>3 DEF s

LEMMA ForksFive ==
    ASSUME NEW a, NEW b, NEW c, NEW d, NEW e,
           EarlyCall(a), EarlyCall(b),
           LateCall(c), LateCall(d), LateCall(e)
    PROVE  ForksEarly(<<a, b, c, d, e>>)
<1> DEFINE s == <<a, b, c, d, e>>
<1>1. IsSeq(s) /\ Len(s) = 5 /\ s[1] = a /\ s[2] = b /\ s[3] = c /\ s[4] = d /\ s[5] = e
  BY Five
<1> HIDE DEF s
<1>2. (\A i \in 1..2 : EarlyCall(s[i])) /\ (\A i \in 3..5 : LateCall(s[i]))
  BY <1>1
<1>3. ForksEarly(s)
  BY <1>1, <1>2 DEF ForksEarly, EarlyCall, LateCall
<1> QED BY <1>3 DEF s

LEMMA ForksEight ==
    ASSUME NEW a, NEW b, NEW c, NEW d, NEW e, NEW g, NEW h, NEW k,
           EarlyCall(a), EarlyCall(b),
           LateCall(c), LateCall(d), LateCall(e), LateCall(g), LateCall(h), LateCall(k)
    PROVE  ForksEarly(<<a, b, c, d, e, g, h, k>>)
<1> DEFINE s == <<a, b, c, d, e, g, h, k>>
<1>1. IsSeq(s) /\ Len(s) = 8 /\ s[1] = a /\ s[2] = b /\ s[3] = c /\ s[4] = d /\ s[5] = e /\ s[6] = g /\ s[7] = h /\ s[8] = k
  BY Eight
<1> HIDE DEF s
<1>2. (\A i \in 1..2 : EarlyCall(s[i])) /\ (\A i \in 3..8 : LateCall(s[i]))
  BY <1>1
<1>3. ForksEarly(s)
  BY <1>1, <1>2 DEF ForksEarly, EarlyCall, LateCall
<1> QED BY <1>3 DEF s

LEMMA ForksNine ==
    ASSUME NEW a, NEW b, NEW c, NEW d, NEW e, NEW g, NEW h, NEW k, NEW u,
           EarlyCall(a), EarlyCall(b), EarlyCall(c),
           LateCall(d), LateCall(e), LateCall(g), LateCall(h), LateCall(k), LateCall(u)
    PROVE  ForksEarly(<<a, b, c, d, e, g, h, k, u>>)
<1> DEFINE s == <<a, b, c, d, e, g, h, k, u>>
<1>1. IsSeq(s) /\ Len(s) = 9 /\ s[1] = a /\ s[2] = b /\ s[3] = c /\ s[4] = d /\ s[5] = e /\ s[6] = g /\ s[7] = h /\ s[8] = k /\ s[9] = u
  BY Nine
<1> HIDE DEF s
<1>2. (\A i \in 1..3 : EarlyCall(s[i])) /\ (\A i \in 4..9 : LateCall(s[i]))
  BY <1>1
<1>3. ForksEarly(s)
  BY <1>1, <1>2 DEF ForksEarly, EarlyCall, LateCall
<1> QED BY <1>3 DEF s

(* Every program forks before it leaves anything in the buffer, and forks   *)
(* no more after it has made a thread.                                      *)
LEMMA CallKinds ==
    /\ \A c : PlainLine(c) => EarlyCall(c) /\ LateCall(c) /\ OfChild(c)
    /\ \A c : Plain(c) => LateCall(c) /\ OfChild(c)
    /\ \A c : OfChild(c) => LateCall(c)
BY PlainIsOfAll, Zenon DEF EarlyCall, LateCall

LEMMA ForkCalls ==
    ASSUME NEW s, NEW x, OfChildren(s), x = NULL \/ Lines(x)
    PROVE  /\ EarlyCall(Programs!Forks(s, x))
           /\ LateCall(Programs!Creates(s, x)) /\ LateCall(Programs!Clones(s, x))
BY OtherCalls, Zenon DEF EarlyCall, LateCall

LEMMA OutputPrograms ==
    Late(Programs!hello) /\ Late(Programs!hello_redir) /\ Late(Programs!addresses)
<1> USE PlainCalls, CallKinds
<1>1. Late(Programs!hello)
  BY LateFour DEF Programs!hello
<1>2. Late(Programs!hello_redir)
  <2> DEFINE a == [Programs!Do("open") EXCEPT !.name = "out2", !.refused = Programs!Fails("error creating")]
             b == [Programs!Do("dup2") EXCEPT !.n = 3, !.to = 1]
  <2>1. OfChild(a) /\ OfChild(b)
    BY LinesCalled, WhoseCalls DEF Programs!Do, OfChild
  <2> HIDE DEF a, b
  <2>2. Late(<<Programs!Says("Hello"), a, Programs!Says("new fd out"), b,
              Programs!Says("Hello now to new standard output!")>>)
    BY <2>1, LateFive
  <2> QED BY <2>2 DEF Programs!hello_redir, a, b
<1>3. Late(Programs!addresses)
  BY LateTen DEF Programs!addresses
<1> QED BY <1>1, <1>2, <1>3

LEMMA WaitForChildIsOfChild == OfChild(Programs!WaitForChild)
BY OtherCalls, LinesCalled, PlainCalls DEF Programs!WaitForChild

(* Parents and children. *)
LEMMA ParentPrograms ==
    /\ ForksEarly(Programs!tfork)
    /\ \A w \in BOOLEAN : ForksEarly(Programs!tfork24(w))
    /\ ForksEarly(Programs!texec)
    /\ \A w, l \in BOOLEAN : ForksEarly(Programs!tfork2(w, l))
<1> USE PlainCalls, CallKinds, LinesCalled, WaitForChildIsOfChild
<1>0. PlainLine(Programs!Exits)
  BY DEF Programs!Exits
<1>1. ForksEarly(Programs!tfork)
  <2> DEFINE f == <<Programs!Sets("val", 25), Programs!Shows("child", "val"), Programs!Exits>>
  <2>1. OfChildren(f)
    BY <1>0, OfChildrenThree
  <2> HIDE DEF f
  <2>2. EarlyCall(Programs!Forks(f, Programs!Fails("error creating child")))
    BY <2>1, ForkCalls
  <2>3. ForksEarly(<<Programs!Says("parent process"),
                     Programs!Forks(f, Programs!Fails("error creating child")),
                     Programs!WaitForChild, Programs!Shows("val", "val"),
                     Programs!Says("child process id")>>)
    BY <2>2, ForksFive
  <2> QED BY <2>3 DEF Programs!tfork, f
<1>2. ASSUME NEW w \in BOOLEAN PROVE ForksEarly(Programs!tfork24(w))
  <2> DEFINE f == <<Programs!Shows("child", "val"), Programs!Sets("val", 25), Programs!Exits>>
             first == <<Programs!Says("parent process"),
                        Programs!Forks(f, Programs!Fails("error creating child"))>>
             rest == IF w THEN <<Programs!WaitForChild, Programs!Shows("val", "val"),
                                 Programs!Says("child process id")>>
                     ELSE <<Programs!Prompts("press return"), Programs!Do("getchar")>>
  <2>1. OfChildren(f)
    BY <1>0, OfChildrenThree
  <2>2. EarlyCall(Programs!Forks(f, Programs!Fails("error creating child")))
    <3> HIDE DEF f
    <3> QED BY <2>1, ForkCalls
  <2>3. Early(first)
    <3> HIDE DEF f
    <3> QED BY <2>2, EarlyTwo
  <2>4. Late(rest)
    BY LateThree, LateTwo
  <2>5. ForksEarly(first \o rest)
    <3> HIDE DEF first, rest
    <3> QED BY <2>3, <2>4, Together, WhoseCalls
  <2> QED BY <2>5 DEF Programs!tfork24
<1>3. ForksEarly(Programs!texec)
  <2> DEFINE e == <<Programs!Executes(Programs!apptest, <<>>)>>
             f == e \o Programs!Fails("error loading")
  <2>1. Plains(Programs!apptest)
    BY WhoseCalls DEF Programs!apptest
  <2>2. OfChildren(e)
    BY <2>1, OtherCalls
  <2>3. OfChildren(Programs!Fails("error loading"))
    BY WhoseCalls
  <2>4. OfChildren(f)
    <3> HIDE DEF e
    <3> QED BY <2>2, <2>3, Together
  <2>5. OfChild(Programs!WaitsFor(1, <<>>, <<>>))
    BY OtherCalls
  <2> HIDE DEF f
  <2>6. EarlyCall(Programs!Forks(f, Programs!Fails("error creating child")))
    BY <2>4, ForkCalls
  <2>7. ForksEarly(<<Programs!Forks(f, Programs!Fails("error creating child")),
                     Programs!WaitsFor(1, <<>>, <<>>), Programs!Says("done!")>>)
    BY <2>5, <2>6, ForksThree
  <2> QED BY <2>7 DEF Programs!texec, f
<1>4. ASSUME NEW w \in BOOLEAN, NEW l \in BOOLEAN PROVE ForksEarly(Programs!tfork2(w, l))
  <2> DEFINE f == <<Programs!Shows("child", "val"), Programs!Sets("val", 25),
                    Programs!Prompts("terminate now!"), Programs!Exits>>
             catch == [Programs!Do("signal") EXCEPT !.body = Programs!sigint]
             last == [Programs!Says("wait 60 seconds") EXCEPT !.newline = l]
             first == <<catch, Programs!Says("parent process"),
                        Programs!Forks(f, Programs!Fails("error creating child"))>>
             rest == IF w THEN <<Programs!WaitForChild, Programs!Shows("val", "val"),
                                 Programs!Says("child process id")>>
                     ELSE <<last>>
  <2>1. OfChildren(f)
    BY <1>0, OfChildrenFour
  <2>2. EarlyCall(Programs!Forks(f, Programs!Fails("error creating child")))
    <3> HIDE DEF f
    <3> QED BY <2>1, ForkCalls
  <2>3. Lines(Programs!sigint)
    BY DEF Programs!sigint
  <2>4. EarlyCall(catch)
    <3>1. Plains(Programs!sigint)
      BY <2>3, WhoseCalls
    <3> QED BY <2>3, <3>1 DEF EarlyCall, OfParent, OfChild, Shares, Programs!Do
  <2>5. Plain(last)
    BY DEF Plain, Programs!Says, Programs!Do
  <2>6. Early(first)
    <3> HIDE DEF f, catch
    <3> QED BY <2>2, <2>4, EarlyThree
  <2>7. Late(rest)
    <3> HIDE DEF last
    <3> QED BY <2>5, LateThree, LateOne
  <2>8. ForksEarly(first \o rest)
    <3> HIDE DEF first, rest
    <3> QED BY <2>6, <2>7, Together, WhoseCalls
  <2> QED BY <2>8 DEF Programs!tfork2
<1> QED BY <1>1, <1>2, <1>3, <1>4

(* Pipes. *)
LEMMA PipePrograms == ForksEarly(Programs!tpipe) /\ ForksEarly(Programs!tpipe2)
<1> USE PlainCalls, CallKinds, LinesCalled
<1>0. PlainLine(Programs!Exits) /\ Lines(<<>>) /\ OfChild(Programs!WaitsFor(1, <<>>, <<>>))
      /\ OfChild(Programs!WaitsFor(2, <<>>, <<>>))
  BY OtherCalls DEF Programs!Exits
<1>1. ForksEarly(Programs!tpipe)
  <2> DEFINE w == [Programs!Do("write") EXCEPT !.bytes = <<"hello", "\\0">>]
             b == <<Programs!Prompts("byte"), Programs!Do("fflush")>>
             r == [Programs!Do("read") EXCEPT !.var = "n", !.body = b]
             f == <<Programs!Closes(3), w, Programs!Exits>>
  <2>1. PlainLine(w)
    BY DEF PlainLine, Plain, Programs!Do
  <2>5. Plains(b)
    BY PlainsTwo, PlainIsOfAll
  <2>6. LateCall(r)
    <3> HIDE DEF b
    <3>1. OfChild(r)
      BY <2>5, WhoseCalls DEF OfChild, Programs!Do
    <3> QED BY <3>1
  <2> HIDE DEF w, r, b
  <2>2. OfChildren(f)
    BY <1>0, <2>1, OfChildrenThree
  <2> HIDE DEF f
  <2>3. EarlyCall(Programs!Forks(f, <<>>))
    BY <1>0, <2>2, ForkCalls
  <2>4. ForksEarly(<<Programs!Do("pipe"), Programs!Forks(f, <<>>), Programs!Closes(4), r,
                     Programs!Closes(3), Programs!Shows("bytes read", "n"),
                     Programs!Says("msg"), Programs!WaitsFor(1, <<>>, <<>>)>>)
    BY <1>0, <2>3, <2>6, ForksEight
  <2> QED BY <2>4 DEF Programs!tpipe, w, r, b, f
<1>2. ForksEarly(Programs!tpipe2)
  <2>1. ASSUME NEW c, PlainLine(c) PROVE Plains(Programs!inc(<<c>>))
    <3> DEFINE p == [Programs!Prompts("num") EXCEPT !.var = "num"]
               i == Programs!Increments("num", 1)
               last == <<p, Programs!Complains("pid, parent pid")>>
    <3>1. Plain(p)
      BY DEF Plain, Programs!Prompts, Programs!Says, Programs!Do
    <3> HIDE DEF p
    <3>2. Plains(last)
      <4>1. Plain(Programs!Complains("pid, parent pid"))
        BY PlainIsOfAll
      <4> QED BY <3>1, <4>1, PlainsTwo
    <3>3. Plains(<<c>>) /\ Plains(i)
      BY <2>1, WhoseCalls
    <3> HIDE DEF last, i
    <3>4. Plains((<<c>> \o i) \o last)
      BY <3>2, <3>3, Together
    <3> QED BY <3>4 DEF Programs!inc, i, last, p
  <2> DEFINE s == [Programs!Do("scan") EXCEPT !.var = "num"]
             e1 == Programs!Executes(Programs!inc(<<Programs!Sets("num", 5)>>), [num |-> Programs!garbage])
             e2 == Programs!Executes(Programs!inc(<<s>>), [num |-> Programs!garbage])
             a1 == <<Programs!Closes(3), Programs!Dups(4, 1), Programs!Closes(4), e1>>
             a2 == <<Programs!Closes(4), Programs!Dups(3, 0), Programs!Closes(3), e2>>
             f1 == a1 \o Programs!Fails("error loading first inc")
             f2 == a2 \o Programs!Fails("error loading second inc")
  <2>2. PlainLine(s)
    BY DEF PlainLine, Plain, Programs!Do
  <2> HIDE DEF s
  <2>3. OfChild(e1) /\ OfChild(e2)
    <3>1. Plains(Programs!inc(<<Programs!Sets("num", 5)>>)) /\ Plains(Programs!inc(<<s>>))
      BY <2>1, <2>2
    <3> QED BY <3>1, OtherCalls
  <2> HIDE DEF e1, e2
  <2>4. OfChildren(a1) /\ OfChildren(a2)
    BY <2>3, OfChildrenFour
  <2> HIDE DEF a1, a2
  <2>5. OfChildren(f1) /\ OfChildren(f2)
    BY <2>4, Together, WhoseCalls
  <2> HIDE DEF f1, f2
  <2>6. EarlyCall(Programs!Forks(f1, <<>>)) /\ EarlyCall(Programs!Forks(f2, <<>>))
    BY <1>0, <2>5, ForkCalls
  <2>7. ForksEarly(<<Programs!Do("pipe"), Programs!Forks(f1, <<>>), Programs!Forks(f2, <<>>),
                     Programs!Closes(3), Programs!Closes(4), Programs!Says("wait for child termination!"),
                     Programs!WaitsFor(1, <<>>, <<>>), Programs!WaitsFor(2, <<>>, <<>>),
                     Programs!Says("done!")>>)
    BY <1>0, <2>6, ForksNine
  <2> QED BY <2>7 DEF Programs!tpipe2, f1, f2, a1, a2, e1, e2, s
<1> QED BY <1>1, <1>2

(* Memory. *)
LEMMA MemoryPrograms == ForksEarly(Programs!mem2) /\ ForksEarly(Programs!smem_child)
<1> USE PlainCalls, CallKinds, LinesCalled, WhoseCalls
<1>0. PlainLine(Programs!Exits) /\ Lines(<<>>) /\ OfChild(Programs!WaitsFor(1, <<>>, <<>>))
  BY OtherCalls DEF Programs!Exits
<1>a. \A s, r : Lines(s) /\ Lines(r) => Lines(s \o r)
  BY Together
<1>b. \A x : Lines(Programs!phase_start(x))
  BY LinesCalled
<1>1. ForksEarly(Programs!mem2)
  <2> DEFINE s1 == <<Programs!Sets("data", 1)>>
             s2 == <<Programs!Sets("data", 2)>>
             s3 == <<Programs!Exits>>
             f == Programs!phase_start("do read in child") \o Programs!phase_start("do write in child")
                  \o s2 \o Programs!phase_start("terminate child") \o s3
             first == Programs!phase_start("do malloc") \o Programs!phase_start("read data")
                      \o Programs!phase_start("do write") \o s1 \o Programs!phase_start("create child")
             middle == <<Programs!Forks(f, <<>>), Programs!WaitsFor(1, <<>>, <<>>)>>
  <2>1. Lines(s1) /\ Lines(s2) /\ Lines(s3)
    BY <1>0
  <2> HIDE DEF s1, s2, s3
  <2>2. Lines(f)
    BY <1>a, <1>b, <2>1, Zenon
  <2>3. Lines(first)
    BY <1>a, <1>b, <2>1, Zenon
  <2> HIDE DEF f, first
  <2>4. Early(first) /\ OfChildren(f)
    BY <2>2, <2>3
  <2>5. ForksEarly(middle)
    <3>1. EarlyCall(Programs!Forks(f, <<>>))
      BY <1>0, <2>4, ForkCalls
    <3> QED BY <1>0, <3>1, ForksTwo
  <2> HIDE DEF middle
  <2>6. ForksEarly((first \o middle) \o Programs!phase_start("termination"))
    <3>1. ForksEarly(first \o middle)
      BY <2>4, <2>5, Together
    <3> QED BY <3>1, <1>b, Together
  <2> QED BY <2>6 DEF Programs!mem2, first, middle, f, s1, s2, s3
<1>2. ForksEarly(Programs!smem_child)
  <2> DEFINE s1 == <<Programs!SetsShared("ints", 1)>>
             s2 == <<Programs!SetsShared("ints", 2)>>
             s3 == <<Programs!Exits>>
             p1 == <<Programs!ShowsShared("filho: sum ints", "ints")>>
             p2 == <<Programs!ShowsShared("sum ints", "ints")>>
             f == p1 \o Programs!phase_start("escrever") \o s2
                  \o Programs!phase_start("terminar") \o s3
             first == Programs!phase_start("file map") \o Programs!phase_start("escrever")
                      \o s1 \o Programs!phase_start("criar processo filho")
             middle == <<Programs!Forks(f, <<>>), Programs!WaitsFor(1, <<>>, <<>>)>>
  <2>1. Lines(s1) /\ Lines(s2) /\ Lines(s3) /\ Lines(p1) /\ Lines(p2)
    BY <1>0
  <2> HIDE DEF s1, s2, s3, p1, p2
  <2>2. Lines(f)
    BY <1>a, <1>b, <2>1, Zenon
  <2>3. Lines(first)
    BY <1>a, <1>b, <2>1, Zenon
  <2> HIDE DEF f, first
  <2>4. Early(first) /\ OfChildren(f)
    BY <2>2, <2>3
  <2>5. ForksEarly(middle)
    <3>1. EarlyCall(Programs!Forks(f, <<>>))
      BY <1>0, <2>4, ForkCalls
    <3> QED BY <1>0, <3>1, ForksTwo
  <2> HIDE DEF middle
  <2>a. \A s, r : ForksEarly(s) /\ Lines(r) => ForksEarly(s \o r)
    BY Together
  <2>b. ForksEarly(first \o middle)
    BY <2>4, <2>5, Together
  <2>6. ForksEarly(first \o middle \o Programs!phase_start("ler") \o p2
                   \o Programs!phase_start("terminar: unmap") \o Programs!phase_start("terminar: fim"))
    BY <2>a, <2>b, <1>b, <2>1, Zenon
  <2> QED BY <2>6 DEF Programs!smem_child, first, middle, f, s1, s2, s3, p1, p2
<1> QED BY <1>1, <1>2


(* Threads.  Programs put together from equal parts. *)
LEMMA LateOf ==
    ASSUME NEW k \in Nat, NEW f, f = [i \in 1..k |-> f[i]], \A i \in 1..k : LateCall(f[i])
    PROVE  Late(f)
BY SeqOf DEF Late, LateCall

LEMMA LateParts ==
    ASSUME NEW k \in Nat, NEW f, f = [i \in 1..k |-> f[i]], \A i \in 1..k : Late(f[i])
    PROVE  Late(Programs!FlattenSeq(f))
BY SeqOf, Flattened

LEMMA BoundsAreNumbers ==
    /\ ITERATIONS \in Nat /\ NTHREADS \in Nat /\ Programs!range_size \in Nat
BY TaskAssumption DEF Programs!range_size

LEMMA AddersCreateThreads ==
    Late(Programs!padder) /\ Late(Programs!par_adder) /\ Late(Programs!seq_adder)
<1> USE PlainCalls, CallKinds, BoundsAreNumbers
<1>1. Late(Programs!AddsUp)
  <2> DEFINE f == [i \in 1..NTHREADS |-> Programs!AddsTo("total", Programs!Result(i))]
  <2>1. f = [i \in 1..NTHREADS |-> f[i]] /\ \A i \in 1..NTHREADS : LateCall(f[i])
    OBVIOUS
  <2> HIDE DEF f
  <2>2. Late(f)
    BY <2>1, LateOf
  <2> QED BY <2>2 DEF Programs!AddsUp, f
<1>2. Late(<<Programs!Do("join"), Programs!Sets("total", 0)>>)
  BY LateTwo
<1>3. ASSUME NEW i, NEW s, OfChildren(s)
      PROVE  Late(<<Programs!Sets(Programs!Result(i), 0), Programs!Creates(s, NULL)>>)
  BY <1>3, ForkCalls, LateTwo
<1>4. Late(Programs!padder)
  <2> DEFINE p(i) == Programs!Times(Programs!range_size, Programs!Increments(Programs!Result(i), 1))
             f == [i \in 1..NTHREADS |-> <<Programs!Sets(Programs!Result(i), 0),
                                           Programs!Creates(p(i), NULL)>>]
             join == <<Programs!Do("join"), Programs!Sets("total", 0)>>
             last == <<Programs!Shows("vals sum", "total")>>
  <2>1. \A i : OfChildren(p(i))
    BY LinesCalled, WhoseCalls, Repeated
  <2> HIDE DEF p
  <2>2. f = [i \in 1..NTHREADS |-> f[i]] /\ \A i \in 1..NTHREADS : Late(f[i])
    BY <1>3, <2>1
  <2> HIDE DEF f
  <2>3. Late(Programs!FlattenSeq(f))
    BY <2>2, LateParts
  <2>4. Late(join) /\ Late(last)
    BY <1>2, LateOne
  <2> HIDE DEF join, last
  <2>a. \A s, r : Late(s) /\ Late(r) => Late(s \o r)
    BY Together
  <2>5. Late(Programs!FlattenSeq(f) \o join \o Programs!AddsUp \o last)
    BY <2>a, <1>1, <2>3, <2>4, Zenon
  <2> QED BY <2>5 DEF Programs!padder, f, p, join, last
<1>5. Late(Programs!par_adder)
  <2> DEFINE p(i) == <<Programs!Sets(Programs!Result(i), Programs!RangeLength(i))>>
             f == [i \in 1..NTHREADS |-> <<Programs!Sets(Programs!Result(i), 0),
                                           Programs!Creates(p(i), NULL)>>]
             join == <<Programs!Do("join"), Programs!Sets("total", 0)>>
  <2>1. \A i : OfChildren(p(i))
    BY LinesCalled
  <2> HIDE DEF p
  <2>2. f = [i \in 1..NTHREADS |-> f[i]] /\ \A i \in 1..NTHREADS : Late(f[i])
    BY <1>3, <2>1
  <2> HIDE DEF f
  <2>3. Late(Programs!FlattenSeq(f))
    BY <2>2, LateParts
  <2>4. Late(join)
    BY <1>2
  <2> HIDE DEF join
  <2>a. \A s, r : Late(s) /\ Late(r) => Late(s \o r)
    BY Together
  <2>5. Late(Programs!FlattenSeq(f) \o join \o Programs!AddsUp)
    BY <2>a, <1>1, <2>3, <2>4, Zenon
  <2> QED BY <2>5 DEF Programs!par_adder, f, p, join
<1>6. Late(Programs!seq_adder)
  BY LateOne DEF Programs!seq_adder
<1> QED BY <1>4, <1>5, <1>6

LEMMA ThreadPrograms ==
    /\ Late(Programs!hello_pthreads) /\ Late(Programs!race) /\ Late(Programs!create_threads)
    /\ Late(Programs!clonetest) /\ Late(Programs!padder27)
<1> USE PlainCalls, CallKinds, BoundsAreNumbers, LinesCalled
<1>a. \A s, r : Late(s) /\ Late(r) => Late(s \o r)
  BY Together
<1>1. Late(Programs!hello_pthreads)
  <2> DEFINE f == <<Programs!Says("hello from pthread")>>
  <2>1. OfChildren(f)
    BY WhoseCalls
  <2> HIDE DEF f
  <2>2. LateCall(Programs!Creates(f, Programs!Fails("error creating pthread")))
    BY <2>1, ForkCalls
  <2>3. Late(<<Programs!Says("main thread"),
               Programs!Creates(f, Programs!Fails("error creating pthread"))>>)
    BY <2>2, LateTwo
  <2> QED BY <2>3 DEF Programs!hello_pthreads, f
<1>2. Late(Programs!race)
  <2> DEFINE f == [i \in 1..NTHREADS |-> Programs!Creates(Programs!pthread_func, NULL)]
             last == <<Programs!Do("join"), Programs!Shows("result", "result")>>
  <2>1. OfChildren(Programs!pthread_func)
    <3> DEFINE l == <<Programs!Do("lock")>>
               u == <<Programs!Do("unlock")>>
               i == Programs!Increments("result", 1)
    <3>1. Lines(l) /\ Lines(u) /\ Lines(i)
      OBVIOUS
    <3> HIDE DEF l, u, i
    <3>2. Lines(l \o i \o u)
      BY <3>1, Together
    <3>3. OfChildren(Programs!Times(ITERATIONS, l \o i \o u))
      BY <3>2, WhoseCalls, Repeated
    <3> QED BY <3>3 DEF Programs!pthread_func, l, u, i
  <2>2. f = [i \in 1..NTHREADS |-> f[i]] /\ \A i \in 1..NTHREADS : LateCall(f[i])
    BY <2>1, ForkCalls
  <2> HIDE DEF f
  <2>3. Late(f)
    BY <2>2, LateOf
  <2>4. Late(last)
    BY LateTwo
  <2> HIDE DEF last
  <2>5. Late(f \o last)
    BY <1>a, <2>3, <2>4
  <2> QED BY <2>5 DEF Programs!race, f, last
<1>3. Late(Programs!create_threads)
  <2> DEFINE f == [i \in 1..NTHREADS |-> Programs!Creates(<<>>, Programs!Fails("error creating thread"))]
             last == <<Programs!Do("join"), Programs!Says("passed")>>
  <2>1. OfChildren(<<>>)
    BY WhoseCalls
  <2>2. f = [i \in 1..NTHREADS |-> f[i]] /\ \A i \in 1..NTHREADS : LateCall(f[i])
    BY <2>1, ForkCalls
  <2> HIDE DEF f
  <2>3. Late(f)
    BY <2>2, LateOf
  <2>4. Late(last)
    BY LateTwo
  <2> HIDE DEF last
  <2>5. Late(f \o last)
    BY <1>a, <2>3, <2>4
  <2> QED BY <2>5 DEF Programs!create_threads, f, last
<1>4. Late(Programs!clonetest)
  <2> DEFINE first == <<Programs!Clones(Programs!child_func, Programs!Fails("error creating child"))>>
             s == <<Programs!Shows("parent: num", "num")>>
             last == <<Programs!WaitsFor(1, s, s)>>
  <2>1. OfChildren(Programs!child_func)
    BY WhoseCalls DEF Programs!child_func
  <2>2. Late(first)
    BY <2>1, ForkCalls, LateOne
  <2>3. Late(last)
    <3>1. Lines(s)
      OBVIOUS
    <3> HIDE DEF s
    <3> QED BY <3>1, OtherCalls, LateOne
  <2> HIDE DEF first, last
  <2>4. Late(first \o last)
    BY <1>a, <2>2, <2>3
  <2> QED BY <2>4 DEF Programs!clonetest, first, last, s
<1>5. Late(Programs!padder27)
  <2>1. ASSUME NEW s, NEW x, Late(s) PROVE Late(Programs!test(x, s))
    <3> DEFINE last == <<Programs!Shows(x, "total")>>
    <3>1. Late(last)
      BY LateOne
    <3>2. Late(Programs!Times(ITERATIONS, s))
      BY <2>1, Repeated
    <3> HIDE DEF last
    <3>3. Late(Programs!Times(ITERATIONS, s) \o last)
      BY <1>a, <3>1, <3>2
    <3> QED BY <3>3 DEF Programs!test, last
  <2>2. Late(Programs!test("seq", Programs!seq_adder) \o Programs!test("par", Programs!par_adder))
    BY <1>a, <2>1, AddersCreateThreads
  <2> QED BY <2>2, Repeated DEF Programs!padder27
<1> QED BY <1>1, <1>2, <1>3, <1>4, <1>5

(* Whatever program runs forks before it leaves anything in the buffer.     *)
LEMMA ProgramsForkEarly == \A p \in DOMAIN Programs!Calls_of : ForksEarly(Programs!Calls_of[p])
<1>1. \A s : Late(s) => ForksEarly(s)
  BY WhoseCalls
<1>2. /\ ForksEarly(Programs!hello) /\ ForksEarly(Programs!hello_redir) /\ ForksEarly(Programs!addresses)
      /\ ForksEarly(Programs!hello_pthreads) /\ ForksEarly(Programs!race)
      /\ ForksEarly(Programs!create_threads) /\ ForksEarly(Programs!clonetest)
      /\ ForksEarly(Programs!padder) /\ ForksEarly(Programs!padder27)
  BY <1>1, OutputPrograms, ThreadPrograms, AddersCreateThreads, Zenon
<1>3. /\ ForksEarly(Programs!tfork) /\ ForksEarly(Programs!tfork24(TRUE)) /\ ForksEarly(Programs!tfork24(FALSE))
      /\ ForksEarly(Programs!texec) /\ ForksEarly(Programs!tfork2(TRUE, TRUE))
      /\ ForksEarly(Programs!tfork2(FALSE, FALSE)) /\ ForksEarly(Programs!tfork2(FALSE, TRUE))
  BY ParentPrograms
<1> DEFINE all == Programs!Calls_of
<1>4. DOMAIN all =
          {"hello", "hello_redir", "addresses", "tfork", "tfork24", "tfork24_arg", "texec",
           "tfork2", "tfork2_arg25", "tfork2_arg26", "tpipe", "tpipe2", "mem2", "smem_child",
           "hello_pthreads", "race", "create_threads", "clonetest", "padder", "padder27"}
  BY DEF Programs!Calls_of
<1>5. /\ all["hello"] = Programs!hello
      /\ all["hello_redir"] = Programs!hello_redir
      /\ all["addresses"] = Programs!addresses
      /\ all["tfork"] = Programs!tfork
      /\ all["tfork24"] = Programs!tfork24(TRUE)
      /\ all["tfork24_arg"] = Programs!tfork24(FALSE)
      /\ all["texec"] = Programs!texec
      /\ all["tfork2"] = Programs!tfork2(TRUE, TRUE)
      /\ all["tfork2_arg25"] = Programs!tfork2(FALSE, FALSE)
      /\ all["tfork2_arg26"] = Programs!tfork2(FALSE, TRUE)
      /\ all["tpipe"] = Programs!tpipe
      /\ all["tpipe2"] = Programs!tpipe2
      /\ all["mem2"] = Programs!mem2
      /\ all["smem_child"] = Programs!smem_child
      /\ all["hello_pthreads"] = Programs!hello_pthreads
      /\ all["race"] = Programs!race
      /\ all["create_threads"] = Programs!create_threads
      /\ all["clonetest"] = Programs!clonetest
      /\ all["padder"] = Programs!padder
      /\ all["padder27"] = Programs!padder27
  BY DEF Programs!Calls_of
<1> HIDE DEF all
<1>6. \A p \in DOMAIN all : ForksEarly(all[p])
  BY <1>2, <1>3, <1>4, <1>5, PipePrograms, MemoryPrograms
<1> QED BY <1>6 DEF all

-----------------------------------------------------------------------------
(* Every line once.  A sheet is what has come out on the terminal, or a     *)
(* buffer; c counts the lines printed under each number.                    *)
Papers == Tasks \cup {0}
SameCall(a, b) == a.by = b.by /\ a.at = b.at

AllOnce(S, c) ==
    /\ \A s \in Papers : IsSeq(S[s])
    /\ \A u \in Tasks : c[u] \in Nat
    /\ \A s \in Papers : \A i \in 1..Len(S[s]) :
          S[s][i].by \in Tasks /\ S[s][i].at \in Nat /\ S[s][i].at < c[S[s][i].by]
    /\ \A s, r \in Papers : \A i \in 1..Len(S[s]), j \in 1..Len(S[r]) :
          SameCall(S[s][i], S[r][j]) => s = r /\ i = j

(* A new line has a number of its own.                                      *)
LEMMA OnceWritten ==
    ASSUME NEW S, NEW c, AllOnce(S, c), NEW m \in Papers, NEW x, x.by \in Tasks, x.at = c[x.by],
           NEW S2, NEW c2,
           \A s \in Papers : S2[s] = IF s = m THEN Append(S[m], x) ELSE S[s],
           \A u \in Tasks : c2[u] = IF u = x.by THEN c[u] + 1 ELSE c[u]
    PROVE  AllOnce(S2, c2)
<1> DEFINE q == Append(S[m], x)
<1>1. /\ IsSeq(q) /\ Len(S[m]) \in Nat /\ Len(q) = Len(S[m]) + 1
      /\ \A i \in 1..Len(S[m]) : q[i] = S[m][i]
      /\ q[Len(S[m]) + 1] = x
  BY SeqAppend DEF AllOnce
<1> HIDE DEF q
<1>2. \A s \in Papers : S2[s] = IF s = m THEN q ELSE S[s]
  BY DEF q
<1>3. \A s \in Papers : \A i \in 1..Len(S2[s]) :
         \/ i \in 1..Len(S[s]) /\ S2[s][i] = S[s][i]
         \/ s = m /\ i = Len(S[m]) + 1 /\ S2[s][i] = x
  BY <1>1, <1>2
<1>4. \A s \in Papers : IsSeq(S2[s])
  BY <1>1, <1>2 DEF AllOnce
<1>5. \A u \in Tasks : c2[u] \in Nat /\ c[u] \in Nat /\ c[u] <= c2[u]
  BY DEF AllOnce
<1>6. ASSUME NEW s \in Papers, NEW i \in 1..Len(S2[s])
      PROVE  S2[s][i].by \in Tasks /\ S2[s][i].at \in Nat /\ S2[s][i].at < c2[S2[s][i].by]
  <2>1. CASE i \in 1..Len(S[s]) /\ S2[s][i] = S[s][i]
    <3>1. S[s][i].by \in Tasks /\ S[s][i].at \in Nat /\ S[s][i].at < c[S[s][i].by]
      BY <2>1 DEF AllOnce
    <3> QED BY <1>5, <2>1, <3>1
  <2>2. CASE S2[s][i] = x
    <3>1. x.at \in Nat /\ c2[x.by] = x.at + 1
      BY <1>5
    <3> QED BY <2>2, <3>1
  <2> QED BY <1>3, <2>1, <2>2
<1>7. ASSUME NEW s \in Papers, NEW i \in 1..Len(S[s]) PROVE ~SameCall(S[s][i], x)
  <2>1. S[s][i].at \in Nat /\ S[s][i].at < c[S[s][i].by] /\ c[x.by] \in Nat
    BY <1>5 DEF AllOnce
  <2> QED BY <2>1 DEF SameCall
<1>8. ASSUME NEW s \in Papers, NEW r \in Papers, NEW i \in 1..Len(S2[s]), NEW j \in 1..Len(S2[r]),
             SameCall(S2[s][i], S2[r][j])
      PROVE  s = r /\ i = j
  <2>1. CASE i \in 1..Len(S[s]) /\ S2[s][i] = S[s][i] /\ j \in 1..Len(S[r]) /\ S2[r][j] = S[r][j]
    BY <1>8, <2>1 DEF AllOnce
  <2>2. CASE i \in 1..Len(S[s]) /\ S2[s][i] = S[s][i] /\ S2[r][j] = x
    BY <1>7, <1>8, <2>2
  <2>3. CASE S2[s][i] = x /\ j \in 1..Len(S[r]) /\ S2[r][j] = S[r][j]
    <3>1. ~SameCall(S[r][j], x)
      BY <1>7, <2>3
    <3> QED BY <1>8, <2>3, <3>1 DEF SameCall
  <2>4. CASE s = m /\ i = Len(S[m]) + 1 /\ r = m /\ j = Len(S[m]) + 1
    BY <2>4
  <2> QED BY <1>3, <2>1, <2>2, <2>3, <2>4
<1> QED BY <1>4, <1>5, <1>6, <1>8 DEF AllOnce

(* The lines of a buffer leave it for the terminal.                         *)
LEMMA OnceFlushed ==
    ASSUME NEW S, NEW c, AllOnce(S, c), NEW m \in Tasks, 0 \notin Tasks, NEW S2,
           \A s \in Papers : S2[s] = IF s = 0 THEN S[0] \o S[m] ELSE IF s = m THEN <<>> ELSE S[s]
    PROVE  AllOnce(S2, c)
<1> DEFINE q == S[0] \o S[m]
<1>0. m \in Papers /\ 0 \in Papers /\ m # 0
  BY DEF Papers
<1>1. /\ IsSeq(q) /\ Len(S[0]) \in Nat /\ Len(S[m]) \in Nat /\ Len(q) = Len(S[0]) + Len(S[m])
      /\ \A i \in 1..Len(q) : q[i] = IF i <= Len(S[0]) THEN S[0][i] ELSE S[m][i - Len(S[0])]
  BY <1>0, SeqCat DEF AllOnce
<1> HIDE DEF q
<1>2. S2[0] = q /\ S2[m] = <<>> /\ \A s \in Papers : s # 0 /\ s # m => S2[s] = S[s]
  BY <1>0 DEF q
<1>3. ASSUME NEW s \in Papers, NEW i \in 1..Len(S2[s])
      PROVE  \/ i \in 1..Len(S[s]) /\ S2[s][i] = S[s][i] /\ s # m
             \/ s = 0 /\ i > Len(S[0]) /\ i - Len(S[0]) \in 1..Len(S[m]) /\ S2[s][i] = S[m][i - Len(S[0])]
  <2>1. CASE s = 0
    <3>1. i \in 1..Len(q) /\ S2[s] = q
      BY <1>2, <2>1
    <3>2. q[i] = IF i <= Len(S[0]) THEN S[0][i] ELSE S[m][i - Len(S[0])]
      BY <1>1, <3>1
    <3>3. CASE i <= Len(S[0])
      <4>1. i \in 1..Len(S[0])
        BY <1>1, <3>1, <3>3
      <4> QED BY <1>0, <2>1, <3>1, <3>2, <3>3, <4>1
    <3>4. CASE ~(i <= Len(S[0]))
      <4>1. i > Len(S[0]) /\ i - Len(S[0]) \in 1..Len(S[m])
        <5>1. \A a, b \in Nat : \A k \in 1..(a + b) : ~(k <= a) => k > a /\ k - a \in 1..b
          OBVIOUS
        <5>2. Len(S[0]) \in Nat /\ Len(S[m]) \in Nat /\ i \in 1..(Len(S[0]) + Len(S[m]))
          BY <1>1, <3>1
        <5> QED BY ONLY <3>4, <5>1, <5>2
      <4> QED BY <2>1, <3>1, <3>2, <3>4, <4>1
    <3> QED BY <3>3, <3>4
  <2>2. CASE s = m
    BY <1>2, <1>3, <2>2, NothingIsSeq
  <2>3. CASE s # 0 /\ s # m
    BY <1>2, <1>3, <2>3
  <2> QED BY <2>1, <2>2, <2>3
<1>4. \A s \in Papers : IsSeq(S2[s])
  BY <1>1, <1>2, NothingIsSeq DEF AllOnce
<1>5. ASSUME NEW s \in Papers, NEW i \in 1..Len(S2[s])
      PROVE  S2[s][i].by \in Tasks /\ S2[s][i].at \in Nat /\ S2[s][i].at < c[S2[s][i].by]
  <2>0. \A s1 \in Papers : \A i1 \in 1..Len(S[s1]) :
           S[s1][i1].by \in Tasks /\ S[s1][i1].at \in Nat /\ S[s1][i1].at < c[S[s1][i1].by]
    BY DEF AllOnce
  <2>1. CASE i \in 1..Len(S[s]) /\ S2[s][i] = S[s][i]
    BY <2>0, <2>1
  <2>2. CASE i - Len(S[0]) \in 1..Len(S[m]) /\ S2[s][i] = S[m][i - Len(S[0])]
    <3>1. LET x == S[m][i - Len(S[0])] IN x.by \in Tasks /\ x.at \in Nat /\ x.at < c[x.by]
      BY <1>0, <2>0, <2>2
    <3> QED BY <2>2, <3>1
  <2> QED BY <1>3, <2>1, <2>2
<1>6. ASSUME NEW s \in Papers, NEW r \in Papers, NEW i \in 1..Len(S2[s]), NEW j \in 1..Len(S2[r]),
             SameCall(S2[s][i], S2[r][j])
      PROVE  s = r /\ i = j
  <2>0. \A s1, r1 \in Papers : \A i1 \in 1..Len(S[s1]), j1 \in 1..Len(S[r1]) :
           SameCall(S[s1][i1], S[r1][j1]) => s1 = r1 /\ i1 = j1
    BY DEF AllOnce
  <2>1. CASE i \in 1..Len(S[s]) /\ S2[s][i] = S[s][i] /\ j \in 1..Len(S[r]) /\ S2[r][j] = S[r][j]
    BY <1>6, <2>0, <2>1
  <2>2. CASE /\ i \in 1..Len(S[s]) /\ S2[s][i] = S[s][i] /\ s # m
             /\ j - Len(S[0]) \in 1..Len(S[m]) /\ S2[r][j] = S[m][j - Len(S[0])]
    <3>1. SameCall(S[s][i], S[m][j - Len(S[0])])
      BY <1>6, <2>2
    <3> QED BY <1>0, <2>0, <2>2, <3>1
  <2>3. CASE /\ j \in 1..Len(S[r]) /\ S2[r][j] = S[r][j] /\ r # m
             /\ i - Len(S[0]) \in 1..Len(S[m]) /\ S2[s][i] = S[m][i - Len(S[0])]
    <3>1. SameCall(S[m][i - Len(S[0])], S[r][j])
      BY <1>6, <2>3
    <3> QED BY <1>0, <2>0, <2>3, <3>1
  <2>4. CASE /\ s = 0 /\ r = 0 /\ i > Len(S[0]) /\ j > Len(S[0])
             /\ i - Len(S[0]) \in 1..Len(S[m]) /\ S2[s][i] = S[m][i - Len(S[0])]
             /\ j - Len(S[0]) \in 1..Len(S[m]) /\ S2[r][j] = S[m][j - Len(S[0])]
    <3>1. SameCall(S[m][i - Len(S[0])], S[m][j - Len(S[0])])
      BY <1>6, <2>4
    <3>2. i - Len(S[0]) = j - Len(S[0])
      BY <1>0, <2>0, <2>4, <3>1
    <3>3. i \in Int /\ j \in Int
      OBVIOUS
    <3> QED BY <1>1, <2>4, <3>2, <3>3
  <2>5. \/ i \in 1..Len(S[s]) /\ S2[s][i] = S[s][i] /\ s # m
        \/ s = 0 /\ i > Len(S[0]) /\ i - Len(S[0]) \in 1..Len(S[m]) /\ S2[s][i] = S[m][i - Len(S[0])]
    BY <1>3
  <2>6. \/ j \in 1..Len(S[r]) /\ S2[r][j] = S[r][j] /\ r # m
        \/ r = 0 /\ j > Len(S[0]) /\ j - Len(S[0]) \in 1..Len(S[m]) /\ S2[r][j] = S[m][j - Len(S[0])]
    BY <1>3
  <2> QED BY <2>1, <2>2, <2>3, <2>4, <2>5, <2>6
<1> QED BY <1>4, <1>5, <1>6 DEF AllOnce

(* What was in a buffer is lost, or goes elsewhere.                         *)
LEMMA OnceDropped ==
    ASSUME NEW S, NEW c, AllOnce(S, c), NEW S2, NEW c2,
           \A s \in Papers : S2[s] = S[s] \/ S2[s] = <<>>,
           \A u \in Tasks : c2[u] = c[u]
    PROVE  AllOnce(S2, c2)
<1>1. \A s \in Papers : \A i \in 1..Len(S2[s]) : i \in 1..Len(S[s]) /\ S2[s][i] = S[s][i]
  BY NothingIsSeq
<1>2. \A s \in Papers : IsSeq(S2[s])
  BY NothingIsSeq DEF AllOnce
<1>3. \A s \in Papers : \A i \in 1..Len(S2[s]) :
          S2[s][i].by \in Tasks /\ S2[s][i].at \in Nat /\ S2[s][i].at < c2[S2[s][i].by]
  BY <1>1 DEF AllOnce
<1>4. ASSUME NEW s \in Papers, NEW r \in Papers, NEW i \in 1..Len(S2[s]), NEW j \in 1..Len(S2[r]),
             SameCall(S2[s][i], S2[r][j])
      PROVE  s = r /\ i = j
  <2>1. /\ i \in 1..Len(S[s]) /\ S2[s][i] = S[s][i]
        /\ j \in 1..Len(S[r]) /\ S2[r][j] = S[r][j]
    BY <1>1
  <2> QED BY <1>4, <2>1 DEF AllOnce
<1> QED BY <1>2, <1>3, <1>4 DEF AllOnce

-----------------------------------------------------------------------------
(* What holds while a small program runs.  Its first task is the only one   *)
(* that forks, and its number is not used again; as long as it has a fork   *)
(* to come its buffer is empty on a terminal, and nobody shares a memory.   *)
TaskFields == {"todo", "state", "thread", "proc", "parent", "mem", "temp", "said", "pids", "fd"}
MemFields == {"var", "buffer", "by_line", "handler", "mutex"}

ForksLeft(s) == \E k \in 1..Len(s) : s[k].op = "fork"
TaskFollows(t, s) == IF t = 1 THEN ForksEarly(s) ELSE OfChildren(s)

ProgramShape ==
    /\ DOMAIN task = Tasks /\ \A t \in Tasks : DOMAIN task[t] = TaskFields
    /\ DOMAIN memory = Tasks /\ \A m \in Tasks : DOMAIN memory[m] = MemFields
    /\ DOMAIN output = Programs!Sink

Followed ==
    \A t \in Programs!Running : task[t].mem \in Tasks /\ TaskFollows(t, task[t].todo)

FirstTask ==
    task[1].state \in {"run", "zombie", "killed"} /\ task[1].thread = FALSE /\ task[1].parent = 0

Handlers == \A m \in Tasks : Lines(memory[m].handler)

BeforeForks ==
    stdout = "tty" /\ task[1].state = "run" /\ ForksLeft(task[1].todo) =>
        /\ memory[1].buffer = <<>> /\ memory[1].by_line = TRUE
        /\ \A t \in Programs!Running : task[t].mem = t

Sheets == [s \in Papers |-> IF s = 0 THEN output["tty"] ELSE memory[s].buffer]
Saids == [t \in Tasks |-> task[t].said]
LinesOnce == stdout = "tty" => AllOnce(Sheets, Saids)

ProgramInv == ProgramShape /\ Followed /\ FirstTask /\ Handlers /\ BeforeForks /\ LinesOnce

LEMMA TaskNumbers == 1 \in Tasks /\ 0 \notin Tasks /\ Tasks \subseteq Nat
BY TaskAssumption

LEMMA ProgramInvImplies == ProgramInv => Programs!LinesComeOutOnce
<1> SUFFICES ASSUME ProgramInv, stdout = "tty" PROVE Programs!IsInjective(output["tty"])
  BY DEF Programs!LinesComeOutOnce
<1>1. AllOnce(Sheets, Saids)
  BY DEF ProgramInv, LinesOnce
<1>2. 0 \in Papers /\ Sheets[0] = output["tty"]
  BY DEF Papers, Sheets
<1> DEFINE s == output["tty"]
<1>3. IsSeq(s) /\ \A i, j \in 1..Len(s) : SameCall(s[i], s[j]) => i = j
  BY <1>1, <1>2 DEF AllOnce
<1> HIDE DEF s
<1>4. DOMAIN s = 1..Len(s)
  BY <1>3 DEF IsSeq
<1>5. \A i, j \in DOMAIN s : s[i] = s[j] => i = j
  BY <1>3, <1>4 DEF SameCall
<1> QED BY <1>5 DEF Programs!IsInjective, s

LEMMA ProgramInit ==
    ASSUME Programs!Init
    PROVE  ProgramInv
<1> USE TaskNumbers
<1> DEFINE p == Programs!Calls_of[program]
<1>1. ForksEarly(p)
  BY ProgramsForkEarly DEF Programs!Init
<1>2. Programs!ProcInit(p, Programs!Variables, stdout) /\ stdout \in {"tty", "log"}
  BY DEF Programs!Init
<1> HIDE DEF p
<1>3. /\ DOMAIN task = Tasks
      /\ \A t \in Tasks : task[t] = IF t = 1 THEN [Programs!NoTask EXCEPT !.todo = p, !.state = "run", !.proc = 1,
                                                     !.mem = 1, !.fd = Programs!Descriptors(stdout)]
                                    ELSE Programs!NoTask
  BY <1>2 DEF Programs!ProcInit
<1>4. \A t \in Tasks : /\ DOMAIN task[t] = TaskFields
                       /\ task[t].state = IF t = 1 THEN "run" ELSE "none"
                       /\ task[t].said = 0
                       /\ t = 1 => task[t].todo = p /\ task[t].mem = 1 /\ task[t].thread = FALSE
                                   /\ task[t].parent = 0
  <2>1. ASSUME NEW t \in Tasks, t # 1
        PROVE  DOMAIN task[t] = TaskFields /\ task[t].state = "none" /\ task[t].said = 0
    BY <1>3, <2>1 DEF Programs!NoTask, TaskFields
  <2>2. /\ DOMAIN task[1] = TaskFields /\ task[1].state = "run" /\ task[1].said = 0
        /\ task[1].todo = p /\ task[1].mem = 1 /\ task[1].thread = FALSE /\ task[1].parent = 0
    BY <1>3 DEF Programs!NoTask, TaskFields
  <2> QED BY <2>1, <2>2
<1>5. /\ DOMAIN memory = Tasks
      /\ \A m \in Tasks : /\ DOMAIN memory[m] = MemFields
                          /\ memory[m].buffer = <<>> /\ memory[m].handler = <<>>
                          /\ memory[m].by_line = (stdout = "tty")
  BY <1>2 DEF Programs!ProcInit, Programs!Fresh, MemFields
<1>6. DOMAIN output = Programs!Sink /\ output["tty"] = <<>>
  BY <1>2 DEF Programs!ProcInit, Programs!Sink
<1>7. Programs!Running = {1}
  <2>1. \A t \in Tasks : task[t].state = "run" <=> t = 1
    BY <1>4
  <2> QED BY <2>1 DEF Programs!Running
<1>8. ProgramShape
  BY <1>3, <1>4, <1>5, <1>6 DEF ProgramShape
<1>9. Followed /\ FirstTask
  BY <1>1, <1>4, <1>7 DEF Followed, FirstTask, TaskFollows
<1>10. Handlers
  BY <1>5, LinesCalled DEF Handlers
<1>11. BeforeForks
  BY <1>4, <1>5, <1>7 DEF BeforeForks
<1>12. LinesOnce
  <2>1. \A s \in Papers : Sheets[s] = <<>>
    BY <1>5, <1>6 DEF Papers, Sheets
  <2>2. \A u \in Tasks : Saids[u] = 0
    BY <1>4 DEF Saids
  <2>3. AllOnce(Sheets, Saids)
    BY <2>1, <2>2, NothingIsSeq DEF AllOnce
  <2> QED BY <2>3 DEF LinesOnce
<1> QED BY <1>8, <1>9, <1>10, <1>11, <1>12 DEF ProgramInv

(* The rest of a program, and lines in front of it.                         *)
LEMMA RestFollows ==
    ASSUME NEW t, NEW s, TaskFollows(t, s), s # <<>>
    PROVE  /\ IsSeq(s) /\ TaskFollows(t, Tail(s))
           /\ ForksLeft(Tail(s)) => ForksLeft(s) /\ ~Shares(Head(s))
           /\ OfParent(Head(s)) /\ (t # 1 => OfChild(Head(s)))
           /\ Head(s).op = "fork" => ForksLeft(s)
<1>0. IsSeq(s)
  BY DEF TaskFollows, ForksEarly, OfChildren
<1>1. /\ IsSeq(Tail(s)) /\ Len(s) \in Nat \ {0} /\ Len(Tail(s)) = Len(s) - 1
      /\ \A i \in 1..Len(s)-1 : Tail(s)[i] = s[i + 1]
      /\ Head(s) = s[1]
  BY <1>0, SeqTail
<1> DEFINE r == Tail(s)
           c == Head(s)
<1>2. 1 \in 1..Len(s) /\ c = s[1]
  BY <1>1
<1>3. \A k \in 1..Len(r) : k+1 \in 1..Len(s) /\ r[k] = s[k+1] /\ 1 < k+1
  BY <1>1
<1>4. IsSeq(r)
  BY <1>1
<1> HIDE DEF r, c
<1>5. CASE t = 1
  <2>1. ForksEarly(s)
    BY <1>5 DEF TaskFollows
  <2>2. \A k \in 1..Len(r) : OfParent(r[k])
    BY <1>3, <2>1 DEF ForksEarly
  <2>3. ASSUME NEW j \in 1..Len(r), NEW k \in 1..Len(r), j < k, Shares(r[j]) PROVE r[k].op # "fork"
    <3>1. j+1 < k+1 /\ j+1 \in 1..Len(s) /\ k+1 \in 1..Len(s)
      BY <1>3, <2>3
    <3> QED BY <1>3, <2>1, <2>3, <3>1 DEF ForksEarly
  <2>4. ForksEarly(r)
    BY <1>4, <2>2, <2>3 DEF ForksEarly
  <2>5. OfParent(c)
    BY <1>2, <2>1 DEF ForksEarly
  <2>6. ForksLeft(r) => ForksLeft(s) /\ ~Shares(c)
    BY <1>2, <1>3, <2>1 DEF ForksLeft, ForksEarly
  <2>7. c.op = "fork" => ForksLeft(s)
    BY <1>2 DEF ForksLeft
  <2> QED BY <1>0, <1>5, <2>4, <2>5, <2>6, <2>7 DEF TaskFollows, r, c
<1>6. CASE t # 1
  <2>1. OfChildren(s)
    BY <1>6 DEF TaskFollows
  <2>2. \A k \in 1..Len(s) : OfChild(s[k])
    BY <2>1 DEF OfChildren
  <2>3. OfChildren(r)
    BY <1>3, <1>4, <2>2 DEF OfChildren
  <2>4. OfChild(c) /\ OfParent(c)
    BY <1>2, <2>2 DEF OfParent
  <2>5. ~ForksLeft(r)
    BY <2>2, <1>3, PlainIsOfAll DEF ForksLeft
  <2>6. c.op = "fork" => ForksLeft(s)
    BY <1>2 DEF ForksLeft
  <2> QED BY <1>0, <1>6, <2>3, <2>4, <2>5, <2>6 DEF TaskFollows, r, c
<1> QED BY <1>5, <1>6

LEMMA LinesFollow ==
    ASSUME NEW t, NEW s, TaskFollows(t, s), NEW p, Lines(p)
    PROVE  TaskFollows(t, p \o s) /\ (ForksLeft(p \o s) => ForksLeft(s))
<1>1. IsSeq(s) /\ IsSeq(p)
  BY DEF TaskFollows, ForksEarly, OfChildren, Lines
<1>2. TaskFollows(t, p \o s)
  BY Together, WhoseCalls, Zenon DEF TaskFollows
<1>3. ASSUME ForksLeft(p \o s) PROVE ForksLeft(s)
  <2>1. /\ Len(p) \in Nat /\ Len(s) \in Nat /\ Len(p \o s) = Len(p) + Len(s)
        /\ \A i \in 1..Len(p \o s) : (p \o s)[i] = IF i <= Len(p) THEN p[i] ELSE s[i - Len(p)]
    BY <1>1, SeqCat
  <2>2. PICK k \in 1..Len(p \o s) : (p \o s)[k].op = "fork"
    BY <1>3 DEF ForksLeft
  <2>3. ~(k <= Len(p))
    <3> SUFFICES ASSUME k <= Len(p) PROVE FALSE
      OBVIOUS
    <3>1. k \in 1..Len(p) /\ (p \o s)[k] = p[k]
      BY <2>1
    <3>2. Plain(p[k])
      BY <3>1 DEF Lines, PlainLine
    <3> QED BY <2>2, <3>1, <3>2 DEF Plain
  <2>4. k - Len(p) \in 1..Len(s)
    <3>1. \A a, b \in Nat : \A i \in 1..(a + b) : ~(i <= a) => i - a \in 1..b
      OBVIOUS
    <3> QED BY <2>1, <2>2, <2>3, <3>1
  <2> QED BY <2>1, <2>2, <2>3, <2>4 DEF ForksLeft
<1> QED BY <1>2, <1>3

-----------------------------------------------------------------------------
(* Kinds of steps.  Task t goes on, and no other task but one that did not  *)
(* run any more changes its state.                                          *)
TasksGo(t) ==
    /\ DOMAIN task' = Tasks /\ \A u \in Tasks : DOMAIN task'[u] = TaskFields
    /\ \A u \in Tasks :
          /\ task'[u].thread = task[u].thread /\ task'[u].parent = task[u].parent
          /\ task'[u].mem = task[u].mem
          /\ \/ task'[u].state = task[u].state
             \/ u # 1 /\ task[u].state # "run" /\ task'[u].state # "run"
          /\ u # t => task'[u].todo = task[u].todo
    /\ TaskFollows(t, task'[t].todo)
    /\ ForksLeft(task'[t].todo) => ForksLeft(task[t].todo)

MemoryKept(B) ==
    /\ DOMAIN memory' = Tasks /\ \A m \in Tasks : DOMAIN memory'[m] = MemFields
    /\ \A m \in Tasks : /\ Lines(memory'[m].handler)
                        /\ m \notin B => memory'[m].buffer = memory[m].buffer
                                         /\ memory'[m].by_line = memory[m].by_line

OutputKept == DOMAIN output' = Programs!Sink /\ UNCHANGED <<program, stdout>>

(* A buffer that must be empty stays so, although B may change.             *)
StaysEmpty(B) ==
    /\ stdout = "tty" /\ 1 \in B /\ memory[1].buffer = <<>> /\ memory[1].by_line = TRUE
    /\ ForksLeft(task'[1].todo) /\ (\A u \in Programs!Running : task[u].mem = u)
    => memory'[1].buffer = <<>> /\ memory'[1].by_line = TRUE

LEMMA TasksGoOn ==
    ASSUME ProgramInv, NEW t \in Programs!Running, NEW B, TasksGo(t), MemoryKept(B), OutputKept,
           StaysEmpty(B)
    PROVE  ProgramShape' /\ Followed' /\ FirstTask' /\ Handlers' /\ BeforeForks'
<1> USE TaskNumbers
<1>1. t \in Tasks /\ \A u \in Tasks : u \in Programs!Running <=> task[u].state = "run"
  BY DEF Programs!Running
<1>2. \A u \in Tasks : task'[u].state = "run" <=> task[u].state = "run"
  BY DEF TasksGo
<1>3. Programs!Running' = Programs!Running
  BY <1>2 DEF Programs!Running
<1>4. ProgramShape'
  BY DEF ProgramShape, TasksGo, MemoryKept, OutputKept
<1>5. Followed'
  <2> SUFFICES ASSUME NEW u \in Programs!Running PROVE task'[u].mem \in Tasks /\ TaskFollows(u, task'[u].todo)
    BY <1>3 DEF Followed, TaskFollows
  <2>1. u \in Tasks /\ task[u].mem \in Tasks /\ TaskFollows(u, task[u].todo)
    BY DEF ProgramInv, Followed, Programs!Running
  <2>2. task'[u].mem = task[u].mem /\ (u # t => task'[u].todo = task[u].todo)
    BY <2>1 DEF TasksGo
  <2> QED BY <2>1, <2>2 DEF TasksGo
<1>6. FirstTask'
  BY DEF ProgramInv, FirstTask, TasksGo
<1>7. Handlers'
  BY DEF MemoryKept, Handlers
<1>8. BeforeForks'
  <2> SUFFICES ASSUME stdout' = "tty", task'[1].state = "run", ForksLeft(task'[1].todo)
               PROVE  /\ memory'[1].buffer = <<>> /\ memory'[1].by_line = TRUE
                      /\ \A u \in Programs!Running' : task'[u].mem = u
    BY DEF BeforeForks, ForksLeft
  <2>1. stdout = "tty" /\ task[1].state = "run" /\ ForksLeft(task[1].todo)
    BY <1>2 DEF TasksGo, OutputKept
  <2>2. /\ memory[1].buffer = <<>> /\ memory[1].by_line = TRUE
        /\ \A u \in Programs!Running : task[u].mem = u
    BY <2>1 DEF ProgramInv, BeforeForks
  <2>3. memory'[1].buffer = <<>> /\ memory'[1].by_line = TRUE
    BY <2>1, <2>2 DEF MemoryKept, StaysEmpty
  <2>4. \A u \in Programs!Running' : task'[u].mem = u
    <3> SUFFICES ASSUME NEW u \in Programs!Running PROVE task'[u].mem = u
      BY <1>3
    <3>1. u \in Tasks /\ task[u].mem = u
      BY <2>2 DEF Programs!Running
    <3> QED BY <3>1 DEF TasksGo
  <2> QED BY <2>3, <2>4
<1> QED BY <1>4, <1>5, <1>6, <1>7, <1>8

(* A step that prints nothing. *)
SaidsStay == \A u \in Tasks : task'[u].said = task[u].said

(* No new line, and no buffer grows: a line is where it was, or lost.       *)
LEMMA LinesStay ==
    ASSUME ProgramInv, SaidsStay, stdout' = stdout, output'["tty"] = output["tty"],
           \A m \in Tasks : memory'[m].buffer = memory[m].buffer \/ memory'[m].buffer = <<>>
    PROVE  LinesOnce'
<1> SUFFICES ASSUME stdout' = "tty" PROVE AllOnce(Sheets', Saids')
  BY DEF LinesOnce, AllOnce
<1>1. AllOnce(Sheets, Saids)
  BY DEF ProgramInv, LinesOnce
<1>2. \A s \in Papers : Sheets'[s] = Sheets[s] \/ Sheets'[s] = <<>>
  BY DEF Sheets, Papers
<1>3. \A u \in Tasks : Saids'[u] = Saids[u]
  BY DEF Saids, SaidsStay
<1> HIDE DEF Sheets, Saids
<1> QED BY <1>1, <1>2, <1>3, OnceDropped

LEMMA QuietStep ==
    ASSUME ProgramInv, NEW t \in Programs!Running, TasksGo(t), SaidsStay, MemoryKept({}), output' = output,
           UNCHANGED <<program, stdout>>
    PROVE  ProgramInv'
<1>1. OutputKept
  BY DEF OutputKept, ProgramInv, ProgramShape
<1>2. ProgramShape' /\ Followed' /\ FirstTask' /\ Handlers' /\ BeforeForks'
  <2>1. StaysEmpty({})
    BY DEF StaysEmpty
  <2> QED BY <1>1, <2>1, TasksGoOn
<1>3. LinesOnce'
  BY LinesStay DEF MemoryKept
<1> QED BY <1>2, <1>3 DEF ProgramInv

(* The next call is made, and the rest is what is left.                     *)
Called(t) == t \in Programs!Running /\ task[t].todo # <<>>

LEMMA RestGoes ==
    ASSUME ProgramInv, NEW t, Called(t), DOMAIN task' = Tasks,
           \A u \in Tasks : u # t => task'[u] = task[u],
           DOMAIN task'[t] = TaskFields, task'[t].todo = Programs!Rest(t),
           task'[t].state = task[t].state, task'[t].thread = task[t].thread,
           task'[t].parent = task[t].parent, task'[t].mem = task[t].mem
    PROVE  TasksGo(t)
<1>1. t \in Tasks /\ TaskFollows(t, task[t].todo)
  BY DEF ProgramInv, Followed, Called, Programs!Running
<1>2. TaskFollows(t, Tail(task[t].todo)) /\ (ForksLeft(Tail(task[t].todo)) => ForksLeft(task[t].todo))
  BY <1>1, RestFollows DEF Called
<1>3. \A u \in Tasks : DOMAIN task[u] = TaskFields
  BY DEF ProgramInv, ProgramShape
<1>4. TaskFollows(t, task'[t].todo) /\ (ForksLeft(task'[t].todo) => ForksLeft(task[t].todo))
  BY <1>2 DEF Programs!Rest
<1>5. \A u \in Tasks :
          /\ task'[u].thread = task[u].thread /\ task'[u].parent = task[u].parent
          /\ task'[u].mem = task[u].mem /\ task'[u].state = task[u].state
          /\ u # t => task'[u].todo = task[u].todo
  OBVIOUS
<1>6. \A u \in Tasks : DOMAIN task'[u] = TaskFields
  BY <1>3
<1> QED BY <1>4, <1>5, <1>6 DEF TasksGo

LEMMA GoesOnGoes ==
    ASSUME ProgramInv, NEW t, Called(t), Programs!GoesOn(t)
    PROVE  TasksGo(t) /\ SaidsStay
<1> DEFINE r == Programs!Rest(t)
<1>1. task' = [task EXCEPT ![t].todo = r]
  BY DEF Programs!GoesOn
<1> HIDE DEF r
<1>2. DOMAIN task = Tasks /\ t \in Tasks /\ DOMAIN task[t] = TaskFields
  BY DEF ProgramInv, ProgramShape, Called, Programs!Running
<1>3. /\ DOMAIN task' = Tasks /\ \A u \in Tasks : u # t => task'[u] = task[u]
      /\ task'[t] = [task[t] EXCEPT !.todo = r]
  BY <1>1, <1>2
<1>4. /\ DOMAIN task'[t] = TaskFields /\ task'[t].todo = r
      /\ task'[t].state = task[t].state /\ task'[t].thread = task[t].thread
      /\ task'[t].parent = task[t].parent /\ task'[t].mem = task[t].mem /\ task'[t].said = task[t].said
  BY <1>2, <1>3 DEF TaskFields
<1>5. TasksGo(t)
  BY <1>3, <1>4, RestGoes DEF r
<1>6. SaidsStay
  BY <1>3, <1>4 DEF SaidsStay
<1> QED BY <1>5, <1>6

LEMMA CallsCalled ==
    ASSUME NEW t, NEW x, Programs!Calls(t, x)
    PROVE  Called(t) /\ t \in Programs!Running
BY DEF Programs!Calls, Called

(* A change of variables or of the mutex. *)
LEMMA MemoryStays ==
    ASSUME ProgramInv, memory' = memory
    PROVE  MemoryKept({})
BY DEF ProgramInv, ProgramShape, Handlers, MemoryKept

LEMMA VariableChanges ==
    ASSUME ProgramInv, NEW m, DOMAIN memory' = DOMAIN memory,
           \A k \in Tasks : k # m => memory'[k] = memory[k],
           m \in Tasks => /\ DOMAIN memory'[m] = DOMAIN memory[m]
                          /\ memory'[m].buffer = memory[m].buffer
                          /\ memory'[m].by_line = memory[m].by_line
                          /\ memory'[m].handler = memory[m].handler
    PROVE  MemoryKept({})
BY DEF ProgramInv, ProgramShape, Handlers, MemoryKept

LEMMA VarStays ==
    ASSUME ProgramInv, NEW m \in Tasks, NEW x, memory' = [memory EXCEPT ![m].var = x]
    PROVE  MemoryKept({})
<1>1. DOMAIN memory = Tasks /\ DOMAIN memory[m] = MemFields
  BY DEF ProgramInv, ProgramShape
<1>2. /\ DOMAIN memory' = Tasks /\ \A k \in Tasks : k # m => memory'[k] = memory[k]
      /\ memory'[m] = [memory[m] EXCEPT !.var = x]
  BY <1>1
<1>3. /\ DOMAIN memory'[m] = MemFields /\ memory'[m].buffer = memory[m].buffer
      /\ memory'[m].by_line = memory[m].by_line /\ memory'[m].handler = memory[m].handler
  BY <1>1, <1>2 DEF MemFields
<1> QED BY <1>1, <1>2, <1>3, VariableChanges

LEMMA MutexStays ==
    ASSUME ProgramInv, NEW m \in Tasks, NEW x, memory' = [memory EXCEPT ![m].mutex = x]
    PROVE  MemoryKept({})
<1>1. DOMAIN memory = Tasks /\ DOMAIN memory[m] = MemFields
  BY DEF ProgramInv, ProgramShape
<1>2. /\ DOMAIN memory' = Tasks /\ \A k \in Tasks : k # m => memory'[k] = memory[k]
      /\ memory'[m] = [memory[m] EXCEPT !.mutex = x]
  BY <1>1
<1>3. /\ DOMAIN memory'[m] = MemFields /\ memory'[m].buffer = memory[m].buffer
      /\ memory'[m].by_line = memory[m].by_line /\ memory'[m].handler = memory[m].handler
  BY <1>1, <1>2 DEF MemFields
<1> QED BY <1>1, <1>2, <1>3, VariableChanges

LEMMA VariableSteps ==
    ASSUME ProgramInv, NEW t \in Tasks, UNCHANGED <<program, stdout>>,
           \/ Programs!SetVar(t) \/ Programs!SetShared(t) \/ Programs!Load(t) \/ Programs!Store(t)
           \/ Programs!Add(t) \/ Programs!Lock(t) \/ Programs!Unlock(t)
    PROVE  ProgramInv'
<1>1. Called(t) /\ t \in Programs!Running /\ output' = output
  BY CallsCalled DEF Programs!SetVar, Programs!SetShared, Programs!Load, Programs!Store,
     Programs!Add, Programs!Lock, Programs!Unlock
<1>2. task[t].mem \in Tasks /\ DOMAIN task = Tasks /\ DOMAIN task[t] = TaskFields
  BY <1>1 DEF ProgramInv, Followed, ProgramShape
<1> DEFINE m == task[t].mem
<1>3. CASE Programs!SetVar(t) \/ Programs!Store(t) \/ Programs!Add(t)
  <2>1. Programs!GoesOn(t)
    BY <1>3 DEF Programs!SetVar, Programs!Store, Programs!Add
  <2>2. \E x : memory' = [memory EXCEPT ![m].var = x]
    BY <1>3 DEF Programs!SetVar, Programs!Store, Programs!Add
  <2>3. MemoryKept({})
    BY <1>2, <2>2, VarStays
  <2> QED BY <1>1, <2>1, <2>3, GoesOnGoes, QuietStep
<1>4. CASE Programs!SetShared(t)
  <2>1. Programs!GoesOn(t) /\ memory' = memory
    BY <1>4 DEF Programs!SetShared
  <2> QED BY <1>1, <2>1, MemoryStays, GoesOnGoes, QuietStep
<1>5. CASE Programs!Lock(t) \/ Programs!Unlock(t)
  <2>1. Programs!GoesOn(t)
    BY <1>5 DEF Programs!Lock, Programs!Unlock
  <2>2. \E x : memory' = [memory EXCEPT ![m].mutex = x]
    BY <1>5 DEF Programs!Lock, Programs!Unlock
  <2>3. MemoryKept({})
    BY <1>2, <2>2, MutexStays
  <2> QED BY <1>1, <2>1, <2>3, GoesOnGoes, QuietStep
<1>6. CASE Programs!Load(t)
  <2> DEFINE r == Programs!Rest(t)
             x == Programs!Mem(t).var[Programs!Call(t).var]
  <2>1. task' = [task EXCEPT ![t].todo = r, ![t].temp = x] /\ memory' = memory
    BY <1>6 DEF Programs!Load
  <2> HIDE DEF r, x
  <2>2. /\ DOMAIN task' = Tasks /\ \A u \in Tasks : u # t => task'[u] = task[u]
        /\ task'[t] = [task[t] EXCEPT !.todo = r, !.temp = x]
    BY <1>2, <2>1
  <2>3. /\ DOMAIN task'[t] = TaskFields /\ task'[t].todo = r
        /\ task'[t].state = task[t].state /\ task'[t].thread = task[t].thread
        /\ task'[t].parent = task[t].parent /\ task'[t].mem = task[t].mem /\ task'[t].said = task[t].said
    BY <1>2, <2>2 DEF TaskFields
  <2>4. TasksGo(t)
    BY <1>1, <2>2, <2>3, RestGoes DEF r
  <2>5. SaidsStay
    BY <2>2, <2>3 DEF SaidsStay
  <2> QED BY <1>1, <2>1, <2>4, <2>5, MemoryStays, QuietStep
<1> QED BY <1>3, <1>4, <1>5, <1>6

LEMMA DescriptorGoes ==
    ASSUME ProgramInv, NEW t, Called(t), NEW x,
           task' = [task EXCEPT ![t].todo = Programs!Rest(t), ![t].fd = x]
    PROVE  TasksGo(t) /\ SaidsStay
<1> DEFINE r == Programs!Rest(t)
<1>1. task' = [task EXCEPT ![t].todo = r, ![t].fd = x]
  OBVIOUS
<1> HIDE DEF r
<1>2. DOMAIN task = Tasks /\ t \in Tasks /\ DOMAIN task[t] = TaskFields
  BY DEF ProgramInv, ProgramShape, Called, Programs!Running
<1>3. /\ DOMAIN task' = Tasks /\ \A u \in Tasks : u # t => task'[u] = task[u]
      /\ task'[t] = [task[t] EXCEPT !.todo = r, !.fd = x]
  BY <1>1, <1>2
<1>4. /\ DOMAIN task'[t] = TaskFields /\ task'[t].todo = r
      /\ task'[t].state = task[t].state /\ task'[t].thread = task[t].thread
      /\ task'[t].parent = task[t].parent /\ task'[t].mem = task[t].mem /\ task'[t].said = task[t].said
  BY <1>2, <1>3 DEF TaskFields
<1>5. TasksGo(t)
  BY <1>3, <1>4, RestGoes DEF r
<1>6. SaidsStay
  BY <1>3, <1>4 DEF SaidsStay
<1> QED BY <1>5, <1>6

LEMMA DescriptorSteps ==
    ASSUME ProgramInv, NEW t \in Tasks, UNCHANGED <<program, stdout>>,
           Programs!MakePipe(t) \/ Programs!Open(t) \/ Programs!Close(t) \/ Programs!Dup2(t)
    PROVE  ProgramInv'
<1>1. Called(t) /\ t \in Programs!Running /\ output' = output /\ memory' = memory
  BY CallsCalled DEF Programs!MakePipe, Programs!Open, Programs!Close, Programs!Dup2
<1>2. DOMAIN task = Tasks /\ DOMAIN task[t] = TaskFields
  BY DEF ProgramInv, ProgramShape
<1> DEFINE r == Programs!Rest(t)
<1>3. \E x : task' = [task EXCEPT ![t].todo = r, ![t].fd = x]
  <2>1. CASE Programs!MakePipe(t)
    <3>1. task' = [task EXCEPT ![t].todo = r, ![t].fd[3] = "r", ![t].fd[4] = "w"]
      BY <2>1 DEF Programs!MakePipe
    <3> HIDE DEF r
    <3> DEFINE d == [[task[t].fd EXCEPT ![3] = "r"] EXCEPT ![4] = "w"]
    <3>2. task' = [task EXCEPT ![t].todo = r, ![t].fd = d]
      BY <1>2, <3>1 DEF TaskFields
    <3> HIDE DEF d
    <3> QED BY <3>2
  <2>2. CASE Programs!Open(t)
    BY <2>2 DEF Programs!Open
  <2>3. CASE Programs!Close(t)
    BY <2>3 DEF Programs!Close
  <2>4. CASE Programs!Dup2(t)
    BY <2>4 DEF Programs!Dup2
  <2> QED BY <2>1, <2>2, <2>3, <2>4
<1>4. TasksGo(t) /\ SaidsStay
  BY <1>1, <1>3, DescriptorGoes
<1> QED BY <1>1, <1>4, MemoryStays, QuietStep

LEMMA OtherSteps ==
    ASSUME ProgramInv, NEW t \in Tasks, UNCHANGED <<program, stdout>>,
           \/ Programs!Join(t) \/ Programs!ExecFails(t) \/ Programs!Write(t) \/ Programs!Scan(t)
    PROVE  ProgramInv'
<1>1. Called(t) /\ t \in Programs!Running /\ output' = output
  BY CallsCalled DEF Programs!Join, Programs!ExecFails, Programs!Write, Programs!Scan
<1>2. task[t].mem \in Tasks
  BY <1>1 DEF ProgramInv, Followed
<1>3. CASE Programs!Join(t) \/ Programs!ExecFails(t) \/ Programs!Write(t)
  <2>1. Programs!GoesOn(t) /\ memory' = memory
    BY <1>3 DEF Programs!Join, Programs!ExecFails, Programs!Write
  <2> QED BY <1>1, <2>1, MemoryStays, GoesOnGoes, QuietStep
<1>4. CASE Programs!Scan(t)
  <2>1. Programs!GoesOn(t) /\ \E x : memory' = [memory EXCEPT ![task[t].mem].var = x]
    BY <1>4 DEF Programs!Scan
  <2>2. MemoryKept({})
    BY <1>2, <2>1, VarStays
  <2> QED BY <1>1, <2>1, <2>2, GoesOnGoes, QuietStep
<1> QED BY <1>3, <1>4

(* The body of a wait, or what follows a refusal, is made of lines.         *)
LEMMA WhatFollows ==
    ASSUME ProgramInv, NEW t, Called(t)
    PROVE  /\ TaskFollows(t, Programs!Rest(t))
           /\ ForksLeft(Programs!Rest(t)) => ForksLeft(task[t].todo) /\ ~Shares(Programs!Call(t))
           /\ OfParent(Programs!Call(t)) /\ (t # 1 => OfChild(Programs!Call(t)))
           /\ Programs!Call(t).op = "fork" => ForksLeft(task[t].todo)
<1>1. TaskFollows(t, task[t].todo) /\ task[t].todo # <<>>
  BY DEF ProgramInv, Followed, Called
<1> QED BY <1>1, RestFollows DEF Programs!Rest, Programs!Call

LEMMA WaitPidStep ==
    ASSUME ProgramInv, NEW t \in Tasks, UNCHANGED <<program, stdout>>, Programs!WaitPid(t)
    PROVE  ProgramInv'
<1> USE TaskNumbers
<1>1. Called(t) /\ t \in Programs!Running /\ output' = output /\ memory' = memory
      /\ Programs!Call(t).op = "waitpid"
  BY CallsCalled DEF Programs!WaitPid, Programs!Calls, Programs!Call
<1>2. OfChild(Programs!Call(t))
  BY <1>1, WhatFollows DEF OfParent
<1>3. DOMAIN task = Tasks /\ \A u \in Tasks : DOMAIN task[u] = TaskFields
  BY DEF ProgramInv, ProgramShape
<1>4. CASE Programs!GoesOn(t)
  BY <1>1, <1>4, MemoryStays, GoesOnGoes, QuietStep
<1> DEFINE r == Programs!Rest(t)
           p(u) == IF task[u].state = "killed" THEN Programs!Call(t).bad ELSE Programs!Call(t).body
<1>5. CASE \E u \in Programs!Children(t) :
              task[u].state # "run" /\ task' = [task EXCEPT ![t].todo = p(u) \o r, ![u].state = "gone"]
  <2>1. PICK u \in Programs!Children(t) :
              task[u].state # "run" /\ task' = [task EXCEPT ![t].todo = p(u) \o r, ![u].state = "gone"]
    BY <1>5
  <2>2. u \in Tasks /\ task[u].parent = t
    BY DEF Programs!Children
  <2>3. u # 1 /\ u # t
    BY <1>1, <2>1, <2>2 DEF ProgramInv, FirstTask, Programs!Running
  <2>4. Lines(p(u))
    BY <1>1, <1>2 DEF OfChild
  <2>5. TaskFollows(t, r) /\ (ForksLeft(r) => ForksLeft(task[t].todo))
    BY <1>1, WhatFollows
  <2> DEFINE q == p(u)
  <2>6. task' = [task EXCEPT ![t].todo = q \o r, ![u].state = "gone"] /\ Lines(q)
    BY <2>1, <2>4
  <2> HIDE DEF q, r, p
  <2> DEFINE s == q \o r
  <2>s. task' = [task EXCEPT ![t].todo = s, ![u].state = "gone"]
    BY <2>6
  <2> HIDE DEF s
  <2>7. /\ DOMAIN task' = Tasks /\ \A w \in Tasks : w # t /\ w # u => task'[w] = task[w]
        /\ task'[t] = [task[t] EXCEPT !.todo = s] /\ task'[u] = [task[u] EXCEPT !.state = "gone"]
    BY <1>3, <2>2, <2>3, <2>s
  <2>8. /\ DOMAIN task'[t] = TaskFields /\ task'[t].todo = s
        /\ task'[t].state = task[t].state /\ task'[t].thread = task[t].thread
        /\ task'[t].parent = task[t].parent /\ task'[t].mem = task[t].mem /\ task'[t].said = task[t].said
    BY <1>3, <2>7 DEF TaskFields
  <2>9. /\ DOMAIN task'[u] = TaskFields /\ task'[u].todo = task[u].todo
        /\ task'[u].state = "gone" /\ task'[u].thread = task[u].thread
        /\ task'[u].parent = task[u].parent /\ task'[u].mem = task[u].mem /\ task'[u].said = task[u].said
    BY <1>3, <2>2, <2>7 DEF TaskFields
  <2>10. TasksGo(t)
    <3>1. \A w \in Tasks : DOMAIN task'[w] = TaskFields
      BY <1>3, <2>7, <2>8, <2>9
    <3>2. \A w \in Tasks :
              /\ task'[w].thread = task[w].thread /\ task'[w].parent = task[w].parent
              /\ task'[w].mem = task[w].mem
              /\ \/ task'[w].state = task[w].state
                 \/ w # 1 /\ task[w].state # "run" /\ task'[w].state # "run"
              /\ w # t => task'[w].todo = task[w].todo
      BY <2>1, <2>3, <2>7, <2>8, <2>9
    <3>3. TaskFollows(t, s) /\ (ForksLeft(s) => ForksLeft(r))
      BY <2>5, <2>6, LinesFollow DEF s
    <3> QED BY <2>5, <2>7, <2>8, <3>1, <3>2, <3>3 DEF TasksGo
  <2>11. SaidsStay
    BY <2>7, <2>8, <2>9 DEF SaidsStay
  <2> QED BY <1>1, <2>10, <2>11, MemoryStays, QuietStep
<1> QED BY <1>4, <1>5 DEF Programs!WaitPid

LEMMA FollowsGoes ==
    ASSUME ProgramInv, NEW t \in Programs!Running, NEW s,
           TaskFollows(t, s), ForksLeft(s) => ForksLeft(task[t].todo),
           DOMAIN task' = Tasks, \A u \in Tasks : u # t => task'[u] = task[u],
           DOMAIN task'[t] = TaskFields, task'[t].todo = s,
           task'[t].state = task[t].state, task'[t].thread = task[t].thread,
           task'[t].parent = task[t].parent, task'[t].mem = task[t].mem
    PROVE  TasksGo(t)
<1>1. \A u \in Tasks : DOMAIN task'[u] = TaskFields
  BY DEF ProgramInv, ProgramShape
<1>2. \A u \in Tasks :
          /\ task'[u].thread = task[u].thread /\ task'[u].parent = task[u].parent
          /\ task'[u].mem = task[u].mem /\ task'[u].state = task[u].state
          /\ u # t => task'[u].todo = task[u].todo
  OBVIOUS
<1> QED BY <1>1, <1>2 DEF TasksGo

(* The body of a read comes before the same read, after which nobody forks. *)
LEMMA BodyFollows ==
    ASSUME NEW t, NEW s, TaskFollows(t, s), s # <<>>, Head(s).op = "read", NEW p, Plains(p)
    PROVE  TaskFollows(t, p \o s) /\ ~ForksLeft(p \o s)
<1>1. IsSeq(s)
  BY DEF TaskFollows, ForksEarly, OfChildren
<1>2. Len(s) \in Nat \ {0} /\ Head(s) = s[1]
  BY <1>1, SeqTail
<1>3. Late(p)
  BY WhoseCalls
<1>4. Late(s)
  <2>1. CASE t = 1
    <3>1. ForksEarly(s)
      BY <2>1 DEF TaskFollows
    <3>2. 1 \in 1..Len(s) /\ Shares(s[1]) /\ s[1].op # "fork"
      BY <1>2 DEF Shares
    <3>3. ASSUME NEW k \in 1..Len(s) PROVE OfParent(s[k]) /\ s[k].op # "fork"
      <4>1. k = 1 \/ 1 < k
        BY <1>2
      <4> QED BY <3>1, <3>2, <4>1 DEF ForksEarly
    <3> QED BY <1>1, <3>3 DEF Late
  <2>2. CASE t # 1
    BY <2>2, WhoseCalls DEF TaskFollows
  <2> QED BY <2>1, <2>2
<1>5. Late(p \o s)
  BY <1>3, <1>4, Together
<1>6. TaskFollows(t, p \o s)
  <2>1. ForksEarly(p \o s)
    BY <1>5, WhoseCalls
  <2>2. t # 1 => OfChildren(p \o s)
    BY Together, WhoseCalls DEF TaskFollows
  <2> QED BY <2>1, <2>2 DEF TaskFollows
<1> QED BY <1>5, <1>6 DEF Late, ForksLeft

LEMMA ReadByteStep ==
    ASSUME ProgramInv, NEW t \in Tasks, UNCHANGED <<program, stdout>>, Programs!ReadByte(t)
    PROVE  ProgramInv'
<1>1. Called(t) /\ t \in Programs!Running /\ output' = output /\ Programs!Call(t).op = "read"
  BY CallsCalled DEF Programs!ReadByte, Programs!Calls, Programs!Call
<1>2. task[t].mem \in Tasks /\ TaskFollows(t, task[t].todo) /\ task[t].todo # <<>>
  BY <1>1 DEF ProgramInv, Followed, Called
<1>3. CASE Programs!GoesOn(t) /\ memory' = memory
  BY <1>1, <1>3, MemoryStays, GoesOnGoes, QuietStep
<1> DEFINE s == Programs!Call(t).body \o task[t].todo
<1>4. CASE task' = [task EXCEPT ![t].todo = s] /\ \E x : memory' = [memory EXCEPT ![task[t].mem].var = x]
  <2>1. Plains(Programs!Call(t).body)
    BY <1>1, WhatFollows DEF OfParent, OfChild
  <2>2. TaskFollows(t, s) /\ ~ForksLeft(s)
    BY <1>1, <1>2, <2>1, BodyFollows DEF Programs!Call
  <2> HIDE DEF s
  <2>3. DOMAIN task = Tasks /\ DOMAIN task[t] = TaskFields
    BY DEF ProgramInv, ProgramShape
  <2>4. /\ DOMAIN task' = Tasks /\ \A u \in Tasks : u # t => task'[u] = task[u]
        /\ task'[t] = [task[t] EXCEPT !.todo = s]
    BY <1>4, <2>3
  <2>5. /\ DOMAIN task'[t] = TaskFields /\ task'[t].todo = s
        /\ task'[t].state = task[t].state /\ task'[t].thread = task[t].thread
        /\ task'[t].parent = task[t].parent /\ task'[t].mem = task[t].mem /\ task'[t].said = task[t].said
    BY <2>3, <2>4 DEF TaskFields
  <2>6. TasksGo(t)
    BY <1>1, <2>2, <2>4, <2>5, FollowsGoes
  <2>7. SaidsStay
    BY <2>4, <2>5 DEF SaidsStay
  <2>8. MemoryKept({})
    BY <1>2, <1>4, VarStays
  <2> QED BY <1>1, <2>6, <2>7, <2>8, QuietStep
<1> QED BY <1>3, <1>4 DEF Programs!ReadByte

LEMMA RefuseStep ==
    ASSUME ProgramInv, NEW t \in Tasks, UNCHANGED <<program, stdout>>, Programs!Refuse(t)
    PROVE  ProgramInv'
<1>1. Called(t) /\ t \in Programs!Running /\ output' = output /\ memory' = memory
  BY CallsCalled DEF Programs!Refuse
<1>2. Lines(Programs!Call(t).refused)
  <2>1. OfParent(Programs!Call(t)) /\ Programs!Call(t).refused # NULL
    BY <1>1, WhatFollows DEF Programs!Refuse
  <2> QED BY <2>1 DEF OfParent, OfChild
<1> DEFINE r == Programs!Rest(t)
           s == Programs!Call(t).refused \o r
           x == Append(task[t].pids, -1)
<1>3. TaskFollows(t, s) /\ (ForksLeft(s) => ForksLeft(task[t].todo))
  <2>1. TaskFollows(t, r) /\ (ForksLeft(r) => ForksLeft(task[t].todo))
    BY <1>1, WhatFollows
  <2> HIDE DEF r
  <2> QED BY <1>2, <2>1, LinesFollow
<1>4. task' = [task EXCEPT ![t].todo = s, ![t].pids = x]
  BY DEF Programs!Refuse
<1> HIDE DEF s, x
<1>5. DOMAIN task = Tasks /\ DOMAIN task[t] = TaskFields
  BY DEF ProgramInv, ProgramShape
<1>6. /\ DOMAIN task' = Tasks /\ \A u \in Tasks : u # t => task'[u] = task[u]
      /\ task'[t] = [task[t] EXCEPT !.todo = s, !.pids = x]
  BY <1>4, <1>5
<1>7. /\ DOMAIN task'[t] = TaskFields /\ task'[t].todo = s
      /\ task'[t].state = task[t].state /\ task'[t].thread = task[t].thread
      /\ task'[t].parent = task[t].parent /\ task'[t].mem = task[t].mem /\ task'[t].said = task[t].said
  BY <1>5, <1>6 DEF TaskFields
<1>8. TasksGo(t)
  BY <1>1, <1>3, <1>6, <1>7, FollowsGoes
<1>9. SaidsStay
  BY <1>6, <1>7 DEF SaidsStay
<1> QED BY <1>1, <1>8, <1>9, MemoryStays, QuietStep

(* A handler is made of lines, and is put in front of what t does.          *)
LEMMA SetsHandlerStep ==
    ASSUME ProgramInv, NEW t \in Tasks, UNCHANGED <<program, stdout>>, Programs!Signal(t)
    PROVE  ProgramInv'
<1>1. Called(t) /\ t \in Programs!Running /\ output' = output /\ Programs!GoesOn(t)
      /\ Programs!Call(t).op = "signal"
  BY CallsCalled DEF Programs!Signal, Programs!Calls, Programs!Call
<1>2. Lines(Programs!Call(t).body)
  BY <1>1, WhatFollows DEF OfParent, OfChild
<1> DEFINE m == task[t].mem
           x == Programs!Call(t).body
<1>3. m \in Tasks /\ DOMAIN memory = Tasks /\ \A k \in Tasks : DOMAIN memory[k] = MemFields /\ Lines(memory[k].handler)
  BY <1>1 DEF ProgramInv, Followed, ProgramShape, Handlers
<1>4. memory' = [memory EXCEPT ![m].handler = x]
  BY DEF Programs!Signal
<1>5. Lines(x)
  BY <1>2
<1> HIDE DEF m, x
<1>6. /\ DOMAIN memory' = Tasks /\ \A k \in Tasks : k # m => memory'[k] = memory[k]
      /\ memory'[m] = [memory[m] EXCEPT !.handler = x]
  BY <1>3, <1>4
<1>7. /\ DOMAIN memory'[m] = MemFields /\ memory'[m].buffer = memory[m].buffer
      /\ memory'[m].by_line = memory[m].by_line /\ memory'[m].handler = x
  BY <1>3, <1>6 DEF MemFields
<1>8. MemoryKept({})
  BY <1>3, <1>5, <1>6, <1>7 DEF MemoryKept
<1> QED BY <1>1, <1>8, GoesOnGoes, QuietStep

-----------------------------------------------------------------------------
(* Tasks end. *)
TasksEnd ==
    /\ DOMAIN task' = Tasks /\ \A u \in Tasks : DOMAIN task'[u] = TaskFields
    /\ \A u \in Tasks :
          /\ task'[u].thread = task[u].thread /\ task'[u].parent = task[u].parent
          /\ task'[u].mem = task[u].mem /\ task'[u].said = task[u].said
          /\ \/ task'[u].state = task[u].state /\ task'[u].todo = task[u].todo
             \/ task'[u].state # "run" /\ (u = 1 => task'[u].state \in {"zombie", "killed"})

BufferEmptied(m) ==
    /\ MemoryKept({m})
    /\ m \in Tasks => memory'[m].buffer = <<>> /\ memory'[m].by_line = memory[m].by_line

LEMMA EndStep ==
    ASSUME ProgramInv, TasksEnd, OutputKept, LinesOnce',
           MemoryKept({}) \/ \E m : BufferEmptied(m)
    PROVE  ProgramInv'
<1> USE TaskNumbers
<1>1. \A u \in Programs!Running' : u \in Programs!Running /\ u \in Tasks /\ task'[u].todo = task[u].todo
                                    /\ task'[u].mem = task[u].mem
  BY DEF Programs!Running, TasksEnd
<1>2. ProgramShape'
  BY DEF ProgramShape, TasksEnd, MemoryKept, BufferEmptied, OutputKept
<1>3. Followed'
  BY <1>1 DEF ProgramInv, Followed, TaskFollows
<1>4. FirstTask'
  BY DEF ProgramInv, FirstTask, TasksEnd
<1>5. Handlers'
  BY DEF MemoryKept, BufferEmptied, Handlers
<1>6. BeforeForks'
  <2> SUFFICES ASSUME stdout' = "tty", task'[1].state = "run", ForksLeft(task'[1].todo)
               PROVE  /\ memory'[1].buffer = <<>> /\ memory'[1].by_line = TRUE
                      /\ \A u \in Programs!Running' : task'[u].mem = u
    BY DEF BeforeForks, ForksLeft
  <2>1. stdout = "tty" /\ task[1].state = "run" /\ ForksLeft(task[1].todo)
    BY DEF TasksEnd, OutputKept
  <2>2. /\ memory[1].buffer = <<>> /\ memory[1].by_line = TRUE
        /\ \A u \in Programs!Running : task[u].mem = u
    BY <2>1 DEF ProgramInv, BeforeForks
  <2>3. memory'[1].buffer = <<>> /\ memory'[1].by_line = TRUE
    BY <2>2 DEF MemoryKept, BufferEmptied
  <2> QED BY <1>1, <2>2, <2>3
<1> QED BY <1>2, <1>3, <1>4, <1>5, <1>6 DEF ProgramInv

LEMMA EndOfEnds ==
    ASSUME ProgramInv, NEW t, NEW how \in {"zombie", "killed"}, Programs!EndOf(t, how)
    PROVE  TasksEnd
<1> USE TaskNumbers
<1>1. DOMAIN task = Tasks /\ \A u \in Tasks : DOMAIN task[u] = TaskFields
  BY DEF ProgramInv, ProgramShape
<1>2. DOMAIN task' = Tasks
  BY DEF Programs!EndOf
<1>3. \A u \in Tasks : task'[u] = task[u] \/ task'[u] = Programs!Ended(task[u], how)
  BY DEF Programs!EndOf
<1>4. ASSUME NEW r, DOMAIN r = TaskFields
      PROVE  LET e == Programs!Ended(r, how) IN
                /\ DOMAIN e = TaskFields /\ e.thread = r.thread /\ e.parent = r.parent
                /\ e.mem = r.mem /\ e.said = r.said /\ e.state \in {"gone", how}
                /\ r.thread = FALSE => e.state = how
  BY <1>4 DEF Programs!Ended, TaskFields
<1>5. task[1].thread = FALSE
  BY DEF ProgramInv, FirstTask
<1>6. ASSUME NEW u \in Tasks
      PROVE  /\ DOMAIN task'[u] = TaskFields
             /\ task'[u].thread = task[u].thread /\ task'[u].parent = task[u].parent
             /\ task'[u].mem = task[u].mem /\ task'[u].said = task[u].said
             /\ \/ task'[u].state = task[u].state /\ task'[u].todo = task[u].todo
                \/ task'[u].state # "run" /\ (u = 1 => task'[u].state \in {"zombie", "killed"})
  <2>1. CASE task'[u] = task[u]
    BY <1>1, <2>1
  <2>2. CASE task'[u] = Programs!Ended(task[u], how)
    <3>1. LET e == task'[u] IN
                /\ DOMAIN e = TaskFields /\ e.thread = task[u].thread /\ e.parent = task[u].parent
                /\ e.mem = task[u].mem /\ e.said = task[u].said /\ e.state \in {"gone", how}
                /\ task[u].thread = FALSE => e.state = how
      BY <1>1, <1>4, <2>2
    <3> QED BY <1>5, <3>1
  <2> QED BY <1>3, <2>1, <2>2
<1> QED BY <1>2, <1>6 DEF TasksEnd

-----------------------------------------------------------------------------
(* The buffer is flushed: on to the terminal, or to a file, or nowhere.     *)
LEMMA Flushes ==
    ASSUME ProgramInv, NEW t \in Programs!Running, Programs!Flush(t), stdout' = stdout
    PROVE  /\ BufferEmptied(task[t].mem) /\ task[t].mem \in Tasks
           /\ DOMAIN output' = Programs!Sink
           /\ SaidsStay => LinesOnce'
<1> USE TaskNumbers
<1> DEFINE m == task[t].mem
           f == task[t].fd[1]
<1>1. m \in Tasks /\ DOMAIN memory = Tasks /\ \A k \in Tasks : DOMAIN memory[k] = MemFields /\ Lines(memory[k].handler)
  BY DEF ProgramInv, Followed, ProgramShape, Handlers
<1>2. memory' = [memory EXCEPT ![m].buffer = <<>>]
  BY DEF Programs!Flush
<1>3. DOMAIN output = Programs!Sink
  BY DEF ProgramInv, ProgramShape
<1>4. output' = IF f \in Programs!Sink THEN [output EXCEPT ![f] = output[f] \o memory[m].buffer] ELSE output
  BY DEF Programs!Flush, Programs!Deliver, Programs!Mem
<1> HIDE DEF m, f
<1>5. /\ DOMAIN memory' = Tasks /\ \A k \in Tasks : k # m => memory'[k] = memory[k]
      /\ memory'[m] = [memory[m] EXCEPT !.buffer = <<>>]
  BY <1>1, <1>2
<1>6. /\ DOMAIN memory'[m] = MemFields /\ memory'[m].buffer = <<>>
      /\ memory'[m].by_line = memory[m].by_line /\ memory'[m].handler = memory[m].handler
  BY <1>1, <1>5 DEF MemFields
<1>7. BufferEmptied(m)
  BY <1>1, <1>5, <1>6 DEF BufferEmptied, MemoryKept
<1>8. DOMAIN output' = Programs!Sink
  BY <1>3, <1>4
<1>9. ASSUME SaidsStay PROVE LinesOnce'
  <2>1. CASE f # "tty"
    <3>1. output'["tty"] = output["tty"]
      BY <1>3, <1>4, <2>1 DEF Programs!Sink
    <3>2. \A k \in Tasks : memory'[k].buffer = memory[k].buffer \/ memory'[k].buffer = <<>>
      BY <1>5, <1>6
    <3> QED BY <1>9, <3>1, <3>2, LinesStay
  <2>2. CASE f = "tty"
    <3> SUFFICES ASSUME stdout' = "tty" PROVE AllOnce(Sheets', Saids')
      BY DEF LinesOnce, AllOnce
    <3>1. AllOnce(Sheets, Saids)
      BY DEF ProgramInv, LinesOnce
    <3>2. output'["tty"] = output["tty"] \o memory[m].buffer
      BY <1>3, <1>4, <2>2 DEF Programs!Sink
    <3>3. \A s \in Papers : Sheets'[s] = IF s = 0 THEN Sheets[0] \o Sheets[m] ELSE IF s = m THEN <<>> ELSE Sheets[s]
      <4>1. 0 \in Papers /\ m \in Papers /\ m # 0
        BY <1>1 DEF Papers
      <4>2. Sheets'[0] = Sheets[0] \o Sheets[m]
        BY <3>2, <4>1 DEF Sheets
      <4>3. Sheets'[m] = <<>>
        BY <1>6, <4>1 DEF Sheets
      <4>4. \A s \in Papers : s # 0 /\ s # m => Sheets'[s] = Sheets[s]
        BY <1>5 DEF Sheets, Papers
      <4> QED BY <4>2, <4>3, <4>4
    <3>4. AllOnce(Sheets', Saids)
      <4> HIDE DEF Sheets, Saids
      <4> QED BY <1>1, <3>1, <3>3, OnceFlushed
    <3>5. \A u \in Tasks : Saids'[u] = Saids[u]
      BY <1>9 DEF Saids, SaidsStay
    <3>6. \A s \in Papers : Sheets'[s] = Sheets'[s] \/ Sheets'[s] = <<>>
      OBVIOUS
    <3> HIDE DEF Sheets, Saids
    <3> QED BY <3>4, <3>5, <3>6, OnceDropped
  <2> QED BY <2>1, <2>2
<1> QED BY <1>1, <1>7, <1>8, <1>9 DEF m

LEMMA FlushSteps ==
    ASSUME ProgramInv, NEW t \in Tasks, UNCHANGED <<program, stdout>>, Programs!FFlush(t) \/ Programs!GetChar(t)
    PROVE  ProgramInv'
<1>1. Called(t) /\ t \in Programs!Running /\ Programs!GoesOn(t)
  BY CallsCalled DEF Programs!FFlush, Programs!GetChar
<1>2. TasksGo(t) /\ SaidsStay
  BY <1>1, GoesOnGoes
<1>3. CASE Programs!Flush(t)
  <2>1. /\ BufferEmptied(task[t].mem) /\ task[t].mem \in Tasks
        /\ DOMAIN output' = Programs!Sink /\ LinesOnce'
    BY <1>1, <1>2, <1>3, Flushes
  <2> DEFINE B == {task[t].mem}
  <2>2. MemoryKept(B) /\ OutputKept
    BY <2>1 DEF BufferEmptied, OutputKept
  <2>3. StaysEmpty(B)
    BY <2>1 DEF StaysEmpty, BufferEmptied
  <2> HIDE DEF B
  <2>4. ProgramShape' /\ Followed' /\ FirstTask' /\ Handlers' /\ BeforeForks'
    BY <1>1, <1>2, <2>2, <2>3, TasksGoOn
  <2> QED BY <2>1, <2>4 DEF ProgramInv
<1>4. CASE UNCHANGED <<memory, output>>
  BY <1>1, <1>2, <1>4, MemoryStays, QuietStep
<1> QED BY <1>3, <1>4 DEF Programs!FFlush, Programs!GetChar

(* The end of a process, of a thread, and of who is killed. *)
LEMMA EndSteps ==
    ASSUME ProgramInv, NEW t \in Tasks, UNCHANGED <<program, stdout>>,
           Programs!Exit(t) \/ Programs!Return(t) \/ Programs!BrokenPipe(t)
    PROVE  ProgramInv'
<1> USE TaskNumbers
<1>1. CASE Programs!Exit(t)
  <2>1. t \in Programs!Running /\ Programs!Flush(t) /\ TasksEnd
    BY <1>1, EndOfEnds DEF Programs!Exit, Programs!Calls
  <2>2. SaidsStay
    BY <2>1 DEF TasksEnd, SaidsStay
  <2>3. BufferEmptied(task[t].mem) /\ OutputKept /\ LinesOnce'
    BY <2>1, <2>2, Flushes DEF OutputKept
  <2> QED BY <2>1, <2>3, EndStep
<1>2. ASSUME TasksEnd, memory' = memory, output' = output PROVE ProgramInv'
  <2>1. SaidsStay /\ OutputKept
    BY <1>2 DEF TasksEnd, SaidsStay, OutputKept, ProgramInv, ProgramShape
  <2>2. LinesOnce'
    BY <1>2, <2>1, LinesStay
  <2> QED BY <1>2, <2>1, <2>2, MemoryStays, EndStep
<1>3. CASE Programs!BrokenPipe(t)
  <2>1. TasksEnd /\ memory' = memory /\ output' = output
    BY <1>3, EndOfEnds DEF Programs!BrokenPipe
  <2> QED BY <1>2, <2>1
<1>4. CASE Programs!Return(t)
  <2>1. task' = [task EXCEPT ![t] = Programs!Ended(task[t], "zombie")] /\ memory' = memory /\ output' = output
    BY <1>4 DEF Programs!Return
  <2>2. DOMAIN task = Tasks /\ \A u \in Tasks : DOMAIN task[u] = TaskFields
    BY DEF ProgramInv, ProgramShape
  <2> DEFINE e == Programs!Ended(task[t], "zombie")
  <2>3. /\ DOMAIN e = TaskFields /\ e.thread = task[t].thread /\ e.parent = task[t].parent
        /\ e.mem = task[t].mem /\ e.said = task[t].said /\ e.state \in {"gone", "zombie"}
        /\ task[t].thread = FALSE => e.state = "zombie"
    BY <2>2 DEF Programs!Ended, TaskFields
  <2>4. DOMAIN task' = Tasks /\ task'[t] = e /\ \A u \in Tasks : u # t => task'[u] = task[u]
    BY <2>1, <2>2
  <2>5. t = 1 => task[t].thread = FALSE
    BY DEF ProgramInv, FirstTask
  <2> HIDE DEF e
  <2>6. TasksEnd
    BY <2>2, <2>3, <2>4, <2>5 DEF TasksEnd
  <2> QED BY <1>2, <2>1, <2>6
<1> QED BY <1>1, <1>3, <1>4

LEMMA InterruptStep ==
    ASSUME ProgramInv, NEW t \in Tasks, UNCHANGED <<program, stdout>>, Programs!Interrupt(t)
    PROVE  ProgramInv'
<1> USE TaskNumbers
<1>1. t \in Programs!Running /\ output' = output /\ memory' = memory
  BY DEF Programs!Interrupt
<1>2. CASE Programs!EndOf(t, "killed")
  <2>1. TasksEnd
    BY <1>2, EndOfEnds
  <2>2. SaidsStay /\ OutputKept
    BY <1>1, <2>1 DEF TasksEnd, SaidsStay, OutputKept, ProgramInv, ProgramShape
  <2>3. LinesOnce'
    BY <1>1, <2>2, LinesStay
  <2> QED BY <1>1, <2>1, <2>2, <2>3, MemoryStays, EndStep
<1>3. CASE task' = [task EXCEPT ![t].todo = Programs!Mem(t).handler \o task[t].todo]
  <2> DEFINE p == Programs!Mem(t).handler
             s == p \o task[t].todo
  <2>1. Lines(p) /\ TaskFollows(t, task[t].todo)
    BY <1>1 DEF ProgramInv, Followed, Handlers, Programs!Mem
  <2>2. TaskFollows(t, s) /\ (ForksLeft(s) => ForksLeft(task[t].todo))
    <3> HIDE DEF p
    <3> QED BY <2>1, LinesFollow
  <2>3. task' = [task EXCEPT ![t].todo = s]
    BY <1>3
  <2> HIDE DEF s
  <2>4. DOMAIN task = Tasks /\ DOMAIN task[t] = TaskFields
    BY DEF ProgramInv, ProgramShape
  <2>5. /\ DOMAIN task' = Tasks /\ \A u \in Tasks : u # t => task'[u] = task[u]
        /\ task'[t] = [task[t] EXCEPT !.todo = s]
    BY <2>3, <2>4
  <2>6. /\ DOMAIN task'[t] = TaskFields /\ task'[t].todo = s
        /\ task'[t].state = task[t].state /\ task'[t].thread = task[t].thread
        /\ task'[t].parent = task[t].parent /\ task'[t].mem = task[t].mem /\ task'[t].said = task[t].said
    BY <2>4, <2>5 DEF TaskFields
  <2>7. TasksGo(t)
    BY <1>1, <2>2, <2>5, <2>6, FollowsGoes
  <2>8. SaidsStay
    BY <2>5, <2>6 DEF SaidsStay
  <2> QED BY <1>1, <2>7, <2>8, MemoryStays, QuietStep
<1> QED BY <1>2, <1>3 DEF Programs!Interrupt

-----------------------------------------------------------------------------
(* A line is printed, under the task's number and the next of its lines.    *)
LEMMA PrintGoes ==
    ASSUME ProgramInv, NEW t, Called(t), Programs!Prints(t)
    PROVE  TasksGo(t) /\ \A u \in Tasks : task'[u].said = IF u = t THEN task[u].said + 1 ELSE task[u].said
<1> DEFINE r == Programs!Rest(t)
           x == task[t].said + 1
<1>1. task' = [task EXCEPT ![t].todo = r, ![t].said = x]
  BY DEF Programs!Prints, ProgramInv, ProgramShape, TaskFields
<1> HIDE DEF r, x
<1>2. DOMAIN task = Tasks /\ t \in Tasks /\ DOMAIN task[t] = TaskFields
  BY DEF ProgramInv, ProgramShape, Called, Programs!Running
<1>3. /\ DOMAIN task' = Tasks /\ \A u \in Tasks : u # t => task'[u] = task[u]
      /\ task'[t] = [task[t] EXCEPT !.todo = r, !.said = x]
  BY <1>1, <1>2
<1>4. /\ DOMAIN task'[t] = TaskFields /\ task'[t].todo = r
      /\ task'[t].state = task[t].state /\ task'[t].thread = task[t].thread
      /\ task'[t].parent = task[t].parent /\ task'[t].mem = task[t].mem /\ task'[t].said = x
  BY <1>2, <1>3 DEF TaskFields
<1>5. TasksGo(t)
  BY <1>3, <1>4, RestGoes DEF r
<1> QED BY <1>3, <1>4, <1>5 DEF x

LEMMA LineIsNew ==
    ASSUME NEW t
    PROVE  Programs!Line(t).by = t /\ Programs!Line(t).at = task[t].said
BY DEF Programs!Line

(* After the line is in a buffer, or on the terminal: what is written now.  *)
LEMMA WritesLine ==
    ASSUME ProgramInv, stdout = "tty", NEW t \in Tasks, NEW m \in Papers,
           \A u \in Tasks : task'[u].said = IF u = t THEN task[u].said + 1 ELSE task[u].said,
           NEW S2, \A s \in Papers : S2[s] = IF s = m THEN Append(Sheets[m], Programs!Line(t)) ELSE Sheets[s]
    PROVE  AllOnce(S2, Saids')
<1> DEFINE x == Programs!Line(t)
<1>1. x.by = t /\ x.at = Saids[t]
  BY LineIsNew DEF Saids
<1>2. AllOnce(Sheets, Saids)
  BY DEF ProgramInv, LinesOnce
<1>3. \A u \in Tasks : Saids'[u] = IF u = x.by THEN Saids[u] + 1 ELSE Saids[u]
  BY <1>1 DEF Saids
<1>4. x.by \in Tasks /\ x.at = Saids[x.by]
  BY <1>1
<1>5. \A s \in Papers : S2[s] = IF s = m THEN Append(Sheets[m], x) ELSE Sheets[s]
  OBVIOUS
<1> HIDE DEF x, Sheets, Saids
<1> QED BY <1>2, <1>3, <1>4, <1>5, OnceWritten

LEMMA PrintErrorStep ==
    ASSUME ProgramInv, NEW t \in Tasks, UNCHANGED <<program, stdout>>, Programs!PrintError(t)
    PROVE  ProgramInv'
<1> USE TaskNumbers
<1>1. Called(t) /\ t \in Programs!Running /\ Programs!Prints(t) /\ memory' = memory
  BY CallsCalled DEF Programs!PrintError
<1>2. TasksGo(t) /\ \A u \in Tasks : task'[u].said = IF u = t THEN task[u].said + 1 ELSE task[u].said
  BY <1>1, PrintGoes
<1> DEFINE x == Programs!Line(t)
<1>3. output' = [output EXCEPT !["tty"] = output["tty"] \o <<x>>]
  BY DEF Programs!PrintError, Programs!Deliver, Programs!Sink
<1> HIDE DEF x
<1>4. DOMAIN output = Programs!Sink
  BY DEF ProgramInv, ProgramShape
<1>5. output'["tty"] = output["tty"] \o <<x>> /\ OutputKept
  BY <1>3, <1>4 DEF OutputKept, Programs!Sink
<1>6. MemoryKept({}) /\ StaysEmpty({})
  BY <1>1, MemoryStays DEF StaysEmpty
<1>7. ProgramShape' /\ Followed' /\ FirstTask' /\ Handlers' /\ BeforeForks'
  BY <1>1, <1>2, <1>5, <1>6, TasksGoOn
<1>8. LinesOnce'
  <2> SUFFICES ASSUME stdout' = "tty" PROVE AllOnce(Sheets', Saids')
    BY DEF LinesOnce, AllOnce
  <2>1. AllOnce(Sheets, Saids) /\ 0 \in Papers
    BY DEF ProgramInv, LinesOnce, Papers
  <2>2. IsSeq(Sheets[0])
    BY <2>1 DEF AllOnce
  <2>3. ASSUME NEW s, IsSeq(s) PROVE s \o <<x>> = Append(s, x)
    BY <2>3 DEF IsSeq
  <2>4. Sheets'[0] = Append(Sheets[0], x)
    BY <1>5, <2>1, <2>2, <2>3 DEF Sheets
  <2>5. \A s \in Papers : s # 0 => Sheets'[s] = Sheets[s]
    BY <1>1 DEF Sheets
  <2>6. \A s \in Papers : Sheets'[s] = IF s = 0 THEN Append(Sheets[0], x) ELSE Sheets[s]
    BY <2>4, <2>5
  <2>7. stdout = "tty"
    OBVIOUS
  <2> QED BY <1>2, <2>1, <2>6, <2>7, WritesLine DEF x
<1> QED BY <1>7, <1>8 DEF ProgramInv

LEMMA PrintfStep ==
    ASSUME ProgramInv, NEW t \in Tasks, UNCHANGED <<program, stdout>>, Programs!Printf(t)
    PROVE  ProgramInv'
<1> USE TaskNumbers
<1>1. Called(t) /\ t \in Programs!Running /\ Programs!Prints(t)
  BY CallsCalled DEF Programs!Printf
<1>2. TasksGo(t) /\ \A u \in Tasks : task'[u].said = IF u = t THEN task[u].said + 1 ELSE task[u].said
  BY <1>1, PrintGoes
<1> DEFINE m == task[t].mem
           f == task[t].fd[1]
           b == Append(memory[m].buffer, Programs!Line(t))
           ends == Programs!Call(t).newline /\ memory[m].by_line
           b2 == IF ends THEN <<>> ELSE b
<1>3. m \in Tasks /\ DOMAIN memory = Tasks /\ \A k \in Tasks : DOMAIN memory[k] = MemFields /\ Lines(memory[k].handler)
  BY <1>1 DEF ProgramInv, Followed, ProgramShape, Handlers
<1>4. DOMAIN output = Programs!Sink
  BY DEF ProgramInv, ProgramShape
<1>5. /\ memory' = [memory EXCEPT ![m].buffer = b2]
      /\ output' = IF ends /\ f \in Programs!Sink THEN [output EXCEPT ![f] = output[f] \o b] ELSE output
  <2>1. CASE ends
    BY <2>1 DEF Programs!Printf, Programs!Deliver, Programs!Mem
  <2>2. CASE ~ends
    BY <2>2 DEF Programs!Printf, Programs!Mem
  <2> QED BY <2>1, <2>2
<1>6. ForksLeft(Programs!Rest(t)) => Programs!Call(t).newline
  BY <1>1, WhatFollows DEF Shares
<1> HIDE DEF b2
<1>7. /\ DOMAIN memory' = Tasks /\ \A k \in Tasks : k # m => memory'[k] = memory[k]
      /\ memory'[m] = [memory[m] EXCEPT !.buffer = b2]
  BY <1>3, <1>5
<1>8. /\ DOMAIN memory'[m] = MemFields /\ memory'[m].buffer = b2
      /\ memory'[m].by_line = memory[m].by_line /\ memory'[m].handler = memory[m].handler
  BY <1>3, <1>7 DEF MemFields
<1> DEFINE B == {m}
<1>9. MemoryKept(B)
  BY <1>3, <1>7, <1>8 DEF MemoryKept
<1>10. OutputKept
  BY <1>4, <1>5 DEF OutputKept
<1>11. StaysEmpty(B)
  <2> SUFFICES ASSUME 1 \in B, memory[1].by_line = TRUE, ForksLeft(task'[1].todo),
                      \A u \in Programs!Running : task[u].mem = u
               PROVE  memory'[1].buffer = <<>> /\ memory'[1].by_line = TRUE
    BY DEF StaysEmpty
  <2>1. m = 1 /\ t = 1
    BY <1>1
  <2>2. task'[1].todo = Programs!Rest(t)
    BY <1>1, <2>1 DEF Programs!Prints, ProgramInv, ProgramShape, TaskFields
  <2>3. ends
    BY <1>6, <2>1, <2>2
  <2> QED BY <1>8, <2>1, <2>3 DEF b2
<1>12. ProgramShape' /\ Followed' /\ FirstTask' /\ Handlers' /\ BeforeForks'
  <2> HIDE DEF B
  <2> QED BY <1>1, <1>2, <1>9, <1>10, <1>11, TasksGoOn
<1>13. LinesOnce'
  <2> SUFFICES ASSUME stdout' = "tty" PROVE AllOnce(Sheets', Saids')
    BY DEF LinesOnce, AllOnce
  <2> DEFINE S1 == [s \in Papers |-> IF s = m THEN Append(Sheets[m], Programs!Line(t)) ELSE Sheets[s]]
  <2>1. stdout = "tty" /\ m \in Papers /\ 0 \in Papers /\ m # 0
    BY <1>3 DEF Papers
  <2>2. AllOnce(S1, Saids')
    BY <1>2, <2>1, WritesLine
  <2>3. S1[m] = b /\ S1[0] = output["tty"] /\ \A s \in Papers : s # 0 /\ s # m => S1[s] = memory[s].buffer
    BY <1>3, <2>1 DEF Sheets
  <2>4. Sheets'[m] = b2 /\ Sheets'[0] = output'["tty"] /\ \A s \in Papers : s # 0 /\ s # m => Sheets'[s] = memory[s].buffer
    <3>1. \A s \in Papers : s # 0 => s \in Tasks
      BY DEF Papers
    <3> QED BY <1>7, <1>8, <2>1, <3>1 DEF Sheets
  <2> HIDE DEF S1, b
  <2>5. CASE ends /\ f = "tty"
    <3>1. output'["tty"] = output["tty"] \o b /\ b2 = <<>>
      BY <1>4, <1>5, <2>5 DEF b2, Programs!Sink
    <3>2. \A s \in Papers : Sheets'[s] = IF s = 0 THEN S1[0] \o S1[m] ELSE IF s = m THEN <<>> ELSE S1[s]
      BY <2>1, <2>3, <2>4, <3>1
    <3> HIDE DEF Sheets, Saids, m
    <3> QED BY <1>3, <2>2, <3>2, OnceFlushed
  <2>6. CASE ~(ends /\ f = "tty")
    <3>1. output'["tty"] = output["tty"] /\ (b2 = <<>> \/ b2 = b)
      BY <1>4, <1>5, <2>6 DEF b2, Programs!Sink
    <3>2. \A s \in Papers : Sheets'[s] = S1[s] \/ Sheets'[s] = <<>>
      BY <2>1, <2>3, <2>4, <3>1
    <3>3. \A u \in Tasks : Saids'[u] = Saids'[u]
      OBVIOUS
    <3> HIDE DEF Sheets, Saids
    <3> QED BY <2>2, <3>2, <3>3, OnceDropped
  <2> QED BY <2>5, <2>6
<1> QED BY <1>12, <1>13 DEF ProgramInv

-----------------------------------------------------------------------------
(* Another program, with an empty buffer.                                   *)
LEMMA ExecStep ==
    ASSUME ProgramInv, NEW t \in Tasks, UNCHANGED <<program, stdout>>, Programs!Exec(t)
    PROVE  ProgramInv'
<1> USE TaskNumbers
<1>1. Called(t) /\ t \in Programs!Running /\ output' = output /\ Programs!Call(t).op = "exec"
  BY CallsCalled DEF Programs!Exec, Programs!Calls, Programs!Call
<1> DEFINE m == task[t].mem
           s == Programs!Call(t).body
           x == Programs!Fresh(Programs!Call(t).vars, task[t].fd[1])
<1>2. OfChildren(s) /\ TaskFollows(t, s) /\ ~ForksLeft(s)
  <2>1. Plains(s)
    BY <1>1, WhatFollows DEF OfParent, OfChild
  <2> HIDE DEF s
  <2>2. OfChildren(s) /\ Late(s) /\ ForksEarly(s)
    BY <2>1, WhoseCalls
  <2> QED BY <2>2 DEF TaskFollows, ForksLeft, Late
<1>3. m \in Tasks /\ DOMAIN memory = Tasks /\ \A k \in Tasks : DOMAIN memory[k] = MemFields /\ Lines(memory[k].handler)
  BY <1>1 DEF ProgramInv, Followed, ProgramShape, Handlers
<1>4. task' = [task EXCEPT ![t].todo = s] /\ memory' = [memory EXCEPT ![m] = x]
  BY DEF Programs!Exec
<1>5. DOMAIN x = MemFields /\ x.buffer = <<>> /\ x.handler = <<>>
  BY DEF Programs!Fresh, MemFields
<1> HIDE DEF m, s, x
<1>6. DOMAIN task = Tasks /\ DOMAIN task[t] = TaskFields
  BY DEF ProgramInv, ProgramShape
<1>7. /\ DOMAIN task' = Tasks /\ \A u \in Tasks : u # t => task'[u] = task[u]
      /\ task'[t] = [task[t] EXCEPT !.todo = s]
  BY <1>4, <1>6
<1>8. /\ DOMAIN task'[t] = TaskFields /\ task'[t].todo = s
      /\ task'[t].state = task[t].state /\ task'[t].thread = task[t].thread
      /\ task'[t].parent = task[t].parent /\ task'[t].mem = task[t].mem /\ task'[t].said = task[t].said
  BY <1>6, <1>7 DEF TaskFields
<1>9. TasksGo(t)
  BY <1>1, <1>2, <1>7, <1>8, FollowsGoes
<1>10. SaidsStay
  BY <1>7, <1>8 DEF SaidsStay
<1>11. DOMAIN memory' = Tasks /\ memory'[m] = x /\ \A k \in Tasks : k # m => memory'[k] = memory[k]
  BY <1>3, <1>4
<1> DEFINE B == {m}
<1>12. MemoryKept(B)
  BY <1>3, <1>5, <1>11, LinesCalled DEF MemoryKept
<1>13. StaysEmpty(B)
  <2> SUFFICES ASSUME 1 \in B, ForksLeft(task'[1].todo), \A u \in Programs!Running : task[u].mem = u
               PROVE  FALSE
    BY DEF StaysEmpty
  <2>1. t = 1
    BY <1>1 DEF m
  <2> QED BY <1>2, <1>8, <2>1
<1>14. OutputKept
  BY <1>1 DEF OutputKept, ProgramInv, ProgramShape
<1>15. ProgramShape' /\ Followed' /\ FirstTask' /\ Handlers' /\ BeforeForks'
  <2> HIDE DEF B
  <2> QED BY <1>1, <1>9, <1>12, <1>13, <1>14, TasksGoOn
<1>16. LinesOnce'
  <2>1. \A k \in Tasks : memory'[k].buffer = memory[k].buffer \/ memory'[k].buffer = <<>>
    BY <1>5, <1>11
  <2> QED BY <1>1, <1>10, <2>1, LinesStay
<1> QED BY <1>15, <1>16 DEF ProgramInv

(* The lowest unused number is one, if there is one at all. *)
LEMMA NextIsUnused ==
    ASSUME Programs!Unused # {}
    PROVE  Programs!NextTask \in Programs!Unused
<1>1. Programs!Unused \subseteq Nat
  BY TaskNumbers DEF Programs!Unused
<1>2. \E k \in Programs!Unused : \A j \in Programs!Unused : k <= j
  BY <1>1, Smallest
<1> QED BY <1>2 DEF Programs!NextTask

(* Task t starts k: a process of its own, or one that shares t's memory.    *)
Spawns(t, k) ==
    /\ k \in Tasks /\ task[k].state \in {"none", "gone"}
    /\ DOMAIN task' = Tasks /\ \A u \in Tasks : DOMAIN task'[u] = TaskFields
    /\ \A u \in Tasks :
          /\ task'[u].said = task[u].said
          /\ u # k => /\ task'[u].thread = task[u].thread /\ task'[u].parent = task[u].parent
                      /\ task'[u].mem = task[u].mem /\ task'[u].state = task[u].state
          /\ u # k /\ u # t => task'[u].todo = task[u].todo
    /\ task'[t].todo = Programs!Rest(t)
    /\ task'[k].todo = Programs!Call(t).body /\ task'[k].state = "run"
    /\ task'[k].mem = IF Programs!Call(t).op = "fork" THEN k ELSE task[t].mem
    /\ memory' = IF Programs!Call(t).op = "fork" THEN [memory EXCEPT ![k] = memory[task[t].mem]]
                 ELSE memory

LEMMA SpawnStep ==
    ASSUME ProgramInv, NEW t, Called(t), Programs!Call(t).op \in {"fork", "clone", "create"},
           NEW k, Spawns(t, k), output' = output, UNCHANGED <<program, stdout>>
    PROVE  ProgramInv'
<1> USE TaskNumbers
<1> DEFINE c == Programs!Call(t)
           r == Programs!Rest(t)
<1>0. t \in Tasks /\ task[t].state = "run" /\ t \in Programs!Running /\ k \in Tasks
  BY DEF Called, Programs!Running, Spawns
<1>1. OfParent(c) /\ (t # 1 => OfChild(c)) /\ TaskFollows(t, r)
      /\ (ForksLeft(r) => ForksLeft(task[t].todo) /\ ~Shares(c))
      /\ (c.op = "fork" => ForksLeft(task[t].todo))
  BY WhatFollows
<1>2. t = 1 /\ OfChildren(c.body)
  BY <1>1 DEF OfParent, OfChild
<1>3. k # 1 /\ k # t /\ k \notin Programs!Running
  BY <1>0, <1>2 DEF Spawns, Programs!Running
<1>4. \A u \in Tasks : task'[u].state = "run" <=> task[u].state = "run" \/ u = k
  BY <1>3 DEF Spawns
<1>5. Programs!Running' = Programs!Running \cup {k}
  BY <1>0, <1>4 DEF Programs!Running
<1>6. /\ DOMAIN memory = Tasks /\ task[t].mem \in Tasks
      /\ \A m \in Tasks : DOMAIN memory[m] = MemFields /\ Lines(memory[m].handler)
  BY <1>0 DEF ProgramInv, ProgramShape, Handlers, Followed
<1>7. /\ DOMAIN memory' = Tasks /\ \A m \in Tasks : m # k => memory'[m] = memory[m]
      /\ memory'[k] = IF c.op = "fork" THEN memory[task[t].mem] ELSE memory[k]
  BY <1>0, <1>6 DEF Spawns
<1>8. ProgramShape'
  BY <1>6, <1>7 DEF ProgramInv, ProgramShape, Spawns
<1>9. Followed'
  <2>1. ASSUME NEW u \in Programs!Running, u # t PROVE task'[u].mem \in Tasks /\ TaskFollows(u, task'[u].todo)
    <3>1. u \in Tasks /\ task[u].mem \in Tasks /\ TaskFollows(u, task[u].todo)
      BY DEF ProgramInv, Followed, Programs!Running
    <3> QED BY <1>3, <2>1, <3>1 DEF Spawns
  <2>2. task'[t].mem \in Tasks /\ TaskFollows(t, task'[t].todo)
    BY <1>0, <1>1, <1>3, <1>6 DEF Spawns
  <2>3. task'[k].mem \in Tasks /\ TaskFollows(k, task'[k].todo)
    BY <1>0, <1>2, <1>3, <1>6 DEF Spawns, TaskFollows
  <2> QED BY <1>5, <2>1, <2>2, <2>3 DEF Followed, TaskFollows
<1>10. FirstTask'
  BY <1>3 DEF ProgramInv, FirstTask, Spawns
<1>11. Handlers'
  BY <1>6, <1>7 DEF Handlers
<1>12. BeforeForks'
  <2> SUFFICES ASSUME stdout' = "tty", task'[1].state = "run", ForksLeft(task'[1].todo)
               PROVE  /\ memory'[1].buffer = <<>> /\ memory'[1].by_line = TRUE
                      /\ \A u \in Programs!Running' : task'[u].mem = u
    BY DEF BeforeForks, ForksLeft
  <2>1. task'[1].todo = r
    BY <1>2 DEF Spawns
  <2>2. ForksLeft(task[1].todo) /\ c.op = "fork"
    BY <1>1, <1>2, <2>1 DEF Shares
  <2>3. /\ memory[1].buffer = <<>> /\ memory[1].by_line = TRUE
        /\ \A u \in Programs!Running : task[u].mem = u
    BY <1>0, <1>2, <2>2 DEF ProgramInv, BeforeForks
  <2>4. task'[k].mem = k
    BY <2>2 DEF Spawns
  <2>5. \A u \in Programs!Running : task'[u].mem = u
    BY <1>3, <2>3 DEF Spawns, Programs!Running
  <2> QED BY <1>3, <1>5, <1>7, <2>3, <2>4, <2>5
<1>13. LinesOnce'
  <2>1. CASE stdout = "tty"
    <3>1. c.op = "fork" => memory[task[t].mem].buffer = <<>>
      BY <1>0, <1>1, <1>2, <2>1 DEF ProgramInv, BeforeForks
    <3>2. \A m \in Tasks : memory'[m].buffer = memory[m].buffer \/ memory'[m].buffer = <<>>
      BY <1>7, <3>1
    <3>3. SaidsStay
      BY DEF Spawns, SaidsStay
    <3> QED BY <3>2, <3>3, LinesStay
  <2>2. CASE stdout # "tty"
    BY <2>2 DEF LinesOnce
  <2> QED BY <2>1, <2>2
<1> QED BY <1>8, <1>9, <1>10, <1>11, <1>12, <1>13 DEF ProgramInv

LEMMA SpawnSteps ==
    ASSUME ProgramInv, NEW t \in Tasks, UNCHANGED <<program, stdout>>,
           Programs!Fork(t) \/ Programs!Clone(t) \/ Programs!Create(t)
    PROVE  ProgramInv'
<1> DEFINE k == Programs!NextTask
           r == Programs!Rest(t)
           b == Programs!Call(t).body
           d == task[k].said
<1>1. Called(t) /\ output' = output /\ Programs!Call(t).op \in {"fork", "clone", "create"}
      /\ Programs!Unused # {}
  BY CallsCalled DEF Programs!Fork, Programs!Clone, Programs!Create, Programs!Calls, Programs!Call
<1>2. k \in Tasks /\ task[k].state \in {"none", "gone"} /\ task[t].state = "run"
  BY <1>1, NextIsUnused DEF Programs!Unused, Called, Programs!Running
<1>3. DOMAIN task = Tasks /\ \A u \in Tasks : DOMAIN task[u] = TaskFields
  BY DEF ProgramInv, ProgramShape
<1>4. \E x, y :
        /\ task' = [task EXCEPT ![t] = x, ![k] = y]
        /\ DOMAIN x = TaskFields /\ DOMAIN y = TaskFields
        /\ x.todo = r /\ x.said = task[t].said /\ x.thread = task[t].thread
        /\ x.parent = task[t].parent /\ x.mem = task[t].mem /\ x.state = task[t].state
        /\ y.todo = b /\ y.state = task[t].state /\ y.said = d
        /\ y.mem = IF Programs!Call(t).op = "fork" THEN k ELSE task[t].mem
  <2>1. CASE Programs!Fork(t)
    <3> DEFINE x == [task[t] EXCEPT !.todo = r, !.pids = Append(task[t].pids, k)]
               y == [task[t] EXCEPT !.todo = b, !.proc = k, !.mem = k, !.parent = t, !.said = d]
    <3>1. task' = [task EXCEPT ![t] = x, ![k] = y] /\ Programs!Call(t).op = "fork"
      BY <1>3, <2>1 DEF Programs!Fork, Programs!Calls, Programs!Call, TaskFields
    <3> HIDE DEF r, b, d, k
    <3>2. /\ DOMAIN x = TaskFields /\ DOMAIN y = TaskFields
          /\ x.todo = r /\ x.said = task[t].said /\ x.thread = task[t].thread
          /\ x.parent = task[t].parent /\ x.mem = task[t].mem /\ x.state = task[t].state
          /\ y.todo = b /\ y.state = task[t].state /\ y.said = d /\ y.mem = k
      BY <1>3 DEF TaskFields
    <3> HIDE DEF x, y
    <3> QED BY <3>1, <3>2
  <2>2. CASE Programs!Clone(t)
    <3> DEFINE x == [task[t] EXCEPT !.todo = r, !.pids = Append(task[t].pids, k)]
               y == [task[t] EXCEPT !.todo = b, !.proc = k, !.parent = t, !.said = d]
    <3>1. task' = [task EXCEPT ![t] = x, ![k] = y] /\ Programs!Call(t).op = "clone"
      BY <1>3, <2>2 DEF Programs!Clone, Programs!Calls, Programs!Call, TaskFields
    <3> HIDE DEF r, b, d, k
    <3>2. /\ DOMAIN x = TaskFields /\ DOMAIN y = TaskFields
          /\ x.todo = r /\ x.said = task[t].said /\ x.thread = task[t].thread
          /\ x.parent = task[t].parent /\ x.mem = task[t].mem /\ x.state = task[t].state
          /\ y.todo = b /\ y.state = task[t].state /\ y.said = d /\ y.mem = task[t].mem
      BY <1>3 DEF TaskFields
    <3> HIDE DEF x, y
    <3> QED BY <3>1, <3>2
  <2>3. CASE Programs!Create(t)
    <3> DEFINE x == [task[t] EXCEPT !.todo = r]
               y == [task[t] EXCEPT !.todo = b, !.thread = TRUE, !.parent = t, !.said = d]
    <3>1. task' = [task EXCEPT ![t] = x, ![k] = y] /\ Programs!Call(t).op = "create"
      BY <1>3, <2>3 DEF Programs!Create, Programs!Calls, Programs!Call, TaskFields
    <3> HIDE DEF r, b, d, k
    <3>2. /\ DOMAIN x = TaskFields /\ DOMAIN y = TaskFields
          /\ x.todo = r /\ x.said = task[t].said /\ x.thread = task[t].thread
          /\ x.parent = task[t].parent /\ x.mem = task[t].mem /\ x.state = task[t].state
          /\ y.todo = b /\ y.state = task[t].state /\ y.said = d /\ y.mem = task[t].mem
      BY <1>3 DEF TaskFields
    <3> HIDE DEF x, y
    <3> QED BY <3>1, <3>2
  <2> QED BY <2>1, <2>2, <2>3
<1>5. memory' = IF Programs!Call(t).op = "fork" THEN [memory EXCEPT ![k] = memory[task[t].mem]]
                ELSE memory
  BY DEF Programs!Fork, Programs!Clone, Programs!Create, Programs!Calls, Programs!Call, Programs!Mem
<1> HIDE DEF k
<1>6. Spawns(t, k)
  <2> HIDE DEF r, b, d
  <2>1. PICK x, y :
        /\ task' = [task EXCEPT ![t] = x, ![k] = y]
        /\ DOMAIN x = TaskFields /\ DOMAIN y = TaskFields
        /\ x.todo = r /\ x.said = task[t].said /\ x.thread = task[t].thread
        /\ x.parent = task[t].parent /\ x.mem = task[t].mem /\ x.state = task[t].state
        /\ y.todo = b /\ y.state = task[t].state /\ y.said = d
        /\ y.mem = IF Programs!Call(t).op = "fork" THEN k ELSE task[t].mem
    BY <1>4
  <2>2. k # t
    BY <1>2
  <2>3. /\ DOMAIN task' = Tasks /\ task'[t] = x /\ task'[k] = y
        /\ \A u \in Tasks : u # t /\ u # k => task'[u] = task[u]
    BY <1>2, <1>3, <2>1, <2>2
  <2> QED BY <1>2, <1>3, <1>5, <2>1, <2>2, <2>3 DEF Spawns, r, b, d
<1> QED BY <1>1, <1>6, SpawnStep

-----------------------------------------------------------------------------
LEMMA ProgramStep ==
    ASSUME ProgramInv, Programs!Next
    PROVE  ProgramInv'
<1>1. UNCHANGED <<program, stdout>>
  BY DEF Programs!Next
<1>2. PICK t \in Tasks : Programs!Step(t) \/ Programs!GetChar(t) \/ Programs!Interrupt(t)
  BY DEF Programs!Next
<1> QED BY <1>1, <1>2, VariableSteps, DescriptorSteps, OtherSteps, ReadByteStep, WaitPidStep, RefuseStep,
           SetsHandlerStep, FlushSteps, EndSteps, InterruptStep, PrintErrorStep, PrintfStep,
           ExecStep, SpawnSteps DEF Programs!Step

(* On a terminal no call prints twice.  A program forks before it leaves    *)
(* anything in the buffer of stdout or shares it with a thread, so there is *)
(* nothing that a fork could copy, whatever is refused, interrupted or      *)
(* killed (LinesComeOutOnce).                                               *)
THEOREM NoLineComesOutTwice == Spec => []LinesComeOutOnce
<1>1. Init => (kind = "program" => ProgramInv)
  BY ProgramInit DEF Init
<1>2. (kind = "program" => ProgramInv) /\ [Next]_allVars => (kind = "program" => ProgramInv)'
  <2> SUFFICES ASSUME kind = "program" => ProgramInv, [Next]_allVars, kind' = "program"
               PROVE  ProgramInv'
    BY DEF Next, Keeps, allVars, ProgramInv
  <2>1. CASE Next
    <3>1. kind = "program" /\ Programs!Next
      BY <2>1 DEF Next, Keeps
    <3> QED BY <3>1, ProgramStep
  <2>2. CASE UNCHANGED allVars
    <3>1. kind' = kind /\ UNCHANGED programVars
      BY <2>2 DEF allVars
    <3>2. ProgramInv
      BY <3>1
    <3> QED BY <3>1, <3>2 DEF programVars, ProgramInv, ProgramShape, Followed, FirstTask, Handlers, BeforeForks,
         LinesOnce, Sheets, Saids, Programs!Running
  <2> QED BY <2>1, <2>2
<1>3. (kind = "program" => ProgramInv) => LinesComeOutOnce
  BY ProgramInvImplies DEF LinesComeOutOnce
<1> QED BY <1>1, <1>2, <1>3, PTL DEF Spec
=============================================================================
