--------------------------- MODULE SharedRegions ---------------------------
(***************************************************************************)
(* Memory shared by name: the functions of src/lib/memutils.c and the      *)
(* programs around them, smem_writer and smem_reader (aula-04-23) over a   *)
(* shared-memory object, genints and maptest (aula-04-22) over a file.     *)
(* A system call, and an access to one element, is one step; between any   *)
(* two the user may keep the program waiting at phase_start for ever.      *)
(*                                                                         *)
(* A name leads to a region, which lives on without its name while it is   *)
(* mapped.  A region is known by the process whose call created it.        *)
(***************************************************************************)
EXTENDS Integers, Sequences, FiniteSets

CONSTANTS Process,
          Cast,         \* the assignments of roles to processes to consider
          LEN,          \* bound: ints in shared memory, 10^6 in the code
          FileSizes,    \* bound: ints asked for on a command line, in the code whole megabytes
          NULL

VARIABLES
    role,       \* what each process runs; maptest has a size or not
    newsize,    \* the ints each process works on
    at_name,    \* the region the name leads to
    length,     \* of each region
    ints,       \* the elements of each region that were written, and not cut off since
    pc,
    region,     \* what each process has opened, then mapped
    mapped,     \* how many ints of it each process has mapped
    n,          \* the element each loop is at
    sum,
    whole       \* history: what the process works on was written when it mapped the
                \* region, and has not been cut since

regionVars == <<role, newsize, at_name, length, ints, pc, region, mapped, n, sum, whole>>

OverFile == {"genints", "maptest", "maptest_size"}
Sized == {"genints", "maptest_size"}

(* The programs of one name: all over shared memory, or all over a file.    *)
Roles == [Process -> {"smem_writer", "smem_reader"}] \cup [Process -> OverFile]

(* Each program over a file has the size of its own command line, which is  *)
(* positive: 0 is maptest without a size, ftruncate refuses a negative one. *)
SizesOf(r) == CASE r \in Sized -> FileSizes [] r = "maptest" -> {0} [] OTHER -> {LEN}

(* The programs, each as the calls and loops of its main.                   *)
smem_writer == <<"create", "truncate", "map", "write", "destroy", "end">>
smem_reader == <<"open", "map", "read", "destroy", "end">>
genints == <<"create", "truncate", "map", "write", "unmap", "end">>
maptest(sized) ==
    IF sized THEN <<"create", "truncate", "map", "read", "inc", "unmap", "end">>
    ELSE <<"create", "map", "read", "inc", "unmap", "end">>

Phases ==
    [smem_writer |-> smem_writer, smem_reader |-> smem_reader, genints |-> genints,
     maptest |-> maptest(FALSE), maptest_size |-> maptest(TRUE)]

(* There is nothing under the name, or a file that an earlier genints left; *)
(* nobody has created that one here, so that it may be known by any process. *)
NothingThere ==
    /\ at_name = NULL
    /\ length = [p \in Process |-> 0]
    /\ ints = [p \in Process |-> {}]

FileThere ==
    \E f \in Process, s \in FileSizes :
        /\ role[f] \in OverFile
        /\ at_name = f
        /\ length = [p \in Process |-> IF p = f THEN s ELSE 0]
        /\ ints = [p \in Process |-> IF p = f THEN 0..s-1 ELSE {}]

Init ==
    /\ role \in Cast
    /\ newsize \in [Process -> FileSizes \cup {0, LEN}]
    /\ \A p \in Process : newsize[p] \in SizesOf(role[p])
    /\ NothingThere \/ FileThere
    /\ pc = [p \in Process |-> Phases[role[p]][1]]
    /\ region = [p \in Process |-> NULL]
    /\ mapped = [p \in Process |-> 0]
    /\ n = [p \in Process |-> 0]
    /\ sum = [p \in Process |-> 0]
    /\ whole = [p \in Process |-> FALSE]

Go(p, l) == pc' = [pc EXCEPT ![p] = l]

(* No program has a phase twice. *)
GoesOn(p) ==
    \E i \in 1..Len(Phases[role[p]])-1 :
        Phases[role[p]][i] = pc[p] /\ Go(p, Phases[role[p]][i+1])

-----------------------------------------------------------------------------
(* mmap fails when there is nothing to map; the caller gets NULL, and the   *)
(* program ends.                                                            *)
shmem_internal_map(p, size) ==
    /\ IF size = 0 THEN /\ Go(p, "end")
                        /\ region' = [region EXCEPT ![p] = NULL]
                        /\ UNCHANGED <<mapped, whole>>
       ELSE /\ mapped' = [mapped EXCEPT ![p] = size]
            /\ whole' = [whole EXCEPT ![p] = 0..newsize[p]-1 \subseteq ints[region[p]]]
            /\ GoesOn(p)
            /\ UNCHANGED region
    /\ UNCHANGED <<role, newsize, at_name, length, ints, n, sum>>

(* shm_open of shmem_create, open and fstat of map_file: what the name leads *)
(* to may be new and empty.                                                  *)
Creates(p) ==
    /\ pc[p] = "create"
    /\ at_name' = IF at_name = NULL THEN p ELSE at_name
    /\ region' = [region EXCEPT ![p] = at_name']
    /\ mapped' = [mapped EXCEPT ![p] = IF role[p] = "maptest" THEN length[at_name'] ELSE 0]
    /\ GoesOn(p)
    /\ UNCHANGED <<role, newsize, length, ints, n, sum, whole>>

(* ftruncate to the size of the caller, whatever size there was and whoever *)
(* has mapped it: what lies beyond is gone, what is added is 0.             *)
Truncates(p) ==
    LET r == region[p] IN
    /\ pc[p] = "truncate"
    /\ length' = [length EXCEPT ![r] = newsize[p]]
    /\ ints' = [ints EXCEPT ![r] = @ \cap 0..newsize[p]-1]
    /\ whole' = [q \in Process |-> whole[q] /\ (region[q] = r => mapped[q] <= newsize[p])]
    /\ GoesOn(p)
    /\ UNCHANGED <<role, newsize, at_name, region, mapped, n, sum>>

shmem_create(p) ==
    /\ role[p] = "smem_writer" /\ pc[p] = "map"
    /\ shmem_internal_map(p, newsize[p])

(* It calls mmap itself, to the same effect: without a size of its own it   *)
(* maps the size that fstat has told, which may be out of date.             *)
map_file(p) ==
    /\ role[p] \in OverFile /\ pc[p] = "map"
    /\ shmem_internal_map(p, IF newsize[p] = 0 THEN mapped[p] ELSE newsize[p])

(* shm_open of shmem_open: without the object the program ends. *)
Opens(p) ==
    /\ pc[p] = "open"
    /\ region' = [region EXCEPT ![p] = at_name]
    /\ IF at_name = NULL THEN Go(p, "end") ELSE GoesOn(p)
    /\ UNCHANGED <<role, newsize, at_name, length, ints, mapped, n, sum, whole>>

(* Mutant: the object is believed to have its size. *)
ShmemOpenTrusts(p) ==
    /\ role[p] = "smem_reader" /\ pc[p] = "map"
    /\ shmem_internal_map(p, LEN)

(* fstat and mmap of shmem_open: the object may have no size yet. *)
shmem_open(p) ==
    /\ role[p] = "smem_reader" /\ pc[p] = "map"
    /\ shmem_internal_map(p, length[region[p]])

-----------------------------------------------------------------------------
(* The loops.  maptest's sum_ints reads two elements a round, from the      *)
(* middle; without a size of its own it reads and increments nothing.       *)
Reads(p) ==
    LET half == newsize[p] \div 2 IN
    IF role[p] = "smem_reader" THEN IF n[p] < newsize[p] THEN {n[p]} ELSE {}
    ELSE IF half + n[p] < newsize[p] THEN {half + n[p], half - 1 - n[p]} ELSE {}

(* The elements p is about to touch. *)
Touched(p) ==
    CASE pc[p] = "read" -> Reads(p)
      [] pc[p] \in {"write", "inc"} /\ n[p] < newsize[p] -> {n[p]}
      [] OTHER -> {}

InRegion(p) == \A i \in Touched(p) : i < length[region[p]]

(* Beyond the end of the region there is no memory behind the mapping: the  *)
(* access raises SIGBUS.                                                    *)
BusError(p) ==
    /\ ~InRegion(p)
    /\ Go(p, "killed")
    /\ region' = [region EXCEPT ![p] = NULL]
    /\ UNCHANGED <<role, newsize, at_name, length, ints, mapped, n, sum, whole>>

(* Round n of a loop that writes the elements in order. *)
WritesNext(p) ==
    /\ InRegion(p)
    /\ IF n[p] < newsize[p]
       THEN /\ ints' = [ints EXCEPT ![region[p]] = @ \cup {n[p]}]
            /\ n' = [n EXCEPT ![p] = @ + 1]
            /\ UNCHANGED pc
       ELSE GoesOn(p) /\ UNCHANGED <<ints, n>>
    /\ UNCHANGED <<role, newsize, at_name, length, region, mapped, sum, whole>>

write_ints(p) == pc[p] = "write" /\ WritesNext(p)

(* All that counts of an element is that it was written. *)
inc_ints(p) == pc[p] = "inc" /\ WritesNext(p)

sum_ints(p) ==
    /\ pc[p] = "read" /\ InRegion(p)
    /\ IF Reads(p) # {}
       THEN /\ sum' = [sum EXCEPT ![p] = @ + Cardinality(Reads(p) \cap ints[region[p]])]
            /\ n' = [n EXCEPT ![p] = @ + 1]
            /\ UNCHANGED pc
       ELSE /\ n' = [n EXCEPT ![p] = 0]
            /\ GoesOn(p)
            /\ UNCHANGED sum
    /\ UNCHANGED <<role, newsize, at_name, length, ints, region, mapped, whole>>

(* The name goes, whatever region it leads to by now. *)
shmem_destroy(p) ==
    /\ pc[p] = "destroy"
    /\ at_name' = NULL
    /\ region' = [region EXCEPT ![p] = NULL]
    /\ GoesOn(p)
    /\ UNCHANGED <<role, newsize, length, ints, mapped, n, sum, whole>>

unmap_file(p) ==
    /\ pc[p] = "unmap"
    /\ region' = [region EXCEPT ![p] = NULL]
    /\ GoesOn(p)
    /\ UNCHANGED <<role, newsize, at_name, length, ints, mapped, n, sum, whole>>

Next ==
    \E p \in Process :
        \/ Creates(p) \/ Truncates(p) \/ shmem_create(p) \/ map_file(p)
        \/ Opens(p) \/ shmem_open(p)
        \/ write_ints(p) \/ sum_ints(p) \/ inc_ints(p) \/ BusError(p)
        \/ shmem_destroy(p) \/ unmap_file(p)

-----------------------------------------------------------------------------
(* q has given the file its size. *)
HasTruncated(q) == role[q] \in Sized /\ pc[q] \notin {"create", "truncate"}

(* Nobody touches an element beyond what it mapped.  Over shared memory     *)
(* nobody touches one beyond the end of the region either, although a       *)
(* region has its name before it has its size; a file may be cut under a    *)
(* mapping, but only by a program that was asked for fewer elements, and    *)
(* only then is anybody killed.                                             *)
EveryAccessIsInside ==
    \A p \in Process :
        /\ Touched(p) \subseteq 0..mapped[p]-1
        /\ ~InRegion(p) => \E q \in Process : HasTruncated(q) /\ newsize[q] = length[region[p]]
        /\ pc[p] = "killed" => \E q \in Process : HasTruncated(q) /\ newsize[q] < newsize[p]

(* When all the programs over shared memory have ended no name is left,     *)
(* although each may unlink a region that another one has created in        *)
(* between.                                                                 *)
NoNameIsLeft == (\A p \in Process : role[p] \notin OverFile /\ pc[p] = "end") => at_name = NULL

(* Who maps a region that is written sums every element of it, once, unless *)
(* it is cut.                                                               *)
SumIsWhole ==
    \A p \in Process :
        pc[p] \in {"inc", "unmap", "destroy"} /\ role[p] \in {"smem_reader", "maptest_size"} /\ whole[p]
           => sum[p] = newsize[p]

RegionsHold == EveryAccessIsInside /\ NoNameIsLeft /\ SumIsWhole
=============================================================================
