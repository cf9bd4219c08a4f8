-------------------------------- MODULE Ipc --------------------------------
(***************************************************************************)
(* The programs of the repository whose processes meet through the kernel: *)
(* the echo service over channels in shared memory (MemEcho), the one over *)
(* named pipes (FifoEcho), the programs that share a region or a file      *)
(* (SharedRegions), and the small programs about processes, pipes and      *)
(* threads (SmallPrograms).  kind says which of them runs; the variables   *)
(* of the others are None.                                                 *)
(***************************************************************************)
EXTENDS Integers, Sequences, FiniteSets

CONSTANTS Kind,
          Server, Client, requests, NITERS,     \* of the echo services
          Proc, Chan, Msg, Capacity,            \* of the channels in memory
          Cast, LEN, FileSizes,                 \* of the regions, shared by the clients
          Tasks, ITERATIONS, NTHREADS, NVALS,   \* of the small programs
          NULL

ASSUME KindAssumption == Kind \subseteq {"memory", "fifo", "program", "region"}

(* A response channel is named by the client it belongs to, and has one     *)
(* element.                                                                 *)
ASSUME EchoAssumption ==
    /\ Proc = Client \cup {Server} /\ Server \notin Client
    /\ Chan = Client \cup {requests} /\ requests \notin Client
    /\ NITERS \in Nat \ {0}
    /\ Capacity \in [Chan -> Nat \ {0}]
    /\ \A c \in Client : Capacity[c] = 1
    /\ NULL \notin Msg /\ NULL \notin Chan

VARIABLES kind,
          linked, pc, try, replies, received,                   \* both services
          iput, iget, size, buf, op,                            \* memory
          owned, queue, msg,                                    \* fifo
          role, newsize, at_name, length, ints, region, mapped, n, sum, whole,   \* region, with pc
          task, memory, shared, pipe, output, faults, program, stdout     \* program

serviceVars == <<linked, try, replies, received>>
chanVars == <<iput, iget, size, buf, op>>
pipeVars == <<owned, queue, msg>>
regionVars == <<role, newsize, at_name, length, ints, region, mapped, n, sum, whole>>
programVars == <<task, memory, shared, pipe, output, faults, program, stdout>>
allVars == <<kind, pc, serviceVars, chanVars, pipeVars, regionVars, programVars>>

InMemory == INSTANCE MemEcho
OverPipes == INSTANCE FifoEcho
Programs == INSTANCE SmallPrograms
Regions == INSTANCE SharedRegions WITH Process <- Client

ASSUME MessageAssumption == Msg = {InMemory!Request(c, i) : c \in Client, i \in 1..NITERS}
ASSUME CastAssumption == Cast \subseteq Regions!Roles

(* A region has elements; a file has whole megabytes of them, and so an     *)
(* even number, which maptest needs to sum them from the middle.            *)
ASSUME LenAssumption ==
    /\ LEN \in Nat \ {0}
    /\ FileSizes \subseteq Nat \ {0} /\ \A s \in FileSizes : s % 2 = 0

(* The tasks of the small programs are numbered from 1. *)
ASSUME TaskAssumption ==
    /\ 1 \in Tasks /\ Tasks \subseteq Nat \ {0}
    /\ {ITERATIONS, NTHREADS, NVALS} \subseteq Nat \ {0}

(* A variable of something that does not run. *)
None == <<>>

Init ==
    /\ kind \in Kind
    /\ \/ kind = "memory" /\ InMemory!Init
       \/ kind = "fifo" /\ OverPipes!Init
       \/ kind = "program" /\ Programs!Init
       \/ kind = "region" /\ Regions!Init
    /\ kind \notin {"memory", "fifo"} => /\ linked = None /\ try = None
                                         /\ replies = None /\ received = None
    /\ kind = "program" => pc = None
    /\ kind # "memory" => /\ iput = None /\ iget = None /\ size = None
                          /\ buf = None /\ op = None
    /\ kind # "fifo" => owned = None /\ queue = None /\ msg = None
    /\ kind # "region" => /\ role = None /\ newsize = None /\ at_name = None /\ length = None
                          /\ ints = None /\ region = None /\ mapped = None
                          /\ n = None /\ sum = None /\ whole = None
    /\ kind # "program" => /\ task = None /\ memory = None /\ shared = None
                           /\ pipe = None /\ output = None /\ faults = None
                           /\ program = None /\ stdout = None

(* What does not change while something else runs. *)
Keeps(k) ==
    /\ UNCHANGED kind
    /\ k \notin {"memory", "fifo"} => UNCHANGED serviceVars
    /\ k = "program" => UNCHANGED pc
    /\ k # "memory" => UNCHANGED chanVars
    /\ k # "fifo" => UNCHANGED pipeVars
    /\ k # "region" => UNCHANGED regionVars
    /\ k # "program" => UNCHANGED programVars

Next ==
    \/ kind = "memory" /\ InMemory!Next /\ Keeps("memory")
    \/ kind = "fifo" /\ OverPipes!Next /\ Keeps("fifo")
    \/ kind = "program" /\ Programs!Next /\ Keeps("program")
    \/ kind = "region" /\ Regions!Next /\ Keeps("region")

ServerStep ==
    \/ kind = "memory" /\ InMemory!ServerStep /\ Keeps("memory")
    \/ kind = "fifo" /\ OverPipes!ServerStep /\ Keeps("fifo")

ClientStep(c) ==
    \/ kind = "memory" /\ InMemory!ClientStep(c) /\ Keeps("memory")
    \/ kind = "fifo" /\ OverPipes!ClientStep(c) /\ Keeps("fifo")

TaskStep(t) == kind = "program" /\ Programs!TaskStep(t) /\ Keeps("program")
UserTypes(t) == kind = "program" /\ Programs!UserTypes(t) /\ Keeps("program")

(* Processes and threads that are not blocked are scheduled; nobody is      *)
(* killed, interrupted, woken spuriously or started by fairness, and        *)
(* nothing obliges a user to type.                                          *)
Spec ==
    /\ Init /\ [][Next]_allVars
    /\ WF_allVars(ServerStep)
    /\ \A c \in Client : WF_allVars(ClientStep(c))
    /\ \A t \in Tasks : WF_allVars(TaskStep(t))

-----------------------------------------------------------------------------
(* A client is never answered with the request of another, with a stale one *)
(* or twice: its replies are its own requests, in order.                    *)
RepliesMatch ==
    /\ kind = "memory" => InMemory!RepliesMatch
    /\ kind = "fifo" => OverPipes!RepliesMatch

(* Killing clients does not stop the service in memory: the server never    *)
(* finds a response channel gone, which would end it, nor full, which would *)
(* block it for ever on a client that is dead, nor does it use the mutex of *)
(* one that was destroyed.  The one over pipes has a weaker promise: it     *)
(* stops only after a client was killed.                                    *)
ServerSurvives ==
    /\ kind = "memory" => InMemory!ServerSurvives
    /\ kind = "fifo" => OverPipes!ServerSurvives

(* The request channel in memory, written by several clients, is a bounded  *)
(* FIFO: the ring neither loses, duplicates nor reorders a request, nor     *)
(* overwrites one, however puts, gets and late signals interleave.          *)
RequestChannel == INSTANCE BoundedFifo WITH
    Message <- Msg,
    Capacity <- Capacity[requests],
    contents <- IF kind = "memory" THEN InMemory!Contents(requests) ELSE <<>>,
    taken <- IF kind = "memory" THEN received ELSE <<>>
RequestsAreFifo == RequestChannel!FifoSpec

(* The small programs print the results they were written to show, whatever *)
(* the order of their processes and threads.                                *)
ResultsAreRight == kind = "program" => Programs!ResultsAreRight

(* On a terminal no line comes out twice, although fork copies the buffer   *)
(* of stdout.                                                               *)
LinesComeOutOnce == kind = "program" => Programs!LinesComeOutOnce

(* Who maps a region or a file by name stays inside what it has mapped; it  *)
(* leaves the region only when another program has cut the file to fewer    *)
(* elements, which never happens to shared memory.  No name is left over in *)
(* shared memory, and who maps a region that is written, and is not cut,    *)
(* sums every element of it.                                                *)
RegionsHold == kind = "region" => Regions!RegionsHold

(* A client dies where its channel cannot bear it: inside a call in memory, *)
(* since one killed between its unlock and its signal takes the wake-up of  *)
(* another with it; anywhere over pipes, since the server may be writing.   *)
DiesBadly(c) ==
    \/ kind = "memory" /\ pc[c] = "cut"
    \/ kind = "fifo" /\ pc[c] = "killed"

InService(c) ==
    kind \in {"memory", "fifo"} /\ pc[c] \notin {"start", "done", "killed"}

(* When no client dies badly every client of an echo service gets its       *)
(* replies and ends; and every small program ends, all its processes and    *)
(* threads, if the user answers every prompt.                               *)
EverybodyEnds ==
    /\ [](\A c \in Client : ~DiesBadly(c)) => <>[](\A c \in Client : ~InService(c))
    /\ (\A t \in Tasks : WF_allVars(UserTypes(t))) => <>(kind = "program" => Programs!AllEnded)
=============================================================================
