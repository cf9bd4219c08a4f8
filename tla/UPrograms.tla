----------------------------- MODULE UPrograms -----------------------------
(***************************************************************************)
(* What is built on user threads and what they are built on: the queue of  *)
(* UQueue, the threads that can be joined of UJoin, the machine of         *)
(* UMachine under the scheduler, and the lists of IntrusiveList under      *)
(* everything.  kind says which of them runs; the variables of the others  *)
(* are None.                                                               *)
(***************************************************************************)
EXTENDS Integers, Sequences, FiniteSets

CONSTANTS Kind,                                     \* those to consider
          Thread, Main, NULL,
          Event, AutoEvent, Semaphore, Limit, Unit, \* of the queue
          elem_avaiable, space_avaiable, Program,
          Joiner, Build,                            \* threads and builds of UJoin
          Process, Version,                         \* threads and versions of UMachine
          listhead

ASSUME LibraryAssumption ==
    /\ Main \notin Thread /\ NULL \notin Thread /\ Main # NULL
    /\ Limit \in Nat \ {0} /\ Unit \subseteq Nat \ {0}
    /\ Event \cap AutoEvent = {} /\ (Event \cup AutoEvent) \cap Semaphore = {}

ASSUME ProgramAssumption ==
    /\ Semaphore = {elem_avaiable, space_avaiable}
    /\ elem_avaiable # space_avaiable
    /\ 1 \in Unit
    /\ Program \in [Thread -> Seq({"put", "get", "yield"})]

ASSUME KindAssumption ==
    /\ Kind \subseteq {"queue", "join", "machine", "list"}
    /\ Build \subseteq {"event", "list"}
    /\ Version \subseteq {"uthread", "uthread0"}
    /\ Joiner \subseteq Thread /\ Process \subseteq Thread
    /\ listhead \notin Thread \cup {Main, NULL}

ASSUME FiniteAssumption == IsFiniteSet(Thread)

VARIABLES kind,
          number_of_threads, running_thread, main_thread, allocated,    \* all but the list
          ready_queue,                                  \* queue and join
          units, waiters, request,                      \* queue
          signaled,                                     \* queue and join
          head, step, waited, taken,                    \* queue
          build, alive_queue, join_waiters,             \* join
          version, stack, context, regs, rsp, rip, left,\* machine
          link,                                         \* machine and list
          entries, result                               \* list

threadVars == <<number_of_threads, running_thread, main_thread, allocated>>
queueVars == <<units, waiters, request, head, step, waited, taken>>
joinVars == <<build, alive_queue, join_waiters>>
machineVars == <<version, stack, context, regs, rsp, rip, left>>
listVars == <<entries, result>>
allVars == <<kind, threadVars, ready_queue, signaled, queueVars, joinVars, machineVars,
             link, listVars>>

Queue == INSTANCE UQueue
Join == INSTANCE UJoin WITH Thread <- Joiner
Machine == INSTANCE UMachine WITH Thread <- Process, sentinel <- listhead
List == INSTANCE IntrusiveList WITH Entry <- Thread

(* A variable of something that does not run. *)
None == <<>>

Init ==
    /\ kind \in Kind
    /\ \/ kind = "queue" /\ Queue!QueueInit
       \/ kind = "join" /\ Join!JoinInit
       \/ kind = "machine" /\ Machine!Init
       \/ kind = "list" /\ List!Init
    /\ kind = "list" => /\ number_of_threads = None /\ running_thread = None
                        /\ main_thread = None /\ allocated = None
    /\ kind \notin {"queue", "join"} => ready_queue = None /\ signaled = None
    /\ kind # "queue" => /\ units = None /\ waiters = None /\ request = None
                         /\ head = None /\ step = None /\ waited = None /\ taken = None
    /\ kind # "join" => build = None /\ alive_queue = None /\ join_waiters = None
    /\ kind # "machine" => /\ version = None /\ stack = None /\ context = None
                           /\ regs = None /\ rsp = None /\ rip = None /\ left = None
    /\ kind \notin {"machine", "list"} => link = None
    /\ kind # "list" => entries = None /\ result = None

QueueStep ==
    /\ kind = "queue" /\ Queue!QueueNext
    /\ UNCHANGED <<kind, joinVars, machineVars, link, listVars>>

JoinStep ==
    /\ kind = "join" /\ Join!JoinNext
    /\ UNCHANGED <<kind, queueVars, machineVars, link, listVars>>

MachineStep ==
    /\ kind = "machine" /\ Machine!Next
    /\ UNCHANGED <<kind, ready_queue, signaled, queueVars, joinVars, listVars>>

ListStep ==
    /\ kind = "list" /\ List!Next
    /\ UNCHANGED <<kind, threadVars, ready_queue, signaled, queueVars, joinVars, machineVars>>

(* One operating-system thread runs the queue's program and always has a    *)
(* next step unless the program is over, so it is enough that it is         *)
(* scheduled.                                                               *)
Spec ==
    /\ Init /\ [][QueueStep \/ JoinStep \/ MachineStep \/ ListStep]_allVars
    /\ WF_allVars(QueueStep)

-----------------------------------------------------------------------------
(* Units are conserved across direct hand-off: each message in the list is  *)
(* an available unit or promised to a getter that was woken and has not run *)
(* yet; each free place is a unit or promised to a woken putter.            *)
UnitsAddUp == kind = "queue" => Queue!UnitsAddUp

(* The queue is a bounded FIFO. *)
ImplementsFifo == Queue!ImplementsFifo

(* When puts and gets balance, every thread finishes and ut_run returns,    *)
(* whatever the order in which main created the threads.                    *)
ProgramEnds == <>(kind = "queue" => Queue!Ended)

(* A joiner waits in one descriptor, which is allocated, so that somebody   *)
(* is left to wake it; and threads that only join leave nobody behind when  *)
(* the main thread gets control, except those that wait for each other in a *)
(* circle.                                                                  *)
JoinsAreSound == kind = "join" => Join!JoinersWaitForTheLiving /\ Join!OnlyCyclesBlock

(* The links are a circle that reads as the same sequence in both           *)
(* directions: the one the operations describe, and the ready queue of      *)
(* allocated descriptors, each at most once.                                *)
LinksAgree ==
    /\ kind = "list" => List!LinksFollowTheSequence
    /\ kind = "machine" => Machine!LinksAgree

(* Whoever gets the processor back finds its registers and its stack        *)
(* pointer as they were when it called, however many switches, exits and    *)
(* freed stacks lie between.                                                *)
ResumesAsItLeft == kind = "machine" => Machine!ResumesAsItLeft

(* The machine does what the scheduler's specification says.  A call of     *)
(* ut_run on an empty queue, and the first steps of a thread, are stutters; *)
(* uthread0 has no counter and keeps main_thread for ever.                  *)
Switching == kind = "machine" /\ rip # "main"
Scheduler == INSTANCE UThread WITH
    Thread <- Process,
    ready_queue <- IF kind = "machine" THEN Machine!ReadyThreads ELSE <<>>,
    running_thread <- IF Switching THEN running_thread ELSE NULL,
    main_thread <- IF Switching THEN main_thread ELSE NULL,
    allocated <- IF kind = "machine" THEN allocated ELSE {},
    number_of_threads <- IF kind # "machine" THEN 0
                         ELSE IF version = "uthread" THEN number_of_threads
                         ELSE Cardinality(allocated)
MachineImplementsUThread == Scheduler!Spec
=============================================================================
