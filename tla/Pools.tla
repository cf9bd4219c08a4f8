------------------------------- MODULE Pools -------------------------------
(***************************************************************************)
(* The three thread pools of the repository, each of which must execute    *)
(* what it accepted, once.  kind is the pool that runs: "shutdown" is      *)
(* ThreadPool, "monitor" and "signal" are those of EarlierPools, without   *)
(* the variables of the shutdown.                                          *)
(***************************************************************************)
EXTENDS Integers, Sequences, FiniteSets

CONSTANTS Kind, Worker, Client,
          Item,
          Pill,     \* the work item whose func is NULL
          NULL

ASSUME PoolAssumption ==
    /\ Kind \subseteq {"shutdown", "monitor", "signal"}
    /\ IsFiniteSet(Worker)
    /\ Worker # {}              \* with pool_size 0 nobody ever sets shutdown_done
    /\ Worker \cap Client = {} /\ NULL \notin Worker \cup Client
    /\ Pill \notin Item /\ NULL \notin Item /\ Pill # NULL

VARIABLES kind,
          work_queue, pc, wi, submitted, accepted, executed,
          remaining_threads, in_shutdown, shutdown_done, destroyed      \* shutdown

earlierVars == <<work_queue, pc, wi, submitted, accepted, executed>>
shutdownVars == <<remaining_threads, in_shutdown, shutdown_done, destroyed>>
vars == <<kind, earlierVars, shutdownVars>>

Pool == INSTANCE ThreadPool
Earlier == INSTANCE EarlierPools

None == <<>>

Init ==
    /\ kind \in Kind
    /\ IF kind = "shutdown" THEN Pool!Init
       ELSE /\ Earlier!Init
            /\ remaining_threads = None /\ in_shutdown = None
            /\ shutdown_done = None /\ destroyed = None

Next ==
    /\ \/ kind = "shutdown" /\ Pool!Next
       \/ kind = "monitor" /\ Earlier!MonitorNext /\ UNCHANGED shutdownVars
       \/ kind = "signal" /\ Earlier!SignalNext /\ UNCHANGED shutdownVars
    /\ UNCHANGED kind

(* What thread t does by itself once it is in the pool. *)
ThreadStep(t) ==
    /\ \/ kind = "shutdown" /\ t \in Worker /\ Pool!WorkerStep(t)
       \/ kind = "shutdown" /\ t \in Client /\ Pool!ShutdownStep(t)
       \/ kind = "monitor" /\ t \in Worker /\ Earlier!MonitorStep(t) /\ UNCHANGED shutdownVars
       \/ kind = "signal" /\ Earlier!SignalStep(t) /\ UNCHANGED shutdownVars
    /\ UNCHANGED kind

(* A thread that is not blocked is eventually scheduled by the system.      *)
(* Nothing obliges a client to submit or to shut down, or a wait to return  *)
(* spuriously.                                                              *)
LiveSpec ==
    /\ Init /\ [][Next]_vars
    /\ \A t \in Worker \cup Client : WF_vars(ThreadStep(t))

-----------------------------------------------------------------------------
(* Every accepted item is in exactly one place: once in the queue, in the   *)
(* hands of one worker, or executed once; a dropped item is nowhere.        *)
EachItemInOnePlace == Pool!EachItemInOnePlace

(* Once shutdown has begun there is one pill for every worker that runs, so *)
(* shutdown_done means that no worker will look at the pool again.          *)
OnePillPerWorker == kind = "shutdown" => Pool!OnePillPerWorker

(* Once the mutex and the condition variables are destroyed nobody is about *)
(* to lock or to wait; see ThreadPool for the one signal that may come late.*)
NobodyLocksADestroyedPool == kind = "shutdown" => Pool!NobodyLocksADestroyedPool

(* Each pool keeps the promise of WorkPool.  ThreadPool has finished when   *)
(* tp_shutdown is past its wait; the others never close.                    *)
Promise == INSTANCE WorkPool WITH
              executed <- {i \in Item : executed[i] > 0},
              closed <- kind = "shutdown" /\ in_shutdown,
              finished <- kind = "shutdown" /\ (destroyed \/ \E c \in Client : pc[c] = "destroy")
ImplementsWorkPool == Promise!PoolSpec

(* Every accepted item is executed, whether or not a shutdown intervenes.   *)
AcceptedIsExecuted == \A i \in Item : (i \in accepted) ~> (executed[i] = 1)

(* A shutdown that has begun completes and the pool is destroyed.           *)
ShutdownCompletes == (kind = "shutdown" /\ in_shutdown) ~> (kind = "shutdown" /\ destroyed)
=============================================================================
