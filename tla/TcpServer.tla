------------------------------ MODULE TcpServer ------------------------------
(***************************************************************************)
(* The echo server over TCP with a pool of threads,                        *)
(* src/aula-06-09/echo_service/echo_ipchannel.  The main thread accepts    *)
(* and submits; a worker serves a connection to its end.  The pool is      *)
(* tpool.c of that directory, and this server never shuts it down.  The    *)
(* signal of tp_submit comes after the unlock, a step of its own.          *)
(***************************************************************************)
EXTENDS Sockets

CONSTANT Worker     \* threads of the pool

VARIABLES accepted, \* descriptors submitted to the pool and not taken by a worker
          serving,  \* the descriptor each worker is in process_connection with, or NULL
          asleep,   \* the workers in the wait on has_work
          signals   \* main is between the unlock and the signal of tp_submit

tcpVars == <<accepted, serving, asleep, signals>>
vars == <<sockVars, tcpVars>>

TcpOK ==
    /\ accepted \in Seq(Fd) /\ IsInjective(accepted)
    /\ serving \in [Worker -> Fd \cup {NULL}]
    /\ asleep \subseteq {w \in Worker : serving[w] = NULL}
    /\ signals \in BOOLEAN

tp_init ==
    /\ accepted = <<>>
    /\ serving = [w \in Worker |-> NULL]
    /\ asleep = {}

Init == tp_init /\ signals = FALSE

-----------------------------------------------------------------------------
tp_submit(f) ==
    /\ accepted' = Append(accepted, f)
    /\ signals' = TRUE

(* pthread_cond_signal wakes one of the workers that wait, if there is one. *)
SubmitSignals ==
    /\ signals
    /\ signals' = FALSE
    /\ \/ \E w \in asleep : asleep' = asleep \ {w}
       \/ asleep = {} /\ UNCHANGED asleep
    /\ UNCHANGED <<sockVars, accepted, serving>>

run ==
    /\ ~signals
    /\ accept(FreeFd)
    /\ tp_submit(FreeFd)
    /\ UNCHANGED <<serving, asleep>>

WaitsForWork(w) ==
    /\ serving[w] = NULL
    /\ w \notin asleep
    /\ accepted = <<>>
    /\ asleep' = asleep \cup {w}
    /\ UNCHANGED <<sockVars, accepted, serving, signals>>

(* The worker is awake and calls dispatch_connection with the first item. *)
TakeWork(w) ==
    /\ serving[w] = NULL
    /\ w \notin asleep
    /\ accepted # <<>>
    /\ serving' = [serving EXCEPT ![w] = Head(accepted)]
    /\ accepted' = Tail(accepted)
    /\ UNCHANGED <<sockVars, asleep, signals>>

(* A spurious wake-up that finds nothing waits again and is no step. *)
SpuriousWakeup(w) ==
    /\ w \in asleep
    /\ accepted # <<>>
    /\ asleep' = asleep \ {w}
    /\ UNCHANGED <<sockVars, accepted, serving, signals>>

process_connection(w) ==
    /\ serving[w] # NULL
    /\ \/ /\ ReadAndEcho(serving[w])
          /\ UNCHANGED serving
       \/ /\ AtEnd(serving[w])
          /\ Close(serving[w])
          /\ serving' = [serving EXCEPT ![w] = NULL]
    /\ UNCHANGED <<accepted, asleep, signals>>

ServerStep ==
    \/ run
    \/ SubmitSignals
    \/ \E w \in Worker : WaitsForWork(w) \/ TakeWork(w) \/ process_connection(w)

Spurious == \E w \in asleep : SpuriousWakeup(w)

-----------------------------------------------------------------------------
(* Each connection is with one worker or once in the pool's queue. *)
Served == Range(serving) \ {NULL}
Watched == Range(accepted) \cup Served
WatchedOnce == Cardinality(Watched) =
    Len(accepted) + Cardinality({w \in Worker : serving[w] # NULL})

(* The signal of tp_submit comes after its unlock, and may find that the    *)
(* work has been taken: no wake-up is lost.  While a worker sleeps there is *)
(* one awake, or about to be woken, for each connection in the queue.       *)
Idle == {w \in Worker \ asleep : serving[w] = NULL}
NobodySleepsOverWork ==
    asleep = {} \/ Len(accepted) <= Cardinality(Idle) + IF signals THEN 1 ELSE 0
=============================================================================
