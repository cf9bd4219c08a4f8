---------------------------- MODULE BoundedFifo ----------------------------
(***************************************************************************)
(* What the bounded queues of the repository promise, whatever they are    *)
(* built from: at most Capacity messages inside, delivered once each in    *)
(* the order they were put.  Blocking shows as steps that are not enabled. *)
(***************************************************************************)
EXTENDS Naturals, Sequences

CONSTANTS Message, Capacity

VARIABLES contents,     \* the messages inside, oldest first
          taken         \* history: the messages delivered, in order

fifoVars == <<contents, taken>>

FifoInit == contents = <<>> /\ taken = <<>>

Put(m) ==
    /\ Len(contents) < Capacity
    /\ contents' = Append(contents, m)
    /\ UNCHANGED taken

Get ==
    /\ contents # <<>>
    /\ taken' = Append(taken, Head(contents))
    /\ contents' = Tail(contents)

FifoNext == Get \/ \E m \in Message : Put(m)

FifoSpec == FifoInit /\ [][FifoNext]_fifoVars
=============================================================================
