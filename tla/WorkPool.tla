------------------------------ MODULE WorkPool ------------------------------
(***************************************************************************)
(* What a pool of workers promises to the program that uses it: an item is *)
(* accepted or refused when it is submitted, every accepted item is        *)
(* executed once, and when the pool reports that it has shut down nothing  *)
(* accepted is left to execute and nothing is accepted any more.           *)
(***************************************************************************)
CONSTANT Item

VARIABLES accepted,     \* items the pool has taken on
          executed,     \* items whose function has been called
          closed,       \* the pool refuses new items
          finished      \* the pool has reported its shutdown

poolVars == <<accepted, executed, closed, finished>>

PoolInit == accepted = {} /\ executed = {} /\ closed = FALSE /\ finished = FALSE

Accept(i) ==
    /\ ~closed
    /\ i \notin accepted
    /\ accepted' = accepted \cup {i}
    /\ UNCHANGED <<executed, closed, finished>>

Execute(i) ==
    /\ i \in accepted \ executed
    /\ executed' = executed \cup {i}
    /\ UNCHANGED <<accepted, closed, finished>>

Close == closed' = TRUE /\ UNCHANGED <<accepted, executed, finished>>

Finish ==
    /\ closed
    /\ accepted = executed
    /\ finished' = TRUE
    /\ UNCHANGED <<accepted, executed, closed>>

PoolNext == Close \/ Finish \/ \E i \in Item : Accept(i) \/ Execute(i)

PoolSpec == PoolInit /\ [][PoolNext]_poolVars
=============================================================================
