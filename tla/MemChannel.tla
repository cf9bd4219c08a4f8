----------------------------- MODULE MemChannel -----------------------------
(***************************************************************************)
(* The shared-memory channel of src/aula-06-04/ipc/memchannel/memchan.c:   *)
(* a ring buffer of `capacity` elements in a named shared-memory region,   *)
(* protected by a process-shared mutex, with one condition variable for    *)
(* getters (hasItems) and one for putters (hasSpace).  A critical section  *)
(* is one step.  Both operations signal after the unlock, a step of its    *)
(* own, and any wait may return spuriously.                                *)
(*                                                                         *)
(* op[p] is the call process p is in.  The module that composes processes  *)
(* with channels says who calls what (mc_put, mc_get) and what follows.    *)
(***************************************************************************)
EXTENDS Integers, Sequences, FiniteSets

CONSTANTS Proc, Chan, Msg,
          Capacity,     \* the number of elements of each channel
          NULL

VARIABLES
    linked,     \* the channels that have their name, mutex and condition variables
    iput, iget, size, buf,
    op          \* the call each process is in: what it does, on which channel, with which message

chanVars == <<linked, iput, iget, size, buf, op>>

(* What op[p].do says.  none: in no call;  put, get: about to lock;          *)
(* putwait, getwait: in the condition variable;  putsignal, getsignal:      *)
(* after the unlock;  got: the get has returned msg.                        *)
Idle == [do |-> "none", ch |-> NULL, msg |-> NULL]

ChanInit ==
    /\ linked = {}
    /\ iput = [c \in Chan |-> 0]
    /\ iget = [c \in Chan |-> 0]
    /\ size = [c \in Chan |-> 0]
    /\ buf = [c \in Chan |-> [i \in 0..Capacity[c]-1 |-> NULL]]
    /\ op = [p \in Proc |-> Idle]

Waiting(do, c) == {p \in Proc : op[p].do = do /\ op[p].ch = c}

-----------------------------------------------------------------------------
(* mc_create: the region is created under its name, or the one that has the *)
(* name is taken over, and every field is initialised, the mutex and the    *)
(* condition variables too.                                                 *)
mc_create(c) ==
    /\ linked' = linked \cup {c}
    /\ iput' = [iput EXCEPT ![c] = 0]
    /\ iget' = [iget EXCEPT ![c] = 0]
    /\ size' = [size EXCEPT ![c] = 0]
    /\ UNCHANGED <<buf, op>>

(* mc_destroy by the owner destroys the condition variables and the mutex   *)
(* and takes the name away; what other processes have mapped stays mapped.  *)
(* Nobody else is in a wait then (NobodyUsesADestroyedChannel), so that     *)
(* destroying does not block; and a mc_put that signals only now finds no   *)
(* waiter in the memory of the condition variable, and so does nothing.     *)
mc_destroy(c) ==
    /\ linked' = linked \ {c}
    /\ UNCHANGED <<iput, iget, size, buf, op>>

(* p enters mc_put or mc_get. *)
Enter(p, do, c, m) ==
    /\ op[p] = Idle
    /\ op' = [op EXCEPT ![p] = [do |-> do, ch |-> c, msg |-> m]]

mc_put(p, c, m) == Enter(p, "put", c, m) /\ UNCHANGED <<linked, iput, iget, size, buf>>
mc_get(p, c) == Enter(p, "get", c, NULL) /\ UNCHANGED <<linked, iput, iget, size, buf>>

(* Mutant: the index does not move. *)
AfterSame(c, i) == i

After(c, i) == IF i + 1 = Capacity[c] THEN 0 ELSE i + 1

PutLocks(p) ==
    LET c == op[p].ch IN
    /\ op[p].do = "put"
    /\ \/ /\ size[c] = Capacity[c]
          /\ op' = [op EXCEPT ![p].do = "putwait"]
          /\ UNCHANGED <<iput, size, buf>>
       \/ /\ size[c] # Capacity[c]
          /\ buf' = [buf EXCEPT ![c][iput[c]] = op[p].msg]
          /\ iput' = [iput EXCEPT ![c] = After(c, @)]
          /\ size' = [size EXCEPT ![c] = @ + 1]
          /\ op' = [op EXCEPT ![p].do = "putsignal"]
    /\ UNCHANGED <<linked, iget>>

GetLocks(p) ==
    LET c == op[p].ch IN
    /\ op[p].do = "get"
    /\ \/ /\ size[c] = 0
          /\ op' = [op EXCEPT ![p].do = "getwait"]
          /\ UNCHANGED <<iget, size>>
       \/ /\ size[c] # 0
          /\ iget' = [iget EXCEPT ![c] = After(c, @)]
          /\ size' = [size EXCEPT ![c] = @ - 1]
          /\ op' = [op EXCEPT ![p] = [do |-> "getsignal", ch |-> c, msg |-> buf[c][iget[c]]]]
    /\ UNCHANGED <<linked, iput, buf>>

(* The signal wakes one process of the condition variable, if there is one; *)
(* it goes back to test its condition.                                      *)
SignalOne(p, next, waiting, again) ==
    \/ /\ waiting = {}
       /\ op' = [op EXCEPT ![p] = next]
    \/ \E q \in waiting : op' = [op EXCEPT ![p] = next, ![q].do = again]

(* Mutant: the putter tells nobody. *)
PutsSilently(p) ==
    /\ op[p].do = "putsignal"
    /\ op' = [op EXCEPT ![p] = Idle]
    /\ UNCHANGED <<linked, iput, iget, size, buf>>

PutSignals(p) ==
    /\ op[p].do = "putsignal"
    /\ SignalOne(p, Idle, Waiting("getwait", op[p].ch), "get")
    /\ UNCHANGED <<linked, iput, iget, size, buf>>

GetSignals(p) ==
    /\ op[p].do = "getsignal"
    /\ SignalOne(p, [op[p] EXCEPT !.do = "got"], Waiting("putwait", op[p].ch), "put")
    /\ UNCHANGED <<linked, iput, iget, size, buf>>

SpuriousWakeup(p) ==
    /\ op[p].do \in {"putwait", "getwait"}
    /\ op' = [op EXCEPT ![p].do = IF @ = "putwait" THEN "put" ELSE "get"]
    /\ UNCHANGED <<linked, iput, iget, size, buf>>

InCall(p) == PutLocks(p) \/ GetLocks(p) \/ PutSignals(p) \/ GetSignals(p)

(* Nobody locks or waits on what mc_destroy has destroyed.                  *)
NobodyUsesADestroyedChannel ==
    \A p \in Proc : op[p].do \in {"put", "get", "putwait", "getwait"} => op[p].ch \in linked

-----------------------------------------------------------------------------
(* The messages in channel c, oldest first, read from the ring. *)
Contents(c) == [n \in 1..size[c] |-> buf[c][(iget[c] + n - 1) % Capacity[c]]]
=============================================================================
