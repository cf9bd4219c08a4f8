---------------------------- MODULE UvPoolServer ----------------------------
(***************************************************************************)
(* The echo server over libuv that answers from libuv's pool of threads,   *)
(* src/aula-06-23/echo_libuv/echo_uv_srv.c.  A request is queued with the  *)
(* address of its client's handle; when a thread of the pool has done the  *)
(* work the loop calls send_resp, which writes to whatever is at that      *)
(* address by then.                                                        *)
(***************************************************************************)
EXTENDS UvServer

VARIABLES work, \* requests in the pool: of whom, which, and the address of its handle
          done  \* those whose work is done and whose send_resp is still to be called

poolVars == <<work, done>>

Request == [sender : Client, try : 1..NITERS, client : Addr]

UvPoolOK == UvOK /\ work \subseteq Request /\ done \subseteq Request

PoolInit == Init /\ work = {} /\ done = {}

-----------------------------------------------------------------------------
NewConnection == on_new_connection /\ UNCHANGED poolVars

(* dispatch_work. *)
DispatchWork(a) ==
    LET c == handle[a] IN
    /\ listening /\ Active(a)
    /\ inbox[c] > 0
    /\ inbox' = [inbox EXCEPT ![c] = @ - 1]
    /\ work' = work \cup {[sender |-> c, try |-> try[c] - inbox[c] + 1, client |-> a]}
    /\ UNCHANGED <<listening, backlog, owner, replies, at, try, uvVars, done>>

ReadsEnd(a) ==
    /\ listening /\ Active(a)
    /\ AtEnd(FdOf(a))
    /\ uv_close(a)
    /\ UNCHANGED poolVars

HandleFreed(a) == on_close(a) /\ UNCHANGED poolVars

do_work(w) ==
    /\ listening
    /\ work' = work \ {w}
    /\ done' = done \cup {w}
    /\ UNCHANGED <<sockVars, uvVars>>

(* uv_write answers an error when the handle is closing.  A write to a      *)
(* client that has gone and left a reply unread may find the connection     *)
(* reset, which raises SIGPIPE.  In free memory there is what the closed    *)
(* handle left, and then the same, or something else, and then the process  *)
(* may die.                                                                 *)
send_resp(w) ==
    LET c == handle[w.client] IN
    /\ listening
    /\ done' = done \ {w}
    /\ \/ /\ Active(w.client)
          /\ replies' = [replies EXCEPT ![c] = @ + 1]
          /\ UNCHANGED <<listening, backlog, owner, inbox, at, try>>
       \/ /\ Active(w.client) /\ at[c] = "end" /\ replies[c] > 0
          /\ ProcessDies
       \/ /\ ~Active(w.client)
          /\ UNCHANGED sockVars
       \/ /\ c = NULL
          /\ ProcessDies
    /\ UNCHANGED <<work, uvVars>>

PoolServerStep ==
    \/ NewConnection
    \/ \E a \in Addr : DispatchWork(a) \/ ReadsEnd(a) \/ HandleFreed(a)
    \/ \E w \in work : do_work(w)
    \/ \E w \in done : send_resp(w)

-----------------------------------------------------------------------------
(* "Here we send the response to our client": the handle send_resp will     *)
(* write to is its sender's, or closed.  It does not hold: the handle of a  *)
(* client that left is freed while its request is in the pool, and the      *)
(* handle of a new client is put at the same address.                       *)
ToOurClient == \A w \in done : handle[w.client] \in {NULL, w.sender}
=============================================================================
