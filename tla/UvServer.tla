------------------------------ MODULE UvServer ------------------------------
(***************************************************************************)
(* The echo server over libuv, src/aula-06-18/echo_libuv/echo_uv_srv.c:    *)
(* callbacks of one loop, called in whatever order events arrive.  A       *)
(* handle is allocated for each connection; uv_close closes its descriptor *)
(* at once, and the loop calls on_close, which frees the handle, later in  *)
(* the same iteration.                                                     *)
(***************************************************************************)
EXTENDS Sockets

Addr == Fd      \* where malloc puts handles: addresses enough for all

VARIABLES handle,   \* the connection whose handle is at each address, NULL in free memory
          closing   \* addresses of the handles closed and not freed yet

uvVars == <<handle, closing>>
vars == <<sockVars, uvVars>>

UvOK ==
    /\ handle \in [Addr -> Client \cup {NULL}]
    /\ closing \subseteq {a \in Addr : handle[a] # NULL}

Init ==
    /\ handle = [a \in Addr |-> NULL]
    /\ closing = {}

(* The descriptor of the handle at address a. *)
Active(a) == handle[a] # NULL /\ a \notin closing
FdOf(a) == CHOOSE f \in Open : owner[f] = handle[a]

-----------------------------------------------------------------------------
on_new_connection ==
    \E a \in Addr :
        /\ handle[a] = NULL
        /\ accept(FreeFd)
        /\ handle' = [handle EXCEPT ![a] = Head(backlog)]
        /\ UNCHANGED closing

uv_close(a) ==
    /\ Close(FdOf(a))
    /\ closing' = closing \cup {a}
    /\ UNCHANGED handle

echo_read(a) ==
    /\ listening /\ Active(a)
    /\ \/ /\ ReadAndEcho(FdOf(a))       \* uv_write; its buffer is freed when it completes
          /\ UNCHANGED uvVars
       \/ /\ AtEnd(FdOf(a))
          /\ uv_close(a)

on_close(a) ==
    /\ listening /\ a \in closing
    /\ handle' = [handle EXCEPT ![a] = NULL]
    /\ closing' = closing \ {a}
    /\ UNCHANGED sockVars

ServerStep ==
    \/ on_new_connection
    \/ \E a \in Addr : echo_read(a) \/ on_close(a)

-----------------------------------------------------------------------------
Watched == {FdOf(a) : a \in {b \in Addr : Active(b)}}
WatchedOnce == Cardinality(Watched) = Cardinality({a \in Addr : Active(a)})
=============================================================================
