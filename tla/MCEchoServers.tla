---------------------------- MODULE MCEchoServers ----------------------------
(***************************************************************************)
(* Three clients and tables with room for two of them, so that a slot of a *)
(* table is used again and a client is refused.  Two clients suffice for   *)
(* the servers whose table is in the kernel.  Descriptors 0 to 3 are the   *)
(* standard ones and the listen socket.                                    *)
(***************************************************************************)
EXTENDS EchoServers

CONSTANTS c1, c2, c3, w1, w2

Clients == {c1, c2, c3}
Populations == [k \in Kind |-> IF k \in {"epoll", "loop", "uv", "uvpool"} THEN {c1, c2} ELSE Clients]
=============================================================================
