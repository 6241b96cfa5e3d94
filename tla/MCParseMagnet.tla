--------------------------- MODULE MCParseMagnet ----------------------------
(* Model values for the run of ParseMagnet: two calls for one magnet at one   *)
(* replica, the second through the cache, and a replica that makes no calls   *)
(* but takes answers from the queue.                                          *)
EXTENDS ParseMagnet

CONSTANTS parse, fetch, magnet, r1, r2, w1

MCMagnet == [c \in Calls |-> magnet]
MCHome == [c \in Calls |-> r1]

=============================================================================
