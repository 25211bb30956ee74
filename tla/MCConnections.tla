--------------------------- MODULE MCConnections ---------------------------
(***************************************************************************)
(* Two connections, and the three goroutines that may close a connection.  *)
(***************************************************************************)
EXTENDS Client

CONSTANTS c1, c2

Pair == {c1, c2}
Goroutines == {"reader", "writer", "reporter"}
=============================================================================
