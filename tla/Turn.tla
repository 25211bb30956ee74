-------------------------------- MODULE Turn --------------------------------
(***************************************************************************)
(* The TURN server that turn.Start makes when it is not elsewhere          *)
(* (turn/server.go): its user names (TurnServer) and its sockets           *)
(* (Relaying).  The two share no variable, so a behaviour follows one of   *)
(* them: a property of one of them holds whatever the other does.          *)
(***************************************************************************)
EXTENDS TurnServer, RelayLimits

VARIABLES
  part,    \* the part that is followed
  range, pc, wanted, tries, port, relayed, sockets, others, handedBack,
  clock, records, changed, holder, asking, cache, fetched, refetch

relaying ==
  <<range, pc, wanted, tries, port, relayed, sockets, others, handedBack,
    clock, records, changed, holder, asking, cache, fetched, refetch>>

Sockets == INSTANCE Relaying

-----------------------------------------------------------------------------
TurnInit ==
  /\ part \in {"names", "sockets"}
  /\ Init /\ Sockets!RelayingInit
  /\ part = "names" => range = [min |-> 0, max |-> 0] /\ records = Failure

TurnNext ==
  /\ UNCHANGED part
  /\ \/ part = "names" /\ Next /\ UNCHANGED relaying
     \/ part = "sockets" /\ Sockets!RelayingNext /\ UNCHANGED vars

TurnSpec == TurnInit /\ [][TurnNext]_<<vars, relaying, part>> /\ Fairness

-----------------------------------------------------------------------------
PortsInRange == Sockets!PortsInRange
SocketsHeld == Sockets!SocketsHeld
RelayedSomewhere == Sockets!RelayedSomewhere
CacheInTime == Sockets!Provider!CacheInTime

\* With this provider the allocations are those of module Relay, and what is
\* proved of them holds: an answer is never without any address
\* (server.go:58 uses the one that is not nil).
RelaySpec == Sockets!Spec
=============================================================================
