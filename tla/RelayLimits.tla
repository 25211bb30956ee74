----------------------------- MODULE RelayLimits -----------------------------
(***************************************************************************)
(* The constants of the modules Relay and Relaying.                        *)
(***************************************************************************)
EXTENDS PortRange, Sequences

CONSTANTS
  Allocs,       \* the allocations that clients of the TURN server ask for
  Tries,        \* how often a port is drawn: 10 in the code
  Requested,    \* bound: the ports the library asks for by number
  OtherPorts,   \* bound: the ports other programs open and close
  Responses, Failure, Minute, Second, MaxTime   \* of module IPDNS

ASSUME RelayAssumption ==
  /\ Tries \in Nat
  /\ Requested \subseteq Ports \ {0}
  /\ OtherPorts \subseteq Ports

\* A resolved address is never the absent one, and no caller is called nobody.
ASSUME ProviderAssumption ==
  /\ Responses \ {Failure} \subseteq Seq([family : {"v4", "v6"}, host : STRING \ {"nil"}])
  /\ {Second, Minute, MaxTime} \subseteq Nat /\ Second <= Minute
  /\ "nobody" \notin Allocs
=============================================================================
