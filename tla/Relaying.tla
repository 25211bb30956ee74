------------------------------ MODULE Relaying ------------------------------
(***************************************************************************)
(* The allocations of module Relay with the address cache of module IPDNS  *)
(* for their provider: with its socket open, an allocation asks for the    *)
(* address of the server and waits for it (turn/server.go:53).             *)
(***************************************************************************)
EXTENDS Relay

VARIABLES clock, records, changed, holder, asking, cache, fetched, refetch

dns == <<clock, records, changed, holder, asking, cache, fetched, refetch>>

Provider == INSTANCE IPDNS WITH Callers <- Allocs, pc <- asking

Ask(a) == pc[a] = "open" /\ Provider!Call(a) /\ UNCHANGED vars

Get(a) ==
  /\ Provider!Lock(a) \/ Provider!UseCache(a) \/ Provider!Refetch(a) \/ Provider!Resolved(a)
  /\ UNCHANGED vars

\* Of the addresses only the families matter to a socket.
Answer ==
  [v4 |-> IF cache.v4 = Provider!Nil THEN "nil" ELSE "v4",
   v6 |-> IF cache.v6 = Provider!Nil THEN "nil" ELSE "v6"]

Answered(a) ==
  /\ Provider!Return(a)
  /\ IF cache.failed THEN LookupFails(a) ELSE ServeWith(a, Answer)

RelayingInit == Init /\ Provider!Init

RelayingNext ==
  \/ \E a \in Allocs :
       \/ Ask(a) \/ Get(a) \/ Answered(a)
       \/ /\ \/ \E requested \in Requested \cup {0} : Allocate(a, requested)
             \/ OpenPort(a) \/ OpenFails(a) \/ Draw(a) \/ DrawFails(a) \/ Release(a)
          /\ UNCHANGED dns
  \/ \E p \in OtherPorts : (OpenOther(p) \/ CloseOther(p)) /\ UNCHANGED dns
  \/ \E response \in Responses : Provider!Change(response) /\ UNCHANGED vars
  \/ Provider!Tick /\ UNCHANGED vars

RelayingSpec == RelayingInit /\ [][RelayingNext]_<<vars, dns>>
=============================================================================
