-------------------------------- MODULE Relay --------------------------------
(***************************************************************************)
(* Relay sockets: the generators that the TURN library calls to open one   *)
(* for each allocation (turn/server.go, turn/portrange.go, turn/none.go).  *)
(* The library serves its clients concurrently and other programs hold     *)
(* ports of the same machine.                                              *)
(***************************************************************************)
EXTENDS RelayLimits

VARIABLES
  range,      \* MinPort and MaxPort
  pc,         \* the stage of each call of Generator.AllocatePacketConn
  wanted,     \* its requestedPort
  tries,      \* how many draws have failed
  port,       \* the port of the socket it opened
  relayed,    \* the address that it returns to the client
  sockets,    \* the ports this process has open
  others,     \* the ports other programs have open
  handedBack  \* the sockets returned together with an error

vars == <<range, pc, wanted, tries, port, relayed, sockets, others, handedBack>>

\* What net.IP is: an address of a family, or nil
Families == {"v4", "v6"}
Addresses == Families \cup {"nil"}

\* What a provider answers: some address, never none (see IPDNS and Startup)
Answers == {a \in [v4 : {"v4", "nil"}, v6 : {"v6", "nil"}] : a.v4 # "nil" \/ a.v6 # "nil"}

TypeOK ==
  /\ range \in [min : Ports, max : Ports] /\ Accepted(range.min, range.max)
  /\ pc \in [Allocs -> {"idle", "opening", "open", "served"}]
  /\ wanted \in [Allocs -> Ports]
  /\ tries \in [Allocs -> 0 .. Tries]
  /\ port \in [Allocs -> Ports]
  /\ relayed \in [Allocs -> Addresses]
  /\ sockets \subseteq Ports /\ others \subseteq Ports /\ handedBack \subseteq Ports

Init ==
  /\ range \in {r \in [min : Ports, max : Ports] : Accepted(r.min, r.max)}
  /\ pc = [a \in Allocs |-> "idle"]
  /\ wanted = [a \in Allocs |-> 0]
  /\ tries = [a \in Allocs |-> 0]
  /\ port = [a \in Allocs |-> 0]
  /\ relayed = [a \in Allocs |-> "nil"]
  /\ sockets = {} /\ others = {} /\ handedBack = {}

-----------------------------------------------------------------------------
Free(p) == p # 0 /\ p \notin sockets \cup others

\* generator: a range in use is drawn from, unless a port is asked for.
Draws(a) == wanted[a] = 0 /\ UseRange(range.min, range.max)

Allocate(a, requested) ==
  /\ pc[a] = "idle"
  /\ pc' = [pc EXCEPT ![a] = "opening"]
  /\ wanted' = [wanted EXCEPT ![a] = requested]
  /\ UNCHANGED <<range, tries, port, relayed, sockets, others, handedBack>>

\* net.ListenPacket succeeds.
Listen(a, p) ==
  /\ Free(p)
  /\ pc' = [pc EXCEPT ![a] = "open"]
  /\ port' = [port EXCEPT ![a] = p]
  /\ sockets' = sockets \cup {p}
  /\ UNCHANGED <<range, wanted, tries, relayed, others, handedBack>>

\* The call, or the allocation, is over and its variables with it.
Over(a) ==
  /\ pc' = [pc EXCEPT ![a] = "idle"]
  /\ wanted' = [wanted EXCEPT ![a] = 0]
  /\ tries' = [tries EXCEPT ![a] = 0]
  /\ port' = [port EXCEPT ![a] = 0]
  /\ relayed' = [relayed EXCEPT ![a] = "nil"]
  /\ UNCHANGED <<range, others>>

\* A port by number, or, without a range, any that the system has
OpenPort(a) ==
  /\ pc[a] = "opening" /\ ~Draws(a)
  /\ \E p \in Ports : (p = wanted[a] \/ wanted[a] = 0) /\ Listen(a, p)

OpenFails(a) ==
  /\ pc[a] = "opening" /\ ~Draws(a)
  /\ wanted[a] = 0 \/ ~Free(wanted[a])
  /\ Over(a)
  /\ UNCHANGED <<sockets, handedBack>>

MayDraw(a) == pc[a] = "opening" /\ Draws(a) /\ tries[a] < Tries

\* Mutant of Draw: the loop goes on after a port was opened.
DrawAgain(a) ==
  /\ MayDraw(a)
  /\ \E drawn \in 0 .. Size(range.min, range.max) - 1 :
       /\ tries' = [tries EXCEPT ![a] = @ + 1]
       /\ sockets' = sockets \cup ({Port(range.min, drawn)} \ others)
       /\ UNCHANGED <<range, pc, wanted, port, relayed, others, handedBack>>

Draw(a) ==
  /\ MayDraw(a)
  /\ \E drawn \in 0 .. Size(range.min, range.max) - 1 :
       LET p == Port(range.min, drawn)
       IN \/ Listen(a, p)
          \/ /\ ~Free(p)
             /\ tries' = [tries EXCEPT ![a] = @ + 1]
             /\ UNCHANGED <<range, pc, wanted, port, relayed, sockets, others, handedBack>>

\* "could not find free port: max retries exceeded"
DrawFails(a) ==
  /\ pc[a] = "opening" /\ Draws(a) /\ tries[a] = Tries
  /\ Over(a)
  /\ UNCHANGED <<sockets, handedBack>>

\* Mutant of RelayAddress: the address of the family, whether there is one or not.
RelayAddressOfFamily(family, answer) == IF family = "v4" THEN answer.v4 ELSE answer.v6

\* The address of the server that goes with a socket of this family
RelayAddress(family, answer) ==
  IF answer.v6 = "nil" \/ (family = "v4" /\ answer.v4 # "nil") THEN answer.v4 ELSE answer.v6

\* The provider answers.
ServeWith(a, answer) ==
  /\ pc[a] = "open"
  /\ pc' = [pc EXCEPT ![a] = "served"]
  /\ \E family \in Families :
       relayed' = [relayed EXCEPT ![a] = RelayAddress(family, answer)]
  /\ UNCHANGED <<range, wanted, tries, port, sockets, others, handedBack>>

Serve(a) == \E answer \in Answers : ServeWith(a, answer)

\* The provider fails.  The socket is returned with the error; the caller, a
\* library, may close it or not.
LookupFails(a) ==
  /\ pc[a] = "open"
  /\ Over(a)
  /\ \/ sockets' = sockets \ {port[a]} /\ UNCHANGED handedBack
     \/ handedBack' = handedBack \cup {port[a]} /\ UNCHANGED sockets

\* The library closes the socket of an allocation that ended or expired.
Release(a) ==
  /\ pc[a] = "served"
  /\ Over(a)
  /\ sockets' = sockets \ {port[a]}
  /\ UNCHANGED handedBack

OpenOther(p) ==
  /\ Free(p)
  /\ others' = others \cup {p}
  /\ UNCHANGED <<range, pc, wanted, tries, port, relayed, sockets, handedBack>>

CloseOther(p) ==
  /\ p \in others
  /\ others' = others \ {p}
  /\ UNCHANGED <<range, pc, wanted, tries, port, relayed, sockets, handedBack>>

Progress(a) ==
  OpenPort(a) \/ OpenFails(a) \/ Draw(a) \/ DrawFails(a) \/ Serve(a) \/ LookupFails(a)

Next ==
  \/ \E a \in Allocs :
       \/ \E requested \in Requested \cup {0} : Allocate(a, requested)
       \/ Progress(a)
       \/ Release(a)
  \/ \E p \in OtherPorts : OpenOther(p) \/ CloseOther(p)

Spec == Init /\ [][Next]_vars

-----------------------------------------------------------------------------
Holds(a) == pc[a] \in {"open", "served"}

\* An allocation that did not ask for a port gets one of the configured range,
\* whichever range the configuration accepts (portrange.go:36).
PortsInRange ==
  \A a \in Allocs :
    Holds(a) /\ Draws(a) => port[a] \in range.min .. range.max

\* Sockets do not pile up: each open one is held by exactly one allocation or
\* was handed back with the error of a failed lookup (server.go:55).
SocketsHeld ==
  /\ \A p \in sockets \ handedBack : \E a \in Allocs : Holds(a) /\ port[a] = p
  /\ \A a \in Allocs : Holds(a) => port[a] \in sockets \ handedBack
  /\ \A a, b \in Allocs : Holds(a) /\ Holds(b) /\ port[a] = port[b] => a = b

\* A client is never told to relay through no address, on servers that have
\* one family of addresses only too (server.go:58).
RelayedSomewhere == \A a \in Allocs : pc[a] = "served" => relayed[a] # "nil"
=============================================================================
