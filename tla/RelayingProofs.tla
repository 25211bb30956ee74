--------------------------- MODULE RelayingProofs ---------------------------
(***************************************************************************)
(* The arithmetic of the port range is right for every width of a port     *)
(* number, although max + 1 wraps to 0 for the highest port; relay sockets *)
(* stay in the range and are accounted for, for any number of allocations; *)
(* and the allocations that ask the address cache of module IPDNS are      *)
(* those of module Relay, as what the cache answers is an address or an    *)
(* error, never neither.                                                   *)
(***************************************************************************)
EXTENDS Relaying, TLAPS, FiniteSetTheorems, SequenceTheorems

-----------------------------------------------------------------------------
(* The port range. *)

LEMMA WrappedSmall ==
  ASSUME NEW n \in Ports
  PROVE  Wrapped(n) = n
BY WidthAssumption DEF Wrapped, Ports

LEMMA WrappedBelow ==
  ASSUME NEW n \in -Width .. -1
  PROVE  Wrapped(n) = n + Width
BY WidthAssumption DEF Wrapped

LEMMA WrappedWidth == Wrapped(Width) = 0
BY WidthAssumption DEF Wrapped

\* The size of a range in use is the number of its ports, also when the range
\* ends with the last port there is; Intn is never called with 0.
LEMMA SizeIsRight ==
  ASSUME NEW min \in Ports, NEW max \in Ports,
         UseRange(min, max), Accepted(min, max)
  PROVE  Size(min, max) = max - min + 1
<1>1. 0 < min /\ min <= max /\ max < Width
  BY WidthAssumption DEF UseRange, Accepted, Ports
<1>2. CASE max + 1 \in Ports
  <2>1. max + 1 - min \in Ports
    BY <1>1, <1>2, WidthAssumption DEF Ports
  <2>2. Wrapped(max + 1) = max + 1
    BY <1>2, WrappedSmall
  <2>3. Wrapped(max + 1 - min) = max + 1 - min
    BY <2>1, WrappedSmall
  <2>4. QED
    BY <1>1, <2>2, <2>3 DEF Size, Ports
<1>3. CASE max + 1 = Width
  <2>1. 0 - min \in -Width .. -1
    BY <1>1, WidthAssumption DEF Ports
  <2>2. Wrapped(0 - min) = 0 - min + Width
    BY <2>1, WrappedBelow
  <2>3. QED
    BY <1>1, <1>3, <2>2, WrappedWidth, WidthAssumption DEF Size, Ports
<1>4. QED
  BY <1>1, <1>2, <1>3, WidthAssumption DEF Ports

\* Every range that the configuration accepts is drawn from entirely and never
\* left (portrange.go:36).
THEOREM RangeIsDrawn ==
  ASSUME NEW min \in Ports, NEW max \in Ports,
         UseRange(min, max), Accepted(min, max)
  PROVE  /\ Size(min, max) > 0
         /\ Drawn(min, max) = min .. max
<1>1. 0 < min /\ min <= max /\ max < Width
  BY WidthAssumption DEF UseRange, Accepted, Ports
<1>2. Size(min, max) = max - min + 1
  BY SizeIsRight
<1>3. ASSUME NEW drawn \in 0 .. max - min
      PROVE  Port(min, drawn) = min + drawn
  <2>1. min + drawn \in Ports
    BY <1>1, WidthAssumption DEF Ports
  <2>2. QED
    BY <2>1, WrappedSmall DEF Port
<1>4. ASSUME NEW p \in min .. max
      PROVE  p \in Drawn(min, max)
  <2>1. p - min \in 0 .. max - min
    BY <1>1, WidthAssumption DEF Ports
  <2>2. Port(min, p - min) = p
    BY <2>1, <1>3, <1>1, WidthAssumption DEF Ports
  <2>3. QED
    BY <1>1, <1>2, <2>1, <2>2, WidthAssumption DEF Drawn, Ports
<1>5. ASSUME NEW p \in Drawn(min, max)
      PROVE  p \in min .. max
  <2>1. PICK drawn \in 0 .. max - min : p = Port(min, drawn)
    BY <1>1, <1>2, WidthAssumption DEF Drawn, Ports
  <2>2. QED
    BY <2>1, <1>3, <1>1, WidthAssumption DEF Ports
<1>6. Drawn(min, max) = min .. max
  BY <1>4, <1>5
<1>7. QED
  BY <1>1, <1>2, <1>6, WidthAssumption DEF Ports
-----------------------------------------------------------------------------
\* A socket that was handed back is not closed any more.
IInv ==
  TypeOK /\ PortsInRange /\ SocketsHeld /\ RelayedSomewhere /\ handedBack \subseteq sockets

LEMMA AddressChosen ==
  ASSUME NEW family \in Families, NEW answer \in Answers
  PROVE  RelayAddress(family, answer) \in Families
BY DEF RelayAddress, Answers, Families

LEMMA InitIInv == Init => IInv
BY WidthAssumption, RelayAssumption
   DEF Init, IInv, TypeOK, PortsInRange, SocketsHeld, RelayedSomewhere, Holds, Draws, Ports,
       Addresses

LEMMA ListenIInv ==
  ASSUME IInv, NEW a \in Allocs, NEW p \in Ports, pc[a] = "opening", Listen(a, p),
         Draws(a) => p \in range.min .. range.max
  PROVE  IInv'
<1> USE DEF Listen, Free, IInv
<1>1. TypeOK'
  BY DEF TypeOK
<1>2. PortsInRange'
  BY DEF PortsInRange, Holds, Draws, TypeOK
<1>3. SocketsHeld'
  <2>1. \A b \in Allocs : Holds(b)' <=> Holds(b) \/ b = a
    BY DEF Holds, TypeOK
  <2>2. \A b \in Allocs : port'[b] = IF b = a THEN p ELSE port[b]
    BY DEF TypeOK
  <2>3. ~Holds(a) /\ p \notin sockets /\ sockets' = sockets \cup {p}
        /\ handedBack' = handedBack
    BY DEF Holds
  <2> HIDE DEF Holds
  <2>4. QED
    BY <2>1, <2>2, <2>3 DEF SocketsHeld
<1>4. RelayedSomewhere'
  BY DEF RelayedSomewhere, TypeOK
<1>5. QED
  BY <1>1, <1>2, <1>3, <1>4

LEMMA OverIInv ==
  ASSUME IInv, NEW a \in Allocs, Over(a),
         \/ ~Holds(a) /\ UNCHANGED <<sockets, handedBack>>
         \/ Holds(a) /\ sockets' = sockets \ {port[a]} /\ UNCHANGED handedBack
         \/ Holds(a) /\ handedBack' = handedBack \cup {port[a]} /\ UNCHANGED sockets
  PROVE  IInv'
<1> USE DEF Over, IInv
<1>1. TypeOK'
  <2>1. 0 \in Ports /\ 0 \in 0 .. Tries /\ "nil" \in Addresses
    BY RelayAssumption, WidthAssumption DEF Ports, Addresses
  <2>2. sockets' \subseteq Ports /\ handedBack' \subseteq Ports
    BY DEF TypeOK
  <2>3. QED
    BY <2>1, <2>2 DEF TypeOK
<1>2. \A b \in Allocs : Holds(b)' <=> Holds(b) /\ b # a
  BY DEF Holds, TypeOK
<1>3. \A b \in Allocs \ {a} : port'[b] = port[b] /\ relayed'[b] = relayed[b]
                             /\ pc'[b] = pc[b] /\ Draws(b)' = Draws(b)
  BY DEF TypeOK, Draws
<1>4. PortsInRange'
  BY <1>2, <1>3 DEF PortsInRange
<1>5. SocketsHeld' /\ handedBack' \subseteq sockets'
  BY <1>2, <1>3 DEF SocketsHeld
<1>6. RelayedSomewhere'
  BY <1>3 DEF RelayedSomewhere, TypeOK
<1>7. QED
  BY <1>1, <1>4, <1>5, <1>6

LEMMA QuietIInv ==
  ASSUME IInv, UNCHANGED <<range, port, sockets, handedBack, wanted>>,
         pc' \in [Allocs -> {"idle", "opening", "open", "served"}],
         tries' \in [Allocs -> 0 .. Tries], others' \subseteq Ports,
         relayed' \in [Allocs -> Addresses],
         \A a \in Allocs : Holds(a)' <=> Holds(a),
         RelayedSomewhere'
  PROVE  IInv'
BY DEF IInv, TypeOK, PortsInRange, SocketsHeld, Draws

LEMMA AllocateIInv ==
  ASSUME IInv, NEW a \in Allocs, NEW requested \in Ports, Allocate(a, requested)
  PROVE  IInv'
<1> USE DEF Allocate, IInv
<1>1. TypeOK'
  BY DEF TypeOK
<1>2. \A b \in Allocs : Holds(b)' <=> Holds(b)
  BY DEF Holds, TypeOK
<1>3. \A b \in Allocs : Holds(b) => Draws(b)' = Draws(b)
  BY DEF Holds, Draws, TypeOK
<1>4. PortsInRange' /\ SocketsHeld'
  BY <1>2, <1>3 DEF PortsInRange, SocketsHeld
<1>5. RelayedSomewhere'
  BY DEF RelayedSomewhere, TypeOK
<1>6. QED
  BY <1>1, <1>4, <1>5

LEMMA DrawIInv ==
  ASSUME IInv, NEW a \in Allocs, Draw(a)
  PROVE  IInv'
<1>1. PICK drawn \in 0 .. Size(range.min, range.max) - 1 :
        \/ Listen(a, Port(range.min, drawn))
        \/ /\ tries' = [tries EXCEPT ![a] = @ + 1]
           /\ UNCHANGED <<range, pc, wanted, port, relayed, sockets, others, handedBack>>
  BY DEF Draw, MayDraw
<1>2. Port(range.min, drawn) \in range.min .. range.max
  <2>1. /\ range.min \in Ports /\ range.max \in Ports
        /\ UseRange(range.min, range.max) /\ Accepted(range.min, range.max)
    BY DEF Draw, MayDraw, Draws, IInv, TypeOK
  <2>2. Port(range.min, drawn) \in Drawn(range.min, range.max)
    BY DEF Drawn
  <2>3. QED
    BY <2>1, <2>2, RangeIsDrawn
<1>3. Port(range.min, drawn) \in Ports
  BY <1>2, WidthAssumption DEF IInv, TypeOK, Ports
<1>4. CASE Listen(a, Port(range.min, drawn))
  BY <1>2, <1>3, <1>4, ListenIInv DEF Draw, MayDraw
<1>5. CASE /\ tries' = [tries EXCEPT ![a] = @ + 1]
           /\ UNCHANGED <<range, pc, wanted, port, relayed, sockets, others, handedBack>>
  <2>1. tries' \in [Allocs -> 0 .. Tries]
    BY <1>5, RelayAssumption DEF Draw, MayDraw, IInv, TypeOK
  <2>2. \A b \in Allocs : Holds(b)' <=> Holds(b)
    BY <1>5 DEF Holds
  <2>3. RelayedSomewhere'
    BY <1>5 DEF RelayedSomewhere, IInv
  <2>4. QED
    BY <1>5, <2>1, <2>2, <2>3, QuietIInv DEF IInv, TypeOK
<1>6. QED
  BY <1>1, <1>4, <1>5

LEMMA ServeIInv ==
  ASSUME IInv, NEW a \in Allocs, NEW answer \in Answers, ServeWith(a, answer)
  PROVE  IInv'
<1>1. PICK family \in Families :
        relayed' = [relayed EXCEPT ![a] = RelayAddress(family, answer)]
  BY DEF ServeWith
<1>2. RelayAddress(family, answer) \in Families
  BY AddressChosen
<1>3. pc' \in [Allocs -> {"idle", "opening", "open", "served"}]
      /\ relayed' \in [Allocs -> Addresses]
  BY <1>1, <1>2 DEF ServeWith, IInv, TypeOK, Addresses
<1>4. \A b \in Allocs : Holds(b)' <=> Holds(b)
  BY DEF ServeWith, Holds, IInv, TypeOK
<1>5. RelayedSomewhere'
  BY <1>1, <1>2 DEF ServeWith, RelayedSomewhere, IInv, TypeOK, Families
<1>6. QED
  BY <1>3, <1>4, <1>5, QuietIInv DEF ServeWith, IInv, TypeOK

\* One case per action of Relay
LEMMA NextIInv == IInv /\ [Next]_vars => IInv'
<1> SUFFICES ASSUME IInv, [Next]_vars PROVE IInv'
  OBVIOUS
<1>1. ASSUME NEW a \in Allocs, NEW requested \in Requested \cup {0}, Allocate(a, requested)
      PROVE  IInv'
  BY <1>1, AllocateIInv, RelayAssumption, WidthAssumption DEF Ports
<1>2. ASSUME NEW a \in Allocs, OpenPort(a) PROVE IInv'
  BY <1>2, ListenIInv DEF OpenPort
<1>3. ASSUME NEW a \in Allocs, OpenFails(a) PROVE IInv'
  BY <1>3, OverIInv DEF OpenFails, Holds
<1>4. ASSUME NEW a \in Allocs, Draw(a) PROVE IInv'
  BY <1>4, DrawIInv
<1>5. ASSUME NEW a \in Allocs, DrawFails(a) PROVE IInv'
  BY <1>5, OverIInv DEF DrawFails, Holds
<1>6. ASSUME NEW a \in Allocs, Serve(a) PROVE IInv'
  BY <1>6, ServeIInv DEF Serve
<1>7. ASSUME NEW a \in Allocs, LookupFails(a) PROVE IInv'
  BY <1>7, OverIInv DEF LookupFails, Holds
<1>8. ASSUME NEW a \in Allocs, Release(a) PROVE IInv'
  BY <1>8, OverIInv DEF Release, Holds
<1>9. ASSUME NEW p \in OtherPorts, OpenOther(p) \/ CloseOther(p) PROVE IInv'
  <2>1. others' \subseteq Ports
    BY <1>9, RelayAssumption DEF OpenOther, CloseOther, IInv, TypeOK
  <2>2. UNCHANGED <<range, pc, wanted, tries, port, relayed, sockets, handedBack>>
    BY <1>9 DEF OpenOther, CloseOther
  <2>3. QED
    BY <2>1, <2>2, QuietIInv DEF IInv, TypeOK, Holds, RelayedSomewhere
<1>10. CASE UNCHANGED vars
  BY <1>10 DEF vars, IInv, TypeOK, PortsInRange, SocketsHeld, RelayedSomewhere, Holds, Draws
<1>11. QED
  BY <1>1, <1>2, <1>3, <1>4, <1>5, <1>6, <1>7, <1>8, <1>9, <1>10 DEF Next, Progress

LEMMA IInvHolds == Spec => []IInv
BY InitIInv, NextIInv, PTL DEF Spec

\* The variables keep their types: in particular the range in use stays one
\* that the configuration accepted.
THEOREM RelayTypes == Spec => []TypeOK
<1>1. IInv => TypeOK
  BY DEF IInv
<1>2. QED
  BY <1>1, IInvHolds, PTL

\* Allocations that leave the choice get a port of the configured range, for
\* every range that is accepted and every width of a port number.
THEOREM RangeIsKept == Spec => []PortsInRange
<1>1. IInv => PortsInRange
  BY DEF IInv
<1>2. QED
  BY <1>1, IInvHolds, PTL

\* Each open socket is held by one allocation or was handed back with an error.
THEOREM SocketsAreHeld == Spec => []SocketsHeld
<1>1. IInv => SocketsHeld
  BY DEF IInv
<1>2. QED
  BY <1>1, IInvHolds, PTL

\* No client is told to relay through no address.
THEOREM AddressIsKnown == Spec => []RelayedSomewhere
<1>1. IInv => RelayedSomewhere
  BY DEF IInv
<1>2. QED
  BY <1>1, IInvHolds, PTL

-----------------------------------------------------------------------------
(* The answers of the cache. *)

IP == [family : {"v4", "v6"}, host : STRING \ {"nil"}]

LEMMA LeastOf ==
  ASSUME NEW S \in SUBSET Nat, S # {}
  PROVE  \E k \in S : \A j \in S : k <= j
<1> DEFINE Below == {0 .. k : k \in S}
<1>1. \A k \in S : IsFiniteSet(0 .. k)
  BY FS_Interval
<1>2. Below \subseteq FiniteSubsetsOf(Nat) /\ Below # {}
  <2>1. \A k \in S : 0 .. k \in SUBSET Nat
    OBVIOUS
  <2>2. \A k \in S : 0 .. k \in FiniteSubsetsOf(Nat)
    BY <1>1, <2>1 DEF FiniteSubsetsOf
  <2>3. QED
    BY <2>2
<1>3. PICK B \in Below : \A C \in Below : <<C, B>> \notin StrictSubsetOrdering(Nat)
  <2> HIDE DEF Below
  <2> QED
    BY <1>2, FS_StrictSubsetOrderingWellFounded, WFMin
<1>4. PICK k \in S : B = 0 .. k
  BY <1>3
<1>5. ASSUME NEW j \in S PROVE k <= j
  <2>1. SUFFICES ASSUME j < k PROVE FALSE
    OBVIOUS
  <2>2. 0 .. j \subseteq 0 .. k /\ 0 .. j # 0 .. k /\ 0 .. k \subseteq Nat
    BY <2>1
  <2>3. <<0 .. j, 0 .. k>> \in StrictSubsetOrdering(Nat)
    BY <2>2 DEF StrictSubsetOrdering
  <2>4. QED
    BY <1>3, <1>4, <2>3
<1>6. QED
  BY <1>5

LEMMA FirstIsKnown ==
  ASSUME NEW ips \in Seq(IP), NEW family \in {"v4", "v6"},
         \E i \in DOMAIN ips : ips[i].family = family
  PROVE  Provider!FirstOf(ips, family) # Provider!Nil
<1> DEFINE of == {i \in DOMAIN ips : ips[i].family = family}
<1>1. of # {} /\ of \in SUBSET Nat
  OBVIOUS
<1>2. of \subseteq DOMAIN ips
  OBVIOUS
<1>3. \A i \in DOMAIN ips : ips[i].host # "nil"
  <2>1. \A i \in DOMAIN ips : ips[i] \in IP
    BY LenProperties, ElementOfSeq
  <2>2. QED
    BY <2>1 DEF IP
<1> HIDE DEF of
<1>4. \E k \in of : \A j \in of : k <= j
  BY <1>1, LeastOf
<1>5. (CHOOSE k \in of : \A j \in of : k <= j) \in of
  BY <1>4
<1>6. ips[CHOOSE k \in of : \A j \in of : k <= j].host # "nil"
  BY <1>2, <1>3, <1>5
<1>7. QED
  BY <1>1, <1>6 DEF of, Provider!FirstOf, Provider!Nil

Whole(c) == c.failed \/ c.v4 # Provider!Nil \/ c.v6 # Provider!Nil

\* A lookup without error has found an address: lookup makes an error of an
\* answer that has none (dns.go:58).
LEMMA LookupIsWhole ==
  ASSUME NEW response \in Responses
  PROVE  Whole(Provider!Lookup(response))
<1>1. CASE response = Failure \/ response = <<>>
  BY <1>1 DEF Whole, Provider!Lookup, Provider!Cached
<1>2. CASE ~(response = Failure \/ response = <<>>)
  <2>1. response \in Seq(IP)
    BY <1>2, ProviderAssumption DEF IP
  <2>2. 1 \in DOMAIN response /\ response[1].family \in {"v4", "v6"}
    <3>1. 1 \in DOMAIN response
      BY <1>2, <2>1, LenProperties, EmptySeq
    <3>2. response[1] \in IP
      BY <2>1, <3>1, LenProperties, ElementOfSeq
    <3>3. QED
      BY <3>1, <3>2 DEF IP
  <2>3. \/ Provider!FirstOf(response, "v4") # Provider!Nil
        \/ Provider!FirstOf(response, "v6") # Provider!Nil
    BY <2>1, <2>2, FirstIsKnown
  <2>4. QED
    BY <1>2, <2>3 DEF Whole, Provider!Lookup, Provider!Cached
<1>3. QED
  BY <1>1, <1>2

\* Whoever answers does so from a cache that was filled.
DNSInv ==
  /\ clock \in Nat /\ records \in Responses
  /\ asking \in [Allocs -> {"idle", "waiting", "checking", "looking", "answering"}]
  /\ Whole(cache) \/ refetch = Provider!Never
  /\ \A a \in Allocs : asking[a] = "answering" => Whole(cache)

LEMMA InitDNSInv == RelayingInit => DNSInv
BY DEF RelayingInit, Provider!Init, DNSInv

LEMMA NextDNSInv == DNSInv /\ [RelayingNext]_<<vars, dns>> => DNSInv'
<1> SUFFICES ASSUME DNSInv, [RelayingNext]_<<vars, dns>> PROVE DNSInv'
  OBVIOUS
<1>1. ASSUME NEW a \in Allocs, Provider!Call(a) \/ Provider!Lock(a) \/ Provider!Refetch(a)
                               \/ Provider!Return(a)
      PROVE  DNSInv'
  BY <1>1 DEF DNSInv, Provider!Call, Provider!Lock, Provider!Refetch, Provider!Return,
              Provider!At, Whole
<1>2. ASSUME NEW a \in Allocs, Provider!UseCache(a) PROVE DNSInv'
  <2>1. refetch # Provider!Never
    BY <1>2, ProviderAssumption DEF Provider!UseCache, Provider!Never, DNSInv
  <2>2. QED
    BY <1>2, <2>1 DEF DNSInv, Provider!UseCache, Provider!At, Whole
<1>3. ASSUME NEW a \in Allocs, Provider!Resolved(a) PROVE DNSInv'
  <2>1. Whole(cache')
    BY <1>3, LookupIsWhole DEF Provider!Resolved, DNSInv
  <2>2. QED
    BY <1>3, <2>1 DEF DNSInv, Provider!Resolved, Provider!At, Whole
<1>4. ASSUME NEW response \in Responses, Provider!Change(response) PROVE DNSInv'
  BY <1>4 DEF DNSInv, Provider!Change, Whole
<1>5. ASSUME Provider!Tick PROVE DNSInv'
  BY <1>5 DEF DNSInv, Provider!Tick, Whole
<1>6. CASE UNCHANGED dns
  BY <1>6 DEF dns, DNSInv, Whole
<1>7. QED
  BY <1>1, <1>2, <1>3, <1>4, <1>5, <1>6 DEF RelayingNext, Ask, Get, Answered

\* An answer without an error is one of those that module Relay expects.
LEMMA AnswerIsExpected ==
  ASSUME Whole(cache), ~cache.failed
  PROVE  Answer \in Answers
BY DEF Whole, Answer, Answers, Provider!Nil

LEMMA StepIsRelays == DNSInv /\ [RelayingNext]_<<vars, dns>> => [Next]_vars
<1> SUFFICES ASSUME DNSInv, [RelayingNext]_<<vars, dns>> PROVE [Next]_vars
  OBVIOUS
<1>1. ASSUME NEW a \in Allocs, Answered(a) PROVE Next
  <2>1. CASE cache.failed
    BY <1>1, <2>1 DEF Answered, Next, Progress
  <2>2. CASE ~cache.failed
    <3>1. Answer \in Answers
      BY <1>1, <2>2, AnswerIsExpected DEF Answered, Provider!Return, Provider!At, DNSInv
    <3>2. QED
      BY <1>1, <2>2, <3>1 DEF Answered, Serve, Next, Progress
  <2>3. QED
    BY <2>1, <2>2
<1>2. ASSUME NEW a \in Allocs, Ask(a) \/ Get(a) PROVE UNCHANGED vars
  BY <1>2 DEF Ask, Get
<1>3. QED
  BY <1>1, <1>2 DEF RelayingNext, Next, Progress

\* With this provider the allocations behave as module Relay says.
THEOREM RelayImplemented == RelayingSpec => Spec
<1>1. RelayingInit => Init
  BY DEF RelayingInit
<1>2. QED
  BY <1>1, InitDNSInv, NextDNSInv, StepIsRelays, PTL DEF RelayingSpec, Spec

-----------------------------------------------------------------------------
(* The age of the cache. *)

\* One caller at a time is past the mutex, and one that looks up has found the
\* cache old.  The cache has what the resolver said when it was filled, unless
\* the resolver has changed since.
AgeInv ==
  /\ clock \in Nat
  /\ changed \in Nat /\ changed <= clock
  /\ asking \in [Allocs -> {"idle", "waiting", "checking", "looking", "answering"}]
  /\ \A a \in Allocs :
       /\ asking[a] \in {"checking", "looking", "answering"} => holder = a
       /\ asking[a] = "looking" => refetch < clock
  /\ \/ fetched = Provider!Never /\ refetch = Provider!Never
     \/ /\ fetched \in Nat /\ fetched <= clock
        /\ refetch = fetched + Provider!Period(cache.failed)
        /\ cache = Provider!Lookup(records) \/ changed >= fetched

LEMMA PeriodIs ==
  /\ \A failed : Provider!Period(failed) \in {Second, Minute}
  /\ Second \in Nat /\ Minute \in Nat /\ Second <= Minute
  /\ Provider!Never = -1 - Minute
BY ProviderAssumption DEF Provider!Period, Provider!Never

LEMMA InitAge == RelayingInit => AgeInv
BY DEF RelayingInit, Provider!Init, AgeInv

LEMMA NextAge == AgeInv /\ [RelayingNext]_<<vars, dns>> => AgeInv'
<1> SUFFICES ASSUME AgeInv, [RelayingNext]_<<vars, dns>> PROVE AgeInv'
  OBVIOUS
<1>1. ASSUME NEW a \in Allocs, Provider!Call(a) PROVE AgeInv'
  BY <1>1 DEF AgeInv, Provider!Call, Provider!At
<1>2. ASSUME NEW a \in Allocs, Provider!Lock(a) PROVE AgeInv'
  BY <1>2, ProviderAssumption DEF AgeInv, Provider!Lock, Provider!At, Provider!Nobody
<1>3. ASSUME NEW a \in Allocs, Provider!UseCache(a) \/ Provider!Refetch(a) PROVE AgeInv'
  BY <1>3 DEF AgeInv, Provider!UseCache, Provider!Refetch, Provider!At
<1>4. ASSUME NEW a \in Allocs, Provider!Return(a) PROVE AgeInv'
  BY <1>4 DEF AgeInv, Provider!Return, Provider!At
<1>5. ASSUME NEW a \in Allocs, Provider!Resolved(a) PROVE AgeInv'
  BY <1>5 DEF AgeInv, Provider!Resolved, Provider!At
<1>6. ASSUME NEW response \in Responses, Provider!Change(response) PROVE AgeInv'
  BY <1>6 DEF AgeInv, Provider!Change
<1>7. ASSUME Provider!Tick PROVE AgeInv'
  BY <1>7, PeriodIs DEF AgeInv, Provider!Tick
<1>8. CASE UNCHANGED dns
  BY <1>8 DEF dns, AgeInv
<1>9. QED
  BY <1>1, <1>2, <1>3, <1>4, <1>5, <1>6, <1>7, <1>8 DEF RelayingNext, Ask, Get, Answered

\* A lookup comes more than a second after the last one: whoever looks up has
\* found the cache old, and nobody has filled it meanwhile.
LEMMA LookupsApart ==
  ASSUME AgeInv, NEW a \in Allocs, Provider!Resolved(a)
  PROVE  fetched' - fetched > Second
<1>1. asking[a] = "looking" /\ fetched' = clock /\ refetch < clock
  BY DEF Provider!Resolved, Provider!At, AgeInv
<1>2. CASE fetched = Provider!Never
  BY <1>1, <1>2, PeriodIs DEF AgeInv
<1>3. CASE fetched \in Nat /\ refetch = fetched + Provider!Period(cache.failed)
  BY <1>1, <1>3, PeriodIs DEF AgeInv
<1>4. QED
  BY <1>2, <1>3 DEF AgeInv

\* Whoever finds the cache young enough answers what the resolver says or said
\* until a short while ago.
LEMMA CacheIsYoung ==
  ASSUME AgeInv, NEW a \in Allocs, Provider!UseCache(a)
  PROVE  \/ cache = Provider!Lookup(records)
         \/ clock - changed <= Minute /\ ~cache.failed
         \/ clock - changed <= Second
<1>1. ~(refetch < clock)
  BY DEF Provider!UseCache
<1>2. fetched # Provider!Never \/ refetch # Provider!Never
  BY <1>1, PeriodIs DEF AgeInv
<1>3. SUFFICES ASSUME cache # Provider!Lookup(records)
               PROVE  \/ clock - changed <= Minute /\ ~cache.failed
                      \/ clock - changed <= Second
  OBVIOUS
<1>4. /\ fetched \in Nat /\ changed >= fetched
      /\ refetch = fetched + Provider!Period(cache.failed)
  BY <1>2, <1>3 DEF AgeInv
<1>5. clock - changed <= Provider!Period(cache.failed)
  BY <1>1, <1>4, PeriodIs DEF AgeInv
<1>6. QED
  BY <1>5 DEF Provider!Period

\* No answer is older than a minute, no error older than a second, and lookups
\* are more than a second apart, however many allocations ask.
THEOREM CacheIsInTime == RelayingSpec => Provider!CacheInTime
<1> DEFINE InTime ==
      /\ fetched' # fetched => fetched' - fetched > Second
      /\ \A c \in Allocs :
           asking[c] = "checking" /\ asking'[c] = "answering" =>
             \/ cache = Provider!Lookup(records)
             \/ clock - changed <= Minute /\ ~cache.failed
             \/ clock - changed <= Second
<1>1. AgeInv /\ [RelayingNext]_<<vars, dns>> => [InTime]_(Provider!vars)
  <2> SUFFICES ASSUME AgeInv, RelayingNext, ~UNCHANGED dns PROVE InTime
    BY DEF dns, Provider!vars
  <2>1. ASSUME fetched' # fetched PROVE fetched' - fetched > Second
    <3>1. \E a \in Allocs : Provider!Resolved(a)
      BY <2>1 DEF RelayingNext, Ask, Get, Answered, dns, Provider!Call, Provider!Lock,
                  Provider!UseCache, Provider!Refetch, Provider!Return, Provider!Change,
                  Provider!Tick
    <3>2. QED
      BY <3>1, LookupsApart
  <2>2. ASSUME NEW c \in Allocs, asking[c] = "checking", asking'[c] = "answering"
        PROVE  Provider!UseCache(c)
    <3>1. asking' # asking
      BY <2>2
    <3>2. PICK a \in Allocs : \/ Provider!Call(a) \/ Provider!Lock(a) \/ Provider!UseCache(a)
                              \/ Provider!Refetch(a) \/ Provider!Resolved(a) \/ Provider!Return(a)
      BY <3>1 DEF RelayingNext, Ask, Get, Answered, dns, Provider!Change, Provider!Tick
    <3>3. PICK to : asking' = [asking EXCEPT ![a] = to]
      BY <3>2 DEF Provider!Call, Provider!Lock, Provider!UseCache, Provider!Refetch,
                  Provider!Resolved, Provider!Return, Provider!At
    <3>4. a = c
      BY <2>2, <3>3 DEF AgeInv
    <3>5. QED
      BY <2>2, <3>2, <3>4 DEF AgeInv, Provider!Call, Provider!Lock, Provider!Refetch,
                              Provider!Resolved, Provider!Return, Provider!At
  <2>3. QED
    BY <2>1, <2>2, CacheIsYoung
<1>2. QED
  BY <1>1, InitAge, NextAge, PTL DEF RelayingSpec, Provider!CacheInTime

=============================================================================
