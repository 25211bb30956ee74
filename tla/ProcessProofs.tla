---------------------------- MODULE ProcessProofs ----------------------------
(***************************************************************************)
(* The safety properties of the serve command, for every setting, any      *)
(* width of a port number and any number of requests.                      *)
(***************************************************************************)
EXTENDS Process, TLAPS

-----------------------------------------------------------------------------
(* The HTTP server. *)

Goroutines == {"start", "serve", "stop"}

HttpTypes ==
  /\ pc \in [start : {"starting", "receiving", "done"},
             serve : {"listening", "listens", "serving", "sending", "done"},
             stop : {"unstarted", "waiting", "interrupted", "closing", "sending", "done"}]
  /\ returned \in [start : ServeErrors \cup ShutdownErrors \cup {NoError},
                   serve : ServeErrors \cup {Closed, NoError},
                   stop : ShutdownErrors \cup {NoError}]
  /\ signalled \in BOOLEAN /\ interrupt \in BOOLEAN /\ closing \in BOOLEAN

\* The server closes for an interrupt only.
ClosedForInterrupt ==
  /\ interrupt \/ pc.stop = "interrupted" \/ closing => signalled
  /\ returned.serve = Closed => closing

\* Who sends has an error to send.
SendersFailed ==
  /\ pc.serve = "sending" => returned.serve # NoError
  /\ pc.stop = "sending" => returned.stop # NoError

\* Start has what one of them has sent, which nobody changes any more.
Received ==
  pc.start = "done" =>
    \/ pc.serve = "done" /\ returned.start = Http!Result(returned.serve) /\ returned.serve # NoError
    \/ pc.stop = "done" /\ returned.start = returned.stop /\ returned.stop # NoError

HttpInv == HttpTypes /\ ClosedForInterrupt /\ SendersFailed /\ Received

LEMMA InitHttp == Http!Init => HttpInv
  <1> SUFFICES ASSUME Http!Init PROVE HttpInv
    OBVIOUS
  <1>1. /\ pc = [start |-> "starting", serve |-> "listening", stop |-> "unstarted"]
        /\ returned = [start |-> NoError, serve |-> NoError, stop |-> NoError]
        /\ signalled = FALSE /\ interrupt = FALSE /\ closing = FALSE
    BY DEF Http!Init
  <1>2. HttpTypes
    BY <1>1 DEF HttpTypes
  <1>3. ClosedForInterrupt
    BY <1>1, ErrorsAssumption DEF ClosedForInterrupt
  <1> QED
    BY <1>1, <1>2, <1>3 DEF HttpInv, SendersFailed, Received

LEMMA HttpResult == HttpInv => ResultTrue
  BY ErrorsAssumption
  DEF HttpInv, HttpTypes, ClosedForInterrupt, Received, Http!Result, ResultTrue, Http!ResultTrue

LEMMA NotifyHttp == ASSUME HttpInv, Http!Notify PROVE HttpInv'
  BY DEF Http!Notify, HttpInv, HttpTypes, ClosedForInterrupt, SendersFailed,
      Received

LEMMA SignalHttp == ASSUME HttpInv, Http!Signal PROVE HttpInv'
  BY DEF Http!Signal, HttpInv, HttpTypes, ClosedForInterrupt, SendersFailed,
      Received

LEMMA ListenHttp == ASSUME HttpInv, Http!Listen PROVE HttpInv'
  BY ErrorsAssumption
  DEF Http!Listen, Http!At, Http!Return, HttpInv, HttpTypes, ClosedForInterrupt, SendersFailed,
      Received

LEMMA ServeHttp == ASSUME HttpInv, Http!Serve PROVE HttpInv'
  BY ErrorsAssumption
  DEF Http!Serve, Http!At, Http!Return, HttpInv, HttpTypes, ClosedForInterrupt, SendersFailed,
      Received

LEMMA ServeReturnsHttp == ASSUME HttpInv, Http!ServeReturns PROVE HttpInv'
  BY ErrorsAssumption
  DEF Http!ServeReturns, Http!At, Http!Return, HttpInv, HttpTypes, ClosedForInterrupt, SendersFailed,
      Received

LEMMA TakeInterruptHttp == ASSUME HttpInv, Http!TakeInterrupt PROVE HttpInv'
  BY DEF Http!TakeInterrupt, Http!At, HttpInv, HttpTypes, ClosedForInterrupt, SendersFailed,
      Received

LEMMA ShutdownHttp == ASSUME HttpInv, Http!Shutdown PROVE HttpInv'
  BY DEF Http!Shutdown, Http!At, HttpInv, HttpTypes, ClosedForInterrupt, SendersFailed,
      Received

LEMMA ShutdownReturnsHttp == ASSUME HttpInv, Http!ShutdownReturns PROVE HttpInv'
  BY ErrorsAssumption
  DEF Http!ShutdownReturns, Http!At, Http!Return, HttpInv, HttpTypes, ClosedForInterrupt, SendersFailed,
      Received

\* One of the two that may be sending is received from.
LEMMA ReceiveHttp ==
  ASSUME HttpInv, NEW sender \in {"serve", "stop"}, Http!Receive(sender)
  PROVE  HttpInv'
  BY ErrorsAssumption
  DEF Http!Receive, Http!Result, Http!Return, HttpInv, HttpTypes, ClosedForInterrupt, SendersFailed, Received

\* Requests change nothing of it.
LEMMA OthersHttp ==
  ASSUME HttpInv, UNCHANGED <<pc, returned, signalled, interrupt, closing>>
  PROVE  HttpInv'
  BY DEF HttpInv, HttpTypes, ClosedForInterrupt, SendersFailed, Received

LEMMA NextHttp == HttpInv /\ [ProcessNext]_<<vars, http>> => HttpInv'
  <1> SUFFICES ASSUME HttpInv, [ProcessNext]_<<vars, http>> PROVE HttpInv'
    OBVIOUS
  <1>1. CASE UNCHANGED http
    BY <1>1, OthersHttp DEF http
  <1>2. CASE Progress
    BY <1>2, ServeHttp, ReceiveHttp, NotifyHttp, ListenHttp, TakeInterruptHttp, ShutdownHttp,
       ShutdownReturnsHttp, ServeReturnsHttp DEF Progress
  <1>3. ASSUME NEW r \in Requests, Http!Request(r) \/ Http!Answer(r) PROVE HttpInv'
    BY <1>3, OthersHttp DEF Http!Request, Http!Answer
  <1> QED
    BY <1>1, <1>2, <1>3, SignalHttp, ServeReturnsHttp DEF ProcessNext

THEOREM HttpInvariance == ProcessSpec => []HttpInv
  BY InitHttp, NextHttp, PTL DEF ProcessSpec, ProcessInit

\* The variables of the HTTP server keep their types.
THEOREM HttpTyped == ProcessSpec => []HttpTypes
  <1>1. HttpInv => HttpTypes
    BY DEF HttpInv
  <1> QED
    BY <1>1, HttpInvariance, PTL

\* As far as the HTTP server goes, the process behaves as module HttpServer says.
LEMMA HttpImplemented == ProcessSpec => Http!Spec
  <1>1. ProcessInit => Http!Init
    BY DEF ProcessInit
  <1>2. [ProcessNext]_<<vars, http>> => [Http!Next]_Http!vars
    BY DEF ProcessNext, Progress, http, Http!Next, Http!vars
  <1> QED
    BY <1>1, <1>2, PTL DEF ProcessSpec, Http!Spec

\* Start reports success only after an interrupt that closed the server, and
\* otherwise the error of what failed.
THEOREM ResultIsTrue == ProcessSpec => []ResultTrue
  BY HttpResult, HttpInvariance, PTL

-----------------------------------------------------------------------------
(* The startup. *)

StartupInv ==
  /\ settings \in Settings
  /\ stage \in {"config", "lookup", "users", "turn", "http", "serving", "exited"}
  /\ stage # "config" => provider = Provider(settings) /\ denied = DenyPeersParsed(settings)
  /\ stage \notin {"config", "exited"} => ~Fatal(settings)
  /\ stage \in {"http", "serving"} => {"loop"} \cup Listeners(settings) \subseteq running

LEMMA InitStartup == Init => StartupInv
  BY DEF Init, StartupInv

\* Exiting and going on with the next stage
LEMMA ExitStartup == ASSUME StartupInv, Exit, stage # "config" PROVE StartupInv'
  BY DEF StartupInv, Exit, To

LEMMA GetStartup == ASSUME StartupInv, Get PROVE StartupInv'
  BY DEF StartupInv, Get

LEMMA LookupStartup == ASSUME StartupInv, Lookup PROVE StartupInv'
  <1>1. stage = "lookup"
    BY DEF Lookup
  <1>2. CASE Exit
    BY <1>1, <1>2, ExitStartup
  <1>3. CASE To("users")
    BY <1>1, <1>3 DEF StartupInv, To
  <1> QED
    BY <1>2, <1>3 DEF Lookup

LEMMA ReadUsersStartup == ASSUME StartupInv, ReadUsers PROVE StartupInv'
  <1>1. stage = "users"
    BY DEF ReadUsers
  <1>2. CASE Exit
    BY <1>1, <1>2, ExitStartup
  <1>3. CASE To("turn")
    BY <1>1, <1>3 DEF StartupInv, To
  <1> QED
    BY <1>2, <1>3 DEF ReadUsers

LEMMA StartTurnStartup == ASSUME StartupInv, StartTurn PROVE StartupInv'
  <1>1. stage = "turn"
    BY DEF StartTurn
  <1>2. CASE Exit
    BY <1>1, <1>2, ExitStartup
  <1>3. CASE To("http") /\ running' = {"loop"} \cup Listeners(settings)
    BY <1>1, <1>3 DEF StartupInv, To
  <1> QED
    BY <1>2, <1>3 DEF StartTurn

LEMMA ServeStartup == ASSUME StartupInv, Serve PROVE StartupInv'
  BY DEF StartupInv, Serve, To

LEMMA ServeEndsStartup == ASSUME StartupInv, ServeEnds PROVE StartupInv'
  BY ExitStartup DEF ServeEnds

LEMMA NextStartup == StartupInv /\ [ProcessNext]_<<vars, http>> => StartupInv'
  <1> SUFFICES ASSUME StartupInv, [ProcessNext]_<<vars, http>> PROVE StartupInv'
    OBVIOUS
  <1>1. CASE UNCHANGED vars
    BY <1>1 DEF vars, StartupInv
  <1>2. CASE Progress
    BY <1>1, <1>2, ServeStartup, ServeEndsStartup DEF Progress
  <1> QED
    BY <1>1, <1>2, GetStartup, LookupStartup, ReadUsersStartup, StartTurnStartup DEF ProcessNext

THEOREM StartupInvariance == ProcessSpec => []StartupInv
  BY InitStartup, NextStartup, PTL DEF ProcessSpec, ProcessInit

-----------------------------------------------------------------------------
(* What config.Get makes of the addresses. *)

LEMMA IPsTyped == ASSUME NEW s \in Settings PROVE IPs(s) \in Seq(Entry)
  BY SettingsAssumption DEF IPs

\* The host of the only entry of its family
LEMMA HostOfOnly ==
  ASSUME NEW ips, NEW i \in DOMAIN ips, NEW family, ips[i].kind = family,
         \A j \in DOMAIN ips \ {i} : ips[j].kind # family
  PROVE  HostOf(family, ips) = ips[i].host
  <1>1. (CHOOSE j \in DOMAIN ips : ips[j].kind = family) = i
    OBVIOUS
  <1> QED
    BY <1>1 DEF HostOf

LEMMA ProviderIsRight ==
  ASSUME NEW ips \in Seq(Entry), ips # <<>>
  PROVE  /\ ParseIPProvider(ips) # NoProvider <=> Acceptable(ips)
         /\ ParseIPProvider(ips).type = "static" =>
              /\ ParseIPProvider(ips).v4 = HostOf("v4", ips)
              /\ ParseIPProvider(ips).v6 = HostOf("v6", ips)
  <1>1. /\ Len(ips) \in Nat /\ Len(ips) > 0 /\ DOMAIN ips = 1 .. Len(ips)
        /\ \A i \in DOMAIN ips : ips[i] \in Entry
    OBVIOUS
  <1>2. CASE ips[1].kind = "dns"
    <2>1. ~IsIP(ips[1])
      BY <1>2 DEF IsIP
    <2>2. Acceptable(ips) <=> Len(ips) = 1
      BY <1>1, <1>2, <2>1 DEF Acceptable
    <2> QED
      BY <1>1, <1>2, <2>2 DEF ParseIPProvider, NoProvider, Domain, Nil
  <1>3. CASE ips[1].kind # "dns"
    <2>1. ParseIPProvider(ips) = ParseStatic(ips)
      BY <1>3 DEF ParseIPProvider
    <2>2. CASE Len(ips) = 1 /\ IsIP(ips[1])
      <3>1. ParseStatic(ips) = Apply(Static(Nil, Nil), ips[1])
        BY <2>2 DEF ParseStatic
      <3>2. Acceptable(ips)
        BY <1>1, <2>2 DEF Acceptable
      <3>3. DOMAIN ips = {1}
        BY <1>1, <2>2
      <3>4. CASE ips[1].kind = "v4"
        <4>1. HostOf("v4", ips) = ips[1].host
          BY <3>3, <3>4, HostOfOnly
        <4>2. HostOf("v6", ips) = Nil
          BY <3>3, <3>4 DEF HostOf
        <4> QED
          BY <2>1, <3>1, <3>2, <3>4, <4>1, <4>2 DEF Apply, Static, NoProvider, Nil
      <3>5. CASE ips[1].kind = "v6"
        <4>1. HostOf("v6", ips) = ips[1].host
          BY <3>3, <3>5, HostOfOnly
        <4>2. HostOf("v4", ips) = Nil
          BY <3>3, <3>5 DEF HostOf
        <4> QED
          BY <2>1, <3>1, <3>2, <3>5, <4>1, <4>2 DEF Apply, Static, NoProvider, Nil
      <3> QED
        BY <2>2, <3>4, <3>5 DEF IsIP
    <2>3. CASE Len(ips) = 2 /\ IsIP(ips[1]) /\ IsIP(ips[2]) /\ ips[1].kind # ips[2].kind
      <3>1. ParseStatic(ips) = Apply(Apply(Static(Nil, Nil), ips[1]), ips[2])
        BY <2>3 DEF ParseStatic
      <3>2. DOMAIN ips = {1, 2}
        BY <1>1, <2>3
      <3>3. Acceptable(ips)
        BY <2>3, <3>2 DEF Acceptable
      <3>4. CASE ips[1].kind = "v4" /\ ips[2].kind = "v6"
        <4>1. HostOf("v4", ips) = ips[1].host /\ HostOf("v6", ips) = ips[2].host
          BY <3>2, <3>4, HostOfOnly
        <4> QED
          BY <2>1, <3>1, <3>3, <3>4, <4>1 DEF Apply, Static, NoProvider, Nil
      <3>5. CASE ips[1].kind = "v6" /\ ips[2].kind = "v4"
        <4>1. HostOf("v6", ips) = ips[1].host /\ HostOf("v4", ips) = ips[2].host
          BY <3>2, <3>5, HostOfOnly
        <4> QED
          BY <2>1, <3>1, <3>3, <3>5, <4>1 DEF Apply, Static, NoProvider, Nil
      <3> QED
        BY <2>3, <3>4, <3>5 DEF IsIP
    <2>4. CASE /\ ~(Len(ips) = 1 /\ IsIP(ips[1]))
               /\ ~(Len(ips) = 2 /\ IsIP(ips[1]) /\ IsIP(ips[2]) /\ ips[1].kind # ips[2].kind)
      <3>1. ParseStatic(ips) = NoProvider
        BY <2>4 DEF ParseStatic
      <3>2. ~Acceptable(ips)
        <4> SUFFICES ASSUME Acceptable(ips) PROVE FALSE
          OBVIOUS
        <4>1. \A i \in DOMAIN ips :
                IsIP(ips[i]) /\ \A j \in DOMAIN ips \ {i} : ips[i].kind # ips[j].kind
          BY <1>3 DEF Acceptable
        <4>2. CASE Len(ips) < 3
          BY <1>1, <2>4, <4>1, <4>2
        <4>3. CASE Len(ips) >= 3
          <5>1. 1 \in DOMAIN ips /\ 2 \in DOMAIN ips /\ 3 \in DOMAIN ips
            BY <1>1, <4>3
          <5> QED
            BY <4>1, <5>1 DEF IsIP
        <4> QED
          BY <1>1, <4>2, <4>3
      <3> QED
        BY <2>1, <3>1, <3>2 DEF NoProvider, Nil
    <2> QED
      BY <2>2, <2>3, <2>4
  <1> QED
    BY <1>2, <1>3

\* There is a provider exactly for one domain or for one address of each family
\* at most, and it has these addresses and no others.
THEOREM AddressesAreRight == ProcessSpec => []AddressesAsConfigured
  <1>1. StartupInv => AddressesAsConfigured
    <2> SUFFICES ASSUME StartupInv, stage # "config" PROVE AddressesAsConfigured
      BY DEF AddressesAsConfigured
    <2>1. provider = Provider(settings) /\ IPs(settings) \in Seq(Entry)
      BY IPsTyped DEF StartupInv
    <2>2. CASE IPs(settings) = <<>>
      <3>1. ~Acceptable(IPs(settings))
        BY <2>2 DEF Acceptable
      <3> QED
        BY <2>1, <2>2, <3>1 DEF AddressesAsConfigured, Provider, NoProvider, Nil
    <2>3. CASE IPs(settings) # <<>>
      <3>1. provider = ParseIPProvider(IPs(settings))
        BY <2>1, <2>3 DEF Provider
      <3> QED
        BY <2>1, <2>3, <3>1, ProviderIsRight DEF AddressesAsConfigured
    <2> QED
      BY <2>2, <2>3
  <1> QED
    BY <1>1, StartupInvariance, PTL

-----------------------------------------------------------------------------
(* What serves is whole. *)

\* A range in use that is accepted has a port to draw, also when max + 1 wraps.
LEMMA RangeHasPorts ==
  ASSUME NEW min \in Ports, NEW max \in Ports,
         UseRange(min, max), Accepted(min, max)
  PROVE  Drawn(min, max) # {}
  <1>1. 0 < min /\ min <= max /\ max < Width /\ Width \in Nat
    BY WidthAssumption DEF UseRange, Accepted, Ports
  <1>2. \A n \in Ports : Wrapped(n) = n
    BY WidthAssumption DEF Wrapped, Ports
  <1>3. Size(min, max) \in Nat /\ Size(min, max) > 0
    <2>1. CASE max + 1 < Width
      <3>1. Wrapped(max + 1) = max + 1
        BY <1>1, <1>2, <2>1 DEF Ports
      <3>2. Wrapped(max + 1 - min) = max + 1 - min
        BY <1>1, <1>2, <2>1 DEF Ports
      <3> QED
        BY <1>1, <3>1, <3>2 DEF Size, Ports
    <2>2. CASE max + 1 = Width
      <3>1. Wrapped(max + 1) = 0
        BY <1>1, <2>2, WidthAssumption DEF Wrapped
      <3>2. Wrapped(0 - min) = Width - min
        BY <1>1, WidthAssumption DEF Wrapped, Ports
      <3> QED
        BY <1>1, <3>1, <3>2 DEF Size, Ports
    <2> QED
      BY <1>1, <2>1, <2>2 DEF Ports
  <1>4. Port(min, 0) \in Drawn(min, max)
    BY <1>3 DEF Drawn
  <1> QED
    BY <1>4

\* Whatever the settings were, what serves has its event loop, its TURN server,
\* every peer to deny, and ports to draw from.
THEOREM ServesAreWhole == ProcessSpec => []ServesWhole
  <1>1. StartupInv => ServesWhole
    <2> SUFFICES ASSUME StartupInv, stage = "serving" PROVE ServesWhole
      BY DEF ServesWhole
    <2>1. /\ ~Fatal(settings) /\ denied = DenyPeersParsed(settings)
          /\ {"loop"} \cup Listeners(settings) \subseteq running
      BY DEF StartupInv
    <2>2. denied = settings.denyPeers
      BY <2>1 DEF Fatal, DenyPeersParsed
    <2>3. Range(settings)[1] \in Ports /\ Range(settings)[2] \in Ports
      BY <2>1, WidthAssumption DEF Fatal, Parses, Range, Ports
    <2>4. Accepted(Range(settings)[1], Range(settings)[2])
      BY <2>1 DEF Fatal
    <2> QED
      BY <2>1, <2>2, <2>3, <2>4, RangeHasPorts DEF ServesWhole
  <1> QED
    BY <1>1, StartupInvariance, PTL
=============================================================================
