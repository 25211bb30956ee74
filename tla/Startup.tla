------------------------------- MODULE Startup -------------------------------
(***************************************************************************)
(* From the settings to a server that serves: what config.Get makes of     *)
(* them and refuses (config/config.go, config/ip.go), and the steps of the *)
(* serve command, each of which may end the process (cmd/serve.go).        *)
(* Messages that are not fatal are left out.                               *)
(***************************************************************************)
EXTENDS PortRange, Sequences

CONSTANT Settings   \* bound: the settings to start with

\* An entry of SCREEGO_EXTERNAL_IP: an address of a family, "dns:" and a
\* domain, or what is neither (0.0.0.0 included).
Kinds == {"v4", "v6", "dns", "none"}
Entry == [kind : Kinds, host : STRING]

\* Lists are sets here where their order is of no effect: `broken` entries do
\* not parse.  `files`: every settings file that is there loads.  `other` stands
\* for the settings that envconfig itself parses, `secret` for one that is set.
\* A port range is "" or two numbers, or anything else.
ASSUME SettingsAssumption ==
  \A s \in Settings :
    /\ s.authMode \in {"turn", "all", "none", "unknown"}
    /\ {s.files, s.other, s.secret, s.serverTLS, s.cert, s.key, s.turnSecret} \subseteq BOOLEAN
    /\ {s.origins, s.denyPeers} \subseteq SUBSET {"good", "broken"}
    /\ s.externalIP \in Seq(Entry) /\ s.turnExternalIP \in Seq(Entry)
    /\ s.portRange \in Seq(Ports \cup {-1})

VARIABLES
  settings,  \* what the files and the environment say
  stage,     \* how far the serve command has got
  provider,  \* conf.TurnIPProvider
  denied,    \* conf.TurnDenyPeersParsed
  running    \* the TURN listeners, the event loop and the HTTP server

vars == <<settings, stage, provider, denied, running>>

-----------------------------------------------------------------------------
Nil == "nil"
Static(v4, v6) == [type |-> "static", v4 |-> v4, v6 |-> v6]
Domain(host) == [type |-> "dns", domain |-> host]
NoProvider == [type |-> Nil]

IsIP(entry) == entry.kind \in {"v4", "v6"}

\* applyIPTo
Apply(static, entry) ==
  IF entry.kind = "v4" THEN Static(entry.host, static.v6) ELSE Static(static.v4, entry.host)

\* Mutant of ParseStatic: two addresses may be of one family.
ParseStaticAny(ips) ==
  CASE Len(ips) = 1 /\ IsIP(ips[1]) -> Apply(Static(Nil, Nil), ips[1])
    [] Len(ips) = 2 /\ IsIP(ips[1]) /\ IsIP(ips[2]) ->
         Apply(Apply(Static(Nil, Nil), ips[1]), ips[2])
    [] OTHER -> NoProvider

\* parseStatic: every message it returns is fatal, and there is no provider.
ParseStatic(ips) ==
  CASE Len(ips) = 1 /\ IsIP(ips[1]) -> Apply(Static(Nil, Nil), ips[1])
    [] Len(ips) = 2 /\ IsIP(ips[1]) /\ IsIP(ips[2]) /\ ips[1].kind # ips[2].kind ->
         Apply(Apply(Static(Nil, Nil), ips[1]), ips[2])
    [] OTHER -> NoProvider

ParseIPProvider(ips) ==
  IF ips[1].kind # "dns" THEN ParseStatic(ips)
  ELSE IF Len(ips) > 1 THEN NoProvider ELSE Domain(ips[1].host)

TurnExternal(s) == s.turnExternalIP # <<>>

IPs(s) == IF TurnExternal(s) THEN s.turnExternalIP ELSE s.externalIP

Provider(s) == IF IPs(s) = <<>> THEN NoProvider ELSE ParseIPProvider(IPs(s))

\* parsePortRange: no setting is the range 0 to 0.
Parses(s) == s.portRange = <<>> \/ s.portRange \in Ports \X Ports
Range(s) == IF s.portRange = <<>> THEN <<0, 0>> ELSE s.portRange

DenyPeersParsed(s) == s.denyPeers \ {"broken"}

\* Mutant of Fatal: a peer that does not parse is no reason to stop.
FatalButPeers(s) ==
  \/ s.authMode = "unknown" \/ ~s.files \/ ~s.other
  \/ s.serverTLS /\ ~(s.cert /\ s.key)
  \/ "broken" \in s.origins
  \/ Provider(s) = NoProvider
  \/ TurnExternal(s) /\ (s.externalIP # <<>> \/ ~s.turnSecret)
  \/ ~Parses(s) \/ ~Accepted(Range(s)[1], Range(s)[2])

\* What config.Get says is fatal, a secret that cannot be drawn left to Get
Fatal(s) ==
  \/ s.authMode = "unknown" \/ ~s.files \/ ~s.other
  \/ s.serverTLS /\ ~(s.cert /\ s.key)
  \/ "broken" \in s.origins \cup s.denyPeers
  \/ Provider(s) = NoProvider
  \/ TurnExternal(s) /\ (s.externalIP # <<>> \/ ~s.turnSecret)
  \/ ~Parses(s) \/ ~Accepted(Range(s)[1], Range(s)[2])

-----------------------------------------------------------------------------
Init ==
  /\ settings \in Settings
  /\ stage = "config" /\ provider = NoProvider /\ denied = {}
  /\ running = {}

To(next) == stage' = next /\ UNCHANGED <<settings, provider, denied>>

\* os.Exit and log.Fatal: the process ends and its sockets with it.
Exit == To("exited") /\ running' = {}

\* Without a secret one is drawn, which may fail.
Get ==
  /\ stage = "config"
  /\ provider' = Provider(settings)
  /\ denied' = DenyPeersParsed(settings)
  /\ stage' \in IF Fatal(settings) THEN {"exited"}
               ELSE {"lookup"} \cup (IF settings.secret THEN {} ELSE {"exited"})
  /\ UNCHANGED <<settings, running>>

\* The first TurnIPProvider.Get; static addresses are always there.
Lookup ==
  /\ stage = "lookup"
  /\ (To("users") /\ UNCHANGED running) \/ (provider.type = "dns" /\ Exit)

\* auth.ReadPasswordsFile
ReadUsers == stage = "users" /\ ((To("turn") /\ UNCHANGED running) \/ Exit)

Listeners(s) == IF TurnExternal(s) THEN {} ELSE {"udp", "tcp"}

\* turn.Start, where each port may be taken, NewRooms and go rooms.Start
StartTurn ==
  /\ stage = "turn"
  /\ \/ To("http") /\ running' = {"loop"} \cup Listeners(settings)
     \/ ~TurnExternal(settings) /\ Exit

\* server.Start with the router serves (see HttpServer) ...
Serve ==
  /\ stage = "http"
  /\ To("serving")
  /\ running' = running \cup {"http"}

\* ... and returns.
ServeEnds == stage \in {"http", "serving"} /\ Exit

-----------------------------------------------------------------------------
Acceptable(ips) ==
  \/ Len(ips) = 1 /\ ips[1].kind = "dns"
  \/ /\ ips # <<>>
     /\ \A i \in DOMAIN ips :
          IsIP(ips[i]) /\ \A j \in DOMAIN ips \ {i} : ips[i].kind # ips[j].kind

HostOf(family, ips) ==
  IF \E i \in DOMAIN ips : ips[i].kind = family
    THEN ips[CHOOSE i \in DOMAIN ips : ips[i].kind = family].host ELSE Nil

\* There is a provider exactly for one domain or for one address of each family
\* at most, and it has these addresses and no others: the relay addresses and
\* the ICE servers that browsers get are made of them (turn/server.go:58,
\* room.go:69).
AddressesAsConfigured ==
  stage # "config" =>
    /\ provider # NoProvider <=> Acceptable(IPs(settings))
    /\ provider.type = "static" =>
         /\ provider.v4 = HostOf("v4", IPs(settings))
         /\ provider.v6 = HostOf("v6", IPs(settings))

\* What serves is whole: requests find the event loop and, unless it is
\* elsewhere, the TURN server on both ports; no peer that is to be denied was
\* dropped on the way (server.go:100), and a relay port range in use is one
\* that can be drawn from.
ServesWhole ==
  stage = "serving" =>
    /\ "loop" \in running
    /\ Listeners(settings) \subseteq running
    /\ denied = settings.denyPeers
    /\ UseRange(Range(settings)[1], Range(settings)[2]) =>
         Drawn(Range(settings)[1], Range(settings)[2]) # {}
=============================================================================
