-------------------------------- MODULE Browser --------------------------------
(***************************************************************************)
(* Two browsers in one room (ui/src/useRoom.ts): one presents and stops,   *)
(* again and again, the other watches.  The server between them opens and  *)
(* closes their sessions and relays their descriptions, as in module       *)
(* Rooms.  Each handler of a message runs to its first await in one step.  *)
(* ICE candidates go the way of the descriptions and are left out.         *)
(***************************************************************************)
EXTENDS FiniteSets, Naturals, SequencesExt

CONSTANT MaxShares   \* bound: how often is shared

Sessions == 1 .. MaxShares

ASSUME SharesAssumption == MaxShares \in Nat

VARIABLES
  stream,    \* the presenter's stream.current
  opened,    \* how many sessions the server has opened
  open,      \* those that are not closed
  toServer, toHost, toClient,  \* what the websockets hold
  hostPeer, clientPeer,        \* the state of the two peer connections of a session
  host, client,                \* host.current and client.current: where they are found
  tiles,     \* the sessions whose picture the viewer has: clientStreams
  ended,     \* the sessions for which the viewer has handled endshare
  failed     \* history: those whose connection has failed without a close

vars == <<stream, opened, open, toServer, toHost, toClient, hostPeer, clientPeer, host, client, tiles, ended, failed>>
server == <<opened, open>>
sockets == <<toServer, toHost, toClient>>
presenter == <<stream, hostPeer, host>>
viewer == <<clientPeer, client, tiles, ended>>

Message(type, sid) == [type |-> type, sid |-> sid]
Init ==
  /\ stream = FALSE /\ opened = 0 /\ open = {}
  /\ toServer = <<>> /\ toHost = <<>> /\ toClient = <<>>
  /\ hostPeer = [s \in Sessions |-> "none"] /\ clientPeer = [s \in Sessions |-> "none"]
  /\ host = {} /\ client = {} /\ tiles = {} /\ ended = {} /\ failed = {}

-----------------------------------------------------------------------------
\* The presenter

\* share, once the user has chosen what to share
Share ==
  /\ ~stream
  /\ Cardinality({i \in DOMAIN toServer : toServer[i].type = "share"}) + opened < MaxShares
  /\ stream' = TRUE
  /\ toServer' = Append(toServer, Message("share", 0))
  /\ UNCHANGED <<server, toHost, toClient, hostPeer, host, viewer, failed>>

\* Peers that are filed are closed; a local close raises no event.
StopShare ==
  /\ stream
  /\ stream' = FALSE
  /\ hostPeer' = [s \in Sessions |-> IF s \in host THEN "closed" ELSE hostPeer[s]]
  /\ host' = {}
  /\ toServer' = Append(toServer, Message("stopshare", 0))
  /\ UNCHANGED <<server, toHost, toClient, viewer, failed>>

NextIs(queue, type) == queue # <<>> /\ Head(queue).type = type

\* hostSession, up to the awaits of the offer; none for a stream that has ended
HostSession ==
  /\ NextIs(toHost, "hostsession")
  /\ toHost' = Tail(toHost)
  /\ hostPeer' = IF stream THEN [hostPeer EXCEPT ![Head(toHost).sid] = "offering"] ELSE hostPeer
  /\ UNCHANGED <<server, toServer, toClient, stream, host, viewer, failed>>

\* Mutant of Offer: another await comes between the offer and its filing.
OfferUnfiled(s) ==
  /\ \/ hostPeer[s] = "offering" /\ toServer' = Append(toServer, Message("offer", s))
        /\ hostPeer' = [hostPeer EXCEPT ![s] = "answering"] /\ UNCHANGED host
     \/ hostPeer[s] = "answering" /\ UNCHANGED toServer
        /\ hostPeer' = [hostPeer EXCEPT ![s] = "new"] /\ host' = host \cup {s}
  /\ UNCHANGED <<server, toHost, toClient, stream, viewer, failed>>

\* The offer is sent and, before anything else happens, its peer filed.
Offer(s) ==
  /\ hostPeer[s] = "offering"
  /\ hostPeer' = [hostPeer EXCEPT ![s] = "new"]
  /\ host' = host \cup {s}
  /\ toServer' = Append(toServer, Message("offer", s))
  /\ UNCHANGED <<server, toHost, toClient, stream, viewer, failed>>

\* A blank answer, or one for a peer that is not filed, is of no effect.
ClientAnswer ==
  /\ NextIs(toHost, "answer") \/ NextIs(toHost, "blank")
  /\ toHost' = Tail(toHost)
  /\ LET s == Head(toHost).sid
     IN hostPeer' = IF Head(toHost).type = "answer" /\ s \in host /\ hostPeer[s] = "new"
                      THEN [hostPeer EXCEPT ![s] = "answered"] ELSE hostPeer
  /\ UNCHANGED <<server, toServer, toClient, stream, host, viewer, failed>>

-----------------------------------------------------------------------------
\* The viewer

\* clientSession awaits nothing: it files the peer at once.
ClientSession ==
  /\ NextIs(toClient, "clientsession")
  /\ toClient' = Tail(toClient)
  /\ clientPeer' = [clientPeer EXCEPT ![Head(toClient).sid] = "new"]
  /\ client' = client \cup {Head(toClient).sid}
  /\ UNCHANGED <<server, toServer, toHost, presenter, tiles, ended, failed>>

\* setRemoteDescription brings the track, and with it the picture; a session that
\* is not known gets an answer without a description.
HostOffer ==
  /\ NextIs(toClient, "offer")
  /\ toClient' = Tail(toClient)
  /\ LET s == Head(toClient).sid
     IN IF s \in client
          THEN /\ clientPeer' = [clientPeer EXCEPT ![s] = "answering"]
               /\ tiles' = tiles \cup {s}
               /\ UNCHANGED toServer
          ELSE /\ toServer' = Append(toServer, Message("blank", s))
               /\ UNCHANGED <<clientPeer, tiles>>
  /\ UNCHANGED <<server, toHost, presenter, client, ended, failed>>

Answer(s) ==
  /\ clientPeer[s] = "answering"
  /\ clientPeer' = [clientPeer EXCEPT ![s] = "answered"]
  /\ toServer' = Append(toServer, Message("answer", s))
  /\ UNCHANGED <<server, toHost, toClient, presenter, client, tiles, ended, failed>>

\* An EndShare is encoded as an array of numbers, the type having lost the
\* methods of xid.ID (ws/outgoing/messages.go); that finds no session.
Payload(sid) == 0

\* endshare: whatever the payload names is closed and taken from the screen.
EndShare ==
  /\ NextIs(toClient, "endshare")
  /\ toClient' = Tail(toClient)
  /\ LET s == Payload(Head(toClient).sid)
     IN /\ clientPeer' = IF s \in client THEN [clientPeer EXCEPT ![s] = "closed"] ELSE clientPeer
        /\ tiles' = tiles \ {s}
  /\ ended' = ended \cup {Head(toClient).sid}
  /\ UNCHANGED <<server, toServer, toHost, presenter, client, failed>>

-----------------------------------------------------------------------------
\* The two peers of a session find each other.
Connect(s) ==
  /\ hostPeer[s] = "answered" /\ clientPeer[s] = "answered"
  /\ hostPeer' = [hostPeer EXCEPT ![s] = "connected"]
  /\ clientPeer' = [clientPeer EXCEPT ![s] = "connected"]
  /\ UNCHANGED <<server, sockets, stream, host, client, tiles, ended, failed>>

\* An end that has both descriptions becomes "disconnected" or "failed": the
\* other end is closed, or the connection fails.
Breaks(s, peer, other) ==
  /\ peer[s] \in {"answered", "connected"}
  /\ failed' = IF other[s] = "closed" THEN failed ELSE failed \cup {s}

\* hostSession's onconnectionstatechange
HostDone(s) ==
  /\ Breaks(s, hostPeer, clientPeer)
  /\ hostPeer' = [hostPeer EXCEPT ![s] = "closed"]
  /\ host' = host \ {s}
  /\ UNCHANGED <<server, sockets, stream, viewer>>

\* Mutant of ClientDone: the picture stays.
ClientDoneStays(s) ==
  /\ Breaks(s, clientPeer, hostPeer)
  /\ clientPeer' = [clientPeer EXCEPT ![s] = "closed"]
  /\ client' = client \ {s}
  /\ UNCHANGED <<server, sockets, presenter, tiles, ended>>

\* clientSession's
ClientDone(s) ==
  /\ Breaks(s, clientPeer, hostPeer)
  /\ clientPeer' = [clientPeer EXCEPT ![s] = "closed"]
  /\ client' = client \ {s}
  /\ tiles' = tiles \ {s}
  /\ UNCHANGED <<server, sockets, presenter, ended>>

-----------------------------------------------------------------------------
\* The server

Serve ==
  /\ toServer # <<>>
  /\ toServer' = Tail(toServer)
  /\ LET m == Head(toServer)
     IN CASE m.type = "share" ->
               /\ opened' = opened + 1
               /\ open' = open \cup {opened'}
               /\ toHost' = Append(toHost, Message("hostsession", opened'))
               /\ toClient' = Append(toClient, Message("clientsession", opened'))
          [] m.type = "stopshare" ->
               /\ toClient' = toClient \o SetToSeq({Message("endshare", s) : s \in open})
               /\ open' = {}
               /\ UNCHANGED <<opened, toHost>>
          [] m.type = "offer" ->
               /\ toClient' = IF m.sid \in open THEN Append(toClient, m) ELSE toClient
               /\ UNCHANGED <<opened, open, toHost>>
          [] m.type \in {"answer", "blank"} ->
               /\ toHost' = IF m.sid \in open THEN Append(toHost, m) ELSE toHost
               /\ UNCHANGED <<opened, open, toClient>>
  /\ UNCHANGED <<presenter, viewer, failed>>

Progress ==
  \/ HostSession \/ ClientAnswer \/ ClientSession \/ HostOffer \/ EndShare \/ Serve
  \/ \E s \in Sessions :
       \/ Offer(s) \/ Answer(s) \/ Connect(s)
       \/ clientPeer[s] = "closed" /\ HostDone(s)
       \/ hostPeer[s] = "closed" /\ ClientDone(s)

Next ==
  \/ Share \/ StopShare \/ Progress
  \/ \E s \in Sessions : HostDone(s) \/ ClientDone(s)

\* Messages arrive, promises settle, peers connect unless they fail, and a peer
\* whose other end is closed notices that.  Nothing need fail.
Spec == Init /\ [][Next]_vars /\ WF_vars(Progress)

-----------------------------------------------------------------------------
\* Who goes on presenting is seen in the end, whatever is left of earlier
\* presentations, unless the connection of a session that is open has failed:
\* nothing renews it.
PresenterIsSeen ==
  <>[]stream =>
    <>[](\E s \in open : (s \in tiles /\ hostPeer[s] = "connected") \/ s \in failed)

\* The picture of a session that is over or whose connection has failed at one
\* end goes away, also without endshare.
PicturesEnd ==
  \A s \in Sessions : s \in tiles /\ (s \notin open \/ s \in failed) ~> s \notin tiles

\* message.ts:85 gives the payload of an endshare as a text, the session's:
\* "EndShare = Typed<string, 'endshare'>".
EndShareNamesSession == ended \cap tiles = {}
=============================================================================
