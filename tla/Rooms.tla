------------------------------- MODULE Rooms -------------------------------
(***************************************************************************)
(* The event loop of the signalling server (ws/rooms.go, ws/event_*.go).   *)
(* One goroutine takes a message at a time from the channel Incoming, so   *)
(* every handler is one step.  The messages it sends to the browsers are   *)
(* modelled by what they leave the browsers knowing; the channel and the   *)
(* goroutines of one connection are the subject of module Connections.     *)
(***************************************************************************)
EXTENDS Room, Integers

CONSTANTS
  LoggedIn,     \* the connections whose upgrade request carried a login
  RoomIDs,      \* the room names that requests carry
  NoRoom,       \* the zero value "" of connected: in no room
  AuthMode,     \* SCREEGO_AUTH_MODE
  CreateModes   \* bound: the connection modes that create requests carry

ASSUME ConfigAssumption ==
  /\ IsFiniteSet(Clients) /\ IsFiniteSet(SessionIDs)
  /\ LoggedIn \subseteq Clients
  /\ CreateModes \subseteq ConnectionModes
  /\ AuthMode \in {"none", "all", "turn"}

VARIABLES
  connected,   \* Rooms.connected: the room of each registered connection
  rooms,       \* Rooms.Rooms
  lookup,      \* the user names the TURN server accepts
  gauge,       \* the six counters of prometheus.go: started minus ended
  link,        \* the life of each connection
  view,        \* the last room message each reachable browser got
  announced,   \* the sessions each reachable browser was told of, and not of their end
  relayed      \* what the last step passed from one browser to another

vars == <<connected, rooms, lookup, gauge, link, view, announced, relayed>>

-----------------------------------------------------------------------------
\* A link is "new" until the loop takes Connected, "open" while the browser
\* gets what is written, "broken" from an error on until the Disconnected it
\* causes, and "closed" once the loop has sent CloseWriter.
LinkStates == {"new", "open", "broken", "closed"}

Gauges == [users : Int, rooms : Int, sessions : Int]

Count(users, nrooms, sessions) ==
  [users |-> users, rooms |-> nrooms, sessions |-> sessions]

Message == [from : Clients, to : Clients, sid : SessionIDs]

TypeOK ==
  /\ IsMap(connected, Clients, RoomIDs \cup {NoRoom})
  /\ DOMAIN rooms \subseteq RoomIDs
  /\ \A id \in DOMAIN rooms : RoomOK(rooms[id])
  /\ lookup \subseteq SessionIDs \X {"host", "client"}
  /\ gauge \in Gauges
  /\ link \in [Clients -> LinkStates]
  /\ DOMAIN view \subseteq Clients
  /\ announced \in [Clients -> SUBSET SessionIDs]
  /\ relayed \subseteq Message

Init ==
  /\ connected = EmptyMap
  /\ rooms = EmptyMap
  /\ lookup = {}
  /\ gauge = Count(0, 0, 0)
  /\ link = [c \in Clients |-> "new"]
  /\ view = EmptyMap
  /\ announced = [c \in Clients |-> {}]
  /\ relayed = {}

-----------------------------------------------------------------------------
\* rooms.connected[id], with the zero value of the map for a missing key
Current(c) == IF c \in DOMAIN connected THEN connected[c] ELSE NoRoom

\* Mutant of Receive: the check of the registration is missing.
ReceiveAll(c) == link[c] # "new"

\* The loop ignores what an unregistered connection sends.
Receive(c) == c \in DOMAIN connected

\* CurrentRoom returns no error
InRoom(c) == Receive(c) /\ Current(c) # NoRoom /\ Current(c) \in DOMAIN rooms

Reachable(room) == {c \in Members(room) : link[c] = "open"}

\* notifyInfoChanged: every member of the room is shown its users.
Shown(before, id, room) ==
  [c \in DOMAIN before \cup Reachable(room) |->
     IF c \in Reachable(room) THEN Info(id, room) ELSE before[c]]

\* The host and the client of each new session are told its xid ...
Announce(new) ==
  announced' = [c \in Clients |->
     IF link[c] = "open" THEN announced[c] \cup {s \in DOMAIN new : c \in Ends(new[s])}
                         ELSE announced[c]]

\* Mutant of EndShares: a host is not told that its viewer has left.
EndSharesToClients(room, ids, gone) ==
  announced' = [c \in Clients |->
     IF c \in gone THEN {} ELSE announced[c] \ {s \in ids : c = room.sessions[s].client}]

\* ... and an endshare is written for each session of ids to its ends, but to
\* those that are gone and to the host that asked for its end.
EndShares(room, ids, gone) ==
  announced' = [c \in Clients |->
     IF c \in gone THEN {} ELSE announced[c] \ {s \in ids : c \in Ends(room.sessions[s])}]

\* Mutant of Disallow: only the host's credentials are taken back.
DisallowHost(room, ids) ==
  lookup' = lookup \ {name \in Credentials(room, ids) : name[2] = "host"}

\* closeSession has the TURN server forget the users of the sessions ids.
Disallow(room, ids) == lookup' = lookup \ Credentials(room, ids)

\* An xid is never issued twice.  One that nothing mentions any more may stand
\* for a new one, which bounds the sessions at a time and not those in a run.
FreeIDs ==
  SessionIDs \ (UNION {DOMAIN rooms[id].sessions : id \in DOMAIN rooms}
                \cup UNION {announced[c] : c \in Clients}
                \cup {name[1] : name \in lookup})

\* newSession for each pair of ends, while users are in the rooms: it needs
\* enough xids in the bound SessionIDs.
OpenAll(id, room, pairs, users) ==
  \E new \in NewSessions(FreeIDs, pairs) :
    /\ rooms' = Put(rooms, id, OpenSessions(room, new))
    /\ lookup' = lookup \cup Credentials(room, DOMAIN new)
    /\ Announce(new)
    /\ gauge' = Count(users, gauge.rooms, gauge.sessions + Cardinality(DOMAIN new))

-----------------------------------------------------------------------------
\* The connections of gone leave the map and are sent CloseWriter.
Cut(gone) ==
  /\ connected' = Without(connected, gone)
  /\ link' = [c \in Clients |-> IF c \in gone THEN "closed" ELSE link[c]]

\* Mutant of Left: who was let in by a handler that fails is not counted.
LeftUncounted(id, rms, users, shown) ==
  [id |-> id, rooms |-> rms, users |-> gauge.users, view |-> shown]

\* What a handler that fails has changed by then: the room the connection is
\* registered in, the rooms, the number of users, and what browsers were shown.
Left(id, rms, users, shown) == [id |-> id, rooms |-> rms, users |-> users, view |-> shown]

\* Mutant of Unchanged: the room of the connection is not looked up.
UnchangedNowhere(c) == Left(NoRoom, rooms, gauge.users, view)

Unchanged(c) == Left(Current(c), rooms, gauge.users, view)

\* executeNoError finds c among the users of the room it is registered in.
HasRoom(c, s) ==
  s.id # NoRoom /\ s.id \in DOMAIN s.rooms /\ c \in Members(s.rooms[s.id])

DisconnectOnly(c, s) ==
  /\ ~HasRoom(c, s)
  /\ Cut({c})
  /\ rooms' = s.rooms
  /\ gauge' = Count(s.users, gauge.rooms, gauge.sessions)
  /\ view' = Without(s.view, {c})
  /\ announced' = [announced EXCEPT ![c] = {}]
  /\ UNCHANGED lookup

\* Mutant of EndsWith: an empty room is kept.
EndsWithOwner(room, c) == room.users[c].owner /\ room.closeOnOwnerLeave

\* The room ends with c, because c owns it or because nobody else is in it.
EndsWith(room, c) ==
  \/ room.users[c].owner /\ room.closeOnOwnerLeave
  \/ Members(room) = {c}

\* Closing a room takes everybody in it off the map, whoever leaves first.
Evicted(room, c) == Members(room) \cup {c}

DisconnectAndLeave(c, s) ==
  /\ HasRoom(c, s)
  /\ LET room  == s.rooms[s.id]
         ended == SessionsOf(room, c)
         rest  == WithoutUser(CloseSessions(room, ended), c)
     IN /\ ~EndsWith(room, c)
        /\ Cut({c})
        /\ rooms' = Put(s.rooms, s.id, rest)
        /\ Disallow(room, ended)
        /\ gauge' = Count(s.users - 1, gauge.rooms, gauge.sessions - Cardinality(ended))
        /\ view' = Without(Shown(s.view, s.id, rest), {c})
        /\ EndShares(room, ended, {c})

\* closeRoom, counting everybody of gone as having left.
CloseRoom(s, gone) ==
  LET room == s.rooms[s.id]
      ids  == DOMAIN room.sessions
  IN /\ rooms' = Without(s.rooms, {s.id})
     /\ Disallow(room, ids)
     /\ gauge' = Count(s.users - Cardinality(gone), gauge.rooms - 1,
                       gauge.sessions - Cardinality(ids))

DisconnectAndCloseRoom(c, s) ==
  /\ HasRoom(c, s)
  /\ LET room == s.rooms[s.id]
         gone == Evicted(room, c)
     IN /\ EndsWith(room, c)
        /\ Cut(gone)
        /\ CloseRoom(s, gone)
        /\ view' = Without(s.view, gone)
        /\ EndShares(room, DOMAIN room.sessions, gone)

\* executeNoError, on what a failed handler left
Disconnect(c, s) ==
  /\ relayed' = {}
  /\ \/ DisconnectOnly(c, s)
     \/ DisconnectAndLeave(c, s)
     \/ DisconnectAndCloseRoom(c, s)

-----------------------------------------------------------------------------
Connected(c) ==
  /\ link[c] = "new"
  /\ connected' = Put(connected, c, NoRoom)
  /\ link' = [link EXCEPT ![c] = "open"]
  /\ relayed' = {}
  /\ UNCHANGED <<rooms, lookup, gauge, view, announced>>

\* Writing to c or reading from it fails.
Break(c) ==
  /\ link[c] = "open"
  /\ link' = [link EXCEPT ![c] = "broken"]
  /\ view' = Without(view, {c})
  /\ announced' = [announced EXCEPT ![c] = {}]
  /\ relayed' = {}
  /\ UNCHANGED <<connected, rooms, lookup, gauge>>

\* Mutant of Disconnected: like the other messages it fails outside a room.
DisconnectedFromRoom(c) == InRoom(c) /\ Disconnect(c, Unchanged(c))

\* The browser closed the connection, or it broke.
Disconnected(c) == Receive(c) /\ Disconnect(c, Unchanged(c))

MayCreate(c, mode) ==
  \/ AuthMode = "none"
  \/ AuthMode = "all"  /\ c \in LoggedIn
  \/ AuthMode = "turn" /\ (mode \in {"stun", "local"} \/ c \in LoggedIn)

CreateRoom(c, id, mode, closeOnOwnerLeave, name) ==
  /\ Receive(c)
  /\ Current(c) = NoRoom
  /\ id \notin DOMAIN rooms
  /\ MayCreate(c, mode)
  /\ LET room == NewRoom(mode, closeOnOwnerLeave, c, name)
     IN /\ rooms' = Put(rooms, id, room)
        /\ view' = Shown(view, id, room)
  /\ connected' = Put(connected, c, id)
  /\ gauge' = Count(gauge.users + 1, gauge.rooms + 1, gauge.sessions)
  /\ relayed' = {}
  /\ UNCHANGED <<lookup, link, announced>>

CreateRefused(c, id, mode) ==
  /\ Receive(c)
  /\ Current(c) # NoRoom \/ id \in DOMAIN rooms \/ ~MayCreate(c, mode)
  /\ Disconnect(c, Unchanged(c))

JoinRoom(c, id, name) ==
  /\ Receive(c)
  /\ Current(c) = NoRoom
  /\ id \in DOMAIN rooms
  /\ LET room == WithUser(rooms[id], c, name)
     IN /\ connected' = Put(connected, c, id)
        /\ view' = Shown(view, id, room)
        /\ OpenAll(id, room, [host : Presenters(room), client : {c}], gauge.users + 1)
  /\ relayed' = {}
  /\ UNCHANGED link

JoinRefused(c, id) ==
  /\ Receive(c)
  /\ Current(c) # NoRoom \/ id \notin DOMAIN rooms
  /\ Disconnect(c, Unchanged(c))

\* The lookup of the server's own address fails, after c was let in.
JoinFails(c, id, name) ==
  /\ Receive(c)
  /\ Current(c) = NoRoom
  /\ id \in DOMAIN rooms
  /\ LET room == WithUser(rooms[id], c, name)
     IN Disconnect(c, Left(id, Put(rooms, id, room), gauge.users + 1,
                           Shown(view, id, room)))

Join(c, id, name) == JoinRoom(c, id, name) \/ JoinRefused(c, id) \/ JoinFails(c, id, name)

\* An existing room is joined instead when the request says joinIfExist.
Create(c, id, mode, closeOnOwnerLeave, name) ==
  \/ CreateRoom(c, id, mode, closeOnOwnerLeave, name)
  \/ CreateRefused(c, id, mode)
  \/ Current(c) = NoRoom /\ id \in DOMAIN rooms /\ Join(c, id, name)

\* Mutant of Name: nobody is told of the new name.
NameSilently(c, name) ==
  /\ InRoom(c)
  /\ rooms' = Put(rooms, connected[c], Rename(rooms[connected[c]], c, name))
  /\ relayed' = {}
  /\ UNCHANGED <<connected, lookup, gauge, link, view, announced>>

Name(c, name) ==
  /\ InRoom(c)
  /\ LET room == Rename(rooms[connected[c]], c, name)
     IN /\ rooms' = Put(rooms, connected[c], room)
        /\ view' = Shown(view, connected[c], room)
  /\ relayed' = {}
  /\ UNCHANGED <<connected, lookup, gauge, link, announced>>

\* Sharing again while presenting opens a second session with every viewer.
StartShare(c) ==
  /\ InRoom(c)
  /\ LET id   == connected[c]
         room == SetStreaming(rooms[id], c, TRUE)
     IN /\ OpenAll(id, room, [host : {c}, client : Members(room) \ {c}], gauge.users)
        /\ view' = Shown(view, id, room)
  /\ relayed' = {}
  /\ UNCHANGED <<connected, link>>

ShareFails(c) ==
  /\ InRoom(c)
  /\ LET id == connected[c]
     IN Disconnect(c, Left(id, Put(rooms, id, SetStreaming(rooms[id], c, TRUE)),
                           gauge.users, view))

\* The viewers are told; the host need not be, who asked for it.
StopShare(c) ==
  /\ InRoom(c)
  /\ LET id    == connected[c]
         ended == HostedBy(rooms[id], c)
         room  == CloseSessions(SetStreaming(rooms[id], c, FALSE), ended)
     IN /\ rooms' = Put(rooms, id, room)
        /\ Disallow(room, ended)
        /\ gauge' = Count(gauge.users, gauge.rooms, gauge.sessions - Cardinality(ended))
        /\ EndShares(rooms[id], ended, {})
        /\ view' = Shown(view, id, room)
  /\ relayed' = {}
  /\ UNCHANGED <<connected, link>>

Session(c, sid) == rooms[connected[c]].sessions[sid]

\* Mutant of RelayFromHost: that the sender is the host is not checked.
RelayFromAnyone(c, sid) ==
  /\ InRoom(c)
  /\ sid \in DOMAIN rooms[connected[c]].sessions
  /\ relayed' = {[from |-> c, to |-> Session(c, sid).client, sid |-> sid]}
  /\ UNCHANGED <<connected, rooms, lookup, gauge, link, view, announced>>

\* hostoffer and hostice go to the client of a session its host names ...
RelayFromHost(c, sid) ==
  /\ InRoom(c)
  /\ sid \in DOMAIN rooms[connected[c]].sessions
  /\ Session(c, sid).host = c
  /\ relayed' = {[from |-> c, to |-> Session(c, sid).client, sid |-> sid]}
  /\ UNCHANGED <<connected, rooms, lookup, gauge, link, view, announced>>

\* ... clientanswer and clientice to the host of one its client names.
RelayFromClient(c, sid) ==
  /\ InRoom(c)
  /\ sid \in DOMAIN rooms[connected[c]].sessions
  /\ Session(c, sid).client = c
  /\ relayed' = {[from |-> c, to |-> Session(c, sid).host, sid |-> sid]}
  /\ UNCHANGED <<connected, rooms, lookup, gauge, link, view, announced>>

\* A message for a session of the room whose end the sender is not.
RelayDenied(c, sid) ==
  /\ InRoom(c)
  /\ sid \in DOMAIN rooms[connected[c]].sessions
  /\ Session(c, sid).host # c \/ Session(c, sid).client # c
  /\ Disconnect(c, Unchanged(c))

\* The session is over, or was never in this room.
RelayUnknown(c, sid) ==
  /\ InRoom(c)
  /\ sid \notin DOMAIN rooms[connected[c]].sessions
  /\ relayed' = {}
  /\ UNCHANGED <<connected, rooms, lookup, gauge, link, view, announced>>

\* Name, share, stopshare and the relayed messages fail outside a room.
NotInRoom(c) == Receive(c) /\ ~InRoom(c) /\ Disconnect(c, Unchanged(c))

\* Messages still on their way when their sender was cut off
Ignore(c) ==
  /\ link[c] # "new"
  /\ ~Receive(c)
  /\ relayed' = {}
  /\ UNCHANGED <<connected, rooms, lookup, gauge, link, view, announced>>

Handle(c) ==
  \/ Connected(c)
  \/ Disconnected(c)
  \/ \E id \in RoomIDs, mode \in CreateModes, closeOnOwnerLeave \in BOOLEAN, name \in Names :
       Create(c, id, mode, closeOnOwnerLeave, name)
  \/ \E id \in RoomIDs, name \in Names : Join(c, id, name)
  \/ \E name \in Names : Name(c, name)
  \/ StartShare(c)
  \/ ShareFails(c)
  \/ StopShare(c)
  \/ \E sid \in SessionIDs :
       RelayFromHost(c, sid) \/ RelayFromClient(c, sid)
         \/ RelayDenied(c, sid) \/ RelayUnknown(c, sid)
  \/ NotInRoom(c)
  \/ Ignore(c)

Next == \E c \in Clients : Handle(c) \/ Break(c)

Spec == Init /\ [][Next]_vars

\* The goroutine that CloseOnError starts delivers Disconnected, for the loop
\* never stops receiving.
Fairness == \A c \in Clients : WF_vars(link[c] = "broken" /\ Disconnected(c))

FairSpec == Spec /\ Fairness

-----------------------------------------------------------------------------
\* The loop knows a connection exactly as long as it has neither missed it nor
\* sent it CloseWriter: no message still under way brings it back (rooms.go:100).
Registered ==
  \A c \in Clients : c \in DOMAIN connected <=> link[c] \in {"open", "broken"}

\* The two indexes of who is where, connected and the users of each room,
\* agree after every handler, the failing ones included.
Placement ==
  \A c \in Clients, id \in DOMAIN rooms :
    c \in Members(rooms[id]) <=> Receive(c) /\ connected[c] = id

\* Nobody is registered in a room that is gone.
RoomsExist ==
  \A c \in DOMAIN connected : connected[c] # NoRoom => connected[c] \in DOMAIN rooms

\* A connection is a user of one room at most ("cannot join room, you are
\* already in one", event_create.go:27 and event_join.go:20).
OneRoomPerClient ==
  \A id1, id2 \in DOMAIN rooms :
    Members(rooms[id1]) \cap Members(rooms[id2]) # {} => id1 = id2

\* A room is closed with its last member, and one that is to close with its
\* owner still has the owner in it.
RoomsAttended ==
  \A id \in DOMAIN rooms :
    /\ Members(rooms[id]) # {}
    /\ rooms[id].closeOnOwnerLeave =>
         \E c \in Members(rooms[id]) : rooms[id].users[c].owner

\* The ends of every session are two members of its room and its host is
\* presenting.  The relay handlers look the other end up without a check, so a
\* session that outlived a member would crash the server.
SessionEnds ==
  \A id \in DOMAIN rooms : \A s \in DOMAIN rooms[id].sessions :
    LET session == rooms[id].sessions[s]
    IN /\ session.host # session.client
       /\ session.host \in Presenters(rooms[id])
       /\ session.client \in Members(rooms[id])

\* Whoever presents has a session with everybody else in the room, in whatever
\* order they joined, presented, failed and left.
StreamsReachEveryone ==
  \A id \in DOMAIN rooms :
    \A p \in Presenters(rooms[id]) : \A c \in Members(rooms[id]) \ {p} :
      \E s \in DOMAIN rooms[id].sessions :
        rooms[id].sessions[s] = [host |-> p, client |-> c]

\* The TURN server accepts the credentials of the sessions of TURN rooms, and
\* none of a session that has ended.
CredentialsOfSessions ==
  lookup = UNION {Credentials(rooms[id], DOMAIN rooms[id].sessions) : id \in DOMAIN rooms}

\* What the counters say of the present is so: a join, a leave, a session or a
\* room is counted once, on failing and on closing handlers too.
GaugesMatch ==
  /\ gauge.rooms = Cardinality(DOMAIN rooms)
  /\ gauge.users = Cardinality(UNION {{id} \X Members(rooms[id]) : id \in DOMAIN rooms})
  /\ gauge.sessions = Cardinality(UNION {DOMAIN rooms[id].sessions : id \in DOMAIN rooms})

\* A browser that can be reached shows the users of its room as they are.
ViewsCurrent ==
  \A id \in DOMAIN rooms : \A c \in Reachable(rooms[id]) :
    c \in DOMAIN view /\ view[c] = Info(id, rooms[id])

\* Each end of a session has been sent its hostsession or clientsession, and
\* whoever is still there when one ends an endshare for it, unless it ended the
\* session itself: a statement of the messages written (room.go:66,
\* event_disconnected.go:45, event_stop_share.go:25) to those that get them, and
\* not of what a browser makes of an endshare, for which see module Browser.
EndsTold ==
  \A c \in Clients : link[c] = "open" =>
    announced[c] = UNION {SessionsOf(rooms[id], c) : id \in DOMAIN rooms}

\* What a browser sends under a session arrives at the other end of that
\* session, which is in the same room and has been told of the session.
RelayedToOtherEnd ==
  \A m \in relayed :
    /\ m.from # m.to
    /\ m.sid \in announced[m.to] \/ link[m.to] # "open"
    /\ \E id \in DOMAIN rooms :
         /\ m.sid \in DOMAIN rooms[id].sessions
         /\ Ends(rooms[id].sessions[m.sid]) = {m.from, m.to}
         /\ {m.from, m.to} \subseteq Members(rooms[id])

\* screego.config.example:82-83 says of SCREEGO_AUTH_MODE "all: User login is
\* always required", "turn: User login is required for TURN connections": nobody is
\* in a room without a login, and credentials that the TURN server accepts are
\* given to connections with a login only.
LoginRequired ==
  \A id \in DOMAIN rooms :
    /\ AuthMode = "all" => Members(rooms[id]) \subseteq LoggedIn
    /\ AuthMode = "turn" =>
         \A s \in DOMAIN rooms[id].sessions :
           lookup \cap Credentials(rooms[id], {s}) # {} =>
             Ends(rooms[id].sessions[s]) \subseteq LoggedIn

\* A presenter's sessions end only with the presentation or with an end's
\* membership: no other member's step takes a viewer's picture away.
SessionsLast ==
  [][\A id \in DOMAIN rooms : \A s \in DOMAIN rooms[id].sessions :
       LET session == rooms[id].sessions[s]
       IN \/ id \in DOMAIN rooms' /\ s \in DOMAIN rooms'[id].sessions
          \/ link'[session.host] = "closed" \/ link'[session.client] = "closed"
          \/ id \in DOMAIN rooms' /\ session.host \notin Presenters(rooms'[id])]_vars

\* The event loop keeps the promise of ScreenShare to the users of its rooms.
AudienceOf(id) == IF id \in DOMAIN rooms THEN Members(rooms[id]) ELSE {}

Meeting == INSTANCE ScreenShare WITH
  audience   <- [id \in RoomIDs |-> AudienceOf(id)],
  presenting <- UNION {Presenters(rooms[id]) : id \in DOMAIN rooms},
  watching   <- UNION {{<<s.host, s.client>> : s \in Range(rooms[id].sessions)} :
                         id \in DOMAIN rooms},
  gone       <- {c \in Clients : link[c] = "closed"}

MeetingSpec == Meeting!Spec

\* A connection that broke is taken out of everything in the end.
BrokenLeave ==
  \A c \in Clients :
    link[c] = "broken" ~>
      /\ c \notin DOMAIN connected
      /\ \A id \in DOMAIN rooms : c \notin Members(rooms[id])
=============================================================================
