-------------------------------- MODULE Room --------------------------------
(***************************************************************************)
(* The value of one meeting room (ws/room.go): who is in it, who presents, *)
(* and the sessions, each a peer-to-peer connection from a presenting host *)
(* to one viewing client.  The operators return the room a method leaves.  *)
(***************************************************************************)
EXTENDS GoMap

CONSTANTS
  Clients,     \* websocket connections, each with an xid of its own
  Names,       \* display names
  SessionIDs   \* session xids

-----------------------------------------------------------------------------
\* "unknown" stands for every other string a create message can carry: the
\* mode is never validated, and newSession offers no ICE server for it.
ConnectionModes == {"local", "stun", "turn", "unknown"}

User == [name : Names, streaming : BOOLEAN, owner : BOOLEAN]

RoomSession == [host : Clients, client : Clients]

RoomOK(room) ==
  /\ DOMAIN room = {"mode", "closeOnOwnerLeave", "users", "sessions"}
  /\ room.mode \in ConnectionModes
  /\ room.closeOnOwnerLeave \in BOOLEAN
  /\ IsMap(room.users, Clients, User)
  /\ IsMap(room.sessions, SessionIDs, RoomSession)

-----------------------------------------------------------------------------
Members(room) == DOMAIN room.users

Presenters(room) == {c \in Members(room) : room.users[c].streaming}

Ends(session) == {session.host, session.client}

\* Mutant of HostedBy: the sessions that c views are taken for its own.
HostedOrViewed(room, c) == {s \in DOMAIN room.sessions : c \in Ends(room.sessions[s])}

HostedBy(room, c) == {s \in DOMAIN room.sessions : room.sessions[s].host = c}

\* Mutant of SessionsOf: the viewer's end of a session is not looked at.
SessionsOfHost(room, c) == HostedBy(room, c)

SessionsOf(room, c) == {s \in DOMAIN room.sessions : c \in Ends(room.sessions[s])}

\* What a newly created room holds: its creator, who owns it.
NewRoom(mode, closeOnOwnerLeave, creator, name) ==
  [mode              |-> mode,
   closeOnOwnerLeave |-> closeOnOwnerLeave,
   users             |-> Put(EmptyMap, creator,
                             [name |-> name, streaming |-> FALSE, owner |-> TRUE]),
   sessions          |-> EmptyMap]

WithUser(room, c, name) ==
  [room EXCEPT !.users =
     Put(room.users, c, [name |-> name, streaming |-> FALSE, owner |-> FALSE])]

WithoutUser(room, c) == [room EXCEPT !.users = Without(room.users, {c})]

\* Mutant of SetStreaming: the flag is never reset.
StreamingForGood(room, c, on) ==
  [room EXCEPT !.users[c].streaming = room.users[c].streaming \/ on]

SetStreaming(room, c, on) == [room EXCEPT !.users[c].streaming = on]

Rename(room, c, name) == [room EXCEPT !.users[c].name = name]

\* Mutant of OpenSessions: the map of sessions is made anew.
OpenSessionsAfresh(room, new) == [room EXCEPT !.sessions = new]

OpenSessions(room, new) == [room EXCEPT !.sessions = PutAll(room.sessions, new)]

CloseSessions(room, ids) == [room EXCEPT !.sessions = Without(room.sessions, ids)]

\* Mutant of Credentials: the name of the viewer is made with another suffix.
CredentialsMisspelt(room, ids) ==
  IF room.mode = "turn" THEN ids \X {"host", "viewer"} ELSE {}

\* The TURN user names the sessions ids of the room are entitled to.
Credentials(room, ids) ==
  IF room.mode = "turn" THEN ids \X {"host", "client"} ELSE {}

\* The sessions newSession may create for the pairs of ends asked for: one for
\* each, under xids taken from free.
NewSessions(free, pairs) ==
  UNION {Bijection(ids, pairs) : ids \in {D \in SUBSET free : Cardinality(D) = Cardinality(pairs)}}

\* The payload of the outgoing room message, without the "you" mark and the
\* order of the list, which are presentation.
Info(id, room) == [id |-> id, users |-> room.users]
=============================================================================
