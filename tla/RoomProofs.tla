----------------------------- MODULE RoomProofs -----------------------------
(***************************************************************************)
(* What the operations on one room preserve.  A room is Sound when it has  *)
(* its type, the ends of its sessions are a presenter and another member,  *)
(* and every presenter has a session with every other member.              *)
(***************************************************************************)
EXTENDS Room, TLAPS

EndsOK(room) ==
  \A s \in DOMAIN room.sessions :
    /\ room.sessions[s].host # room.sessions[s].client
    /\ room.sessions[s].host \in Presenters(room)
    /\ room.sessions[s].client \in Members(room)

Reached(room, p, c) ==
  \E s \in DOMAIN room.sessions : room.sessions[s] = [host |-> p, client |-> c]

\* A handler that fails leaves the sessions of one connection unfinished.
ReachOK(room, unfinished) ==
  \A p \in Presenters(room) \ unfinished : \A c \in Members(room) \ (unfinished \cup {p}) :
    Reached(room, p, c)

Sound(room) == RoomOK(room) /\ EndsOK(room) /\ ReachOK(room, {})

-----------------------------------------------------------------------------
\* The fields of a room that the operations leave alone, and those they set.
LEMMA RoomFields ==
  ASSUME NEW room, RoomOK(room), NEW users, NEW sessions
  PROVE  /\ [room EXCEPT !.users = users].users = users
         /\ [room EXCEPT !.users = users].sessions = room.sessions
         /\ [room EXCEPT !.users = users].mode = room.mode
         /\ [room EXCEPT !.users = users].closeOnOwnerLeave = room.closeOnOwnerLeave
         /\ DOMAIN [room EXCEPT !.users = users] = DOMAIN room
         /\ [room EXCEPT !.sessions = sessions].sessions = sessions
         /\ [room EXCEPT !.sessions = sessions].users = room.users
         /\ [room EXCEPT !.sessions = sessions].mode = room.mode
         /\ [room EXCEPT !.sessions = sessions].closeOnOwnerLeave = room.closeOnOwnerLeave
         /\ DOMAIN [room EXCEPT !.sessions = sessions] = DOMAIN room
  BY DEF RoomOK

\* newSession for a set of pairs gives each pair a session, under unused xids.
LEMMA NewSessionsMap ==
  ASSUME NEW free, free \subseteq SessionIDs,
         NEW pairs, pairs \subseteq RoomSession,
         NEW new \in NewSessions(free, pairs)
  PROVE  /\ IsMap(new, SessionIDs, RoomSession)
         /\ DOMAIN new \subseteq free
         /\ \A s \in DOMAIN new : new[s] \in pairs
         /\ \A pair \in pairs : \E s \in DOMAIN new : new[s] = pair
  <1>1. PICK ids \in SUBSET free : new \in Bijection(ids, pairs)
    BY DEF NewSessions
  <1>2. /\ new \in [ids -> pairs]
        /\ \A pair \in pairs : \E s \in ids : new[s] = pair
    BY <1>1 DEF Bijection, Injection, Surjection
  <1> QED
    BY <1>2 DEF IsMap
-----------------------------------------------------------------------------
\* A room starts sound (event_create.go:61).
LEMMA NewRoomSound ==
  ASSUME NEW mode \in ConnectionModes, NEW close \in BOOLEAN,
         NEW c \in Clients, NEW name \in Names
  PROVE  /\ Sound(NewRoom(mode, close, c, name))
         /\ Members(NewRoom(mode, close, c, name)) = {c}
         /\ DOMAIN NewRoom(mode, close, c, name).sessions = {}
  <1> DEFINE user == [name |-> name, streaming |-> FALSE, owner |-> TRUE]
             room == NewRoom(mode, close, c, name)
  <1>1. /\ IsMap(EmptyMap, Clients, User) /\ IsMap(EmptyMap, SessionIDs, RoomSession)
        /\ DOMAIN EmptyMap = {}
    BY DEF IsMap, EmptyMap
  <1>2. user \in User /\ ~user.streaming
    BY DEF User
  <1>3. /\ room.mode = mode /\ room.closeOnOwnerLeave = close
        /\ room.users = Put(EmptyMap, c, user) /\ room.sessions = EmptyMap
        /\ DOMAIN room = {"mode", "closeOnOwnerLeave", "users", "sessions"}
    BY DEF NewRoom
  <1> HIDE DEF user, room
  <1>4. /\ IsMap(Put(EmptyMap, c, user), Clients, User)
        /\ DOMAIN Put(EmptyMap, c, user) = {c}
        /\ Put(EmptyMap, c, user)[c] = user
    BY <1>1, <1>2 DEF Put, IsMap
  <1>5. RoomOK(room) /\ Members(room) = {c} /\ Presenters(room) = {} /\ DOMAIN room.sessions = {}
    BY <1>1, <1>2, <1>3, <1>4 DEF RoomOK, Members, Presenters, EmptyMap
  <1>6. Sound(room)
    BY <1>5 DEF Sound, EndsOK, ReachOK
  <1> QED
    BY <1>5, <1>6 DEF room

\* Letting a user in disturbs nothing that does not concern it (event_join.go:35).
LEMMA WithUserOK ==
  ASSUME NEW room, Sound(room), NEW c \in Clients, c \notin Members(room), NEW name \in Names
  PROVE  LET r == WithUser(room, c, name)
         IN  /\ RoomOK(r) /\ EndsOK(r) /\ ReachOK(r, {c})
             /\ Members(r) = Members(room) \cup {c}
             /\ Presenters(r) = Presenters(room)
             /\ r.sessions = room.sessions /\ r.mode = room.mode
  <1> DEFINE user == [name |-> name, streaming |-> FALSE, owner |-> FALSE]
             r == WithUser(room, c, name)
  <1>1. RoomOK(room) /\ IsMap(room.users, Clients, User)
    BY DEF Sound, RoomOK
  <1>2. user \in User /\ ~user.streaming
    BY DEF User
  <1>0. r = [room EXCEPT !.users = Put(room.users, c, user)]
    BY DEF WithUser
  <1> HIDE DEF user, r
  <1>3. /\ IsMap(Put(room.users, c, user), Clients, User)
        /\ DOMAIN Put(room.users, c, user) = DOMAIN room.users \cup {c}
        /\ Put(room.users, c, user)[c] = user
        /\ \A d \in DOMAIN room.users : d # c => Put(room.users, c, user)[d] = room.users[d]
    BY <1>1, <1>2 DEF Put, IsMap
  <1>4. /\ RoomOK(r) /\ r.sessions = room.sessions /\ r.mode = room.mode
        /\ r.users = Put(room.users, c, user)
    BY <1>0, <1>1, <1>3, RoomFields DEF RoomOK
  <1>5. Members(r) = Members(room) \cup {c} /\ Presenters(r) = Presenters(room)
    BY <1>2, <1>3, <1>4 DEF Members, Presenters
  <1>6. EndsOK(r)
    BY <1>4, <1>5 DEF Sound, EndsOK
  <1>7. ReachOK(r, {c})
    BY <1>4, <1>5 DEF Sound, ReachOK, Reached
  <1> QED
    BY <1>4, <1>5, <1>6, <1>7 DEF r

\* Opening sessions for pairs of a presenter and another member keeps the ones
\* there are and reaches the pairs (newSession in room.go).
LEMMA OpenSessionsOK ==
  ASSUME NEW q, RoomOK(q), EndsOK(q),
         NEW free, free \subseteq SessionIDs \ DOMAIN q.sessions,
         NEW pairs, pairs \subseteq RoomSession,
         \A pair \in pairs : /\ pair.host # pair.client
                             /\ pair.host \in Presenters(q) /\ pair.client \in Members(q),
         NEW new \in NewSessions(free, pairs)
  PROVE  LET r == OpenSessions(q, new)
         IN  /\ RoomOK(r) /\ EndsOK(r) /\ r.mode = q.mode
             /\ Members(r) = Members(q) /\ Presenters(r) = Presenters(q)
             /\ DOMAIN r.sessions = DOMAIN q.sessions \cup DOMAIN new
             /\ DOMAIN new \subseteq free
             /\ \A p, d \in Clients :
                  Reached(q, p, d) \/ [host |-> p, client |-> d] \in pairs => Reached(r, p, d)
  <1> DEFINE r == OpenSessions(q, new)
             all == PutAll(q.sessions, new)
  <1>1. /\ IsMap(new, SessionIDs, RoomSession) /\ DOMAIN new \subseteq free
        /\ \A s \in DOMAIN new : new[s] \in pairs
        /\ \A pair \in pairs : \E s \in DOMAIN new : new[s] = pair
    BY NewSessionsMap
  <1>2. /\ IsMap(all, SessionIDs, RoomSession)
        /\ DOMAIN all = DOMAIN q.sessions \cup DOMAIN new
        /\ \A s \in DOMAIN new : all[s] = new[s]
        /\ \A s \in DOMAIN q.sessions : all[s] = q.sessions[s]
    BY <1>1 DEF RoomOK, PutAll, IsMap
  <1>3. r = [q EXCEPT !.sessions = all]
    BY DEF OpenSessions
  <1> HIDE DEF r, all
  <1>4. /\ r.users = q.users /\ r.sessions = all /\ r.mode = q.mode
        /\ r.closeOnOwnerLeave = q.closeOnOwnerLeave /\ DOMAIN r = DOMAIN q
    BY <1>3, RoomFields
  <1>5. RoomOK(r) /\ Members(r) = Members(q) /\ Presenters(r) = Presenters(q)
    BY <1>2, <1>4 DEF RoomOK, Members, Presenters
  <1>6. EndsOK(r)
    <2> SUFFICES ASSUME NEW s \in DOMAIN all
                 PROVE  /\ all[s].host # all[s].client
                        /\ all[s].host \in Presenters(q) /\ all[s].client \in Members(q)
      BY <1>4, <1>5 DEF EndsOK
    <2>1. CASE s \in DOMAIN new
      BY <1>1, <1>2, <2>1
    <2>2. CASE s \in DOMAIN q.sessions
      BY <1>2, <2>2 DEF EndsOK
    <2> QED
      BY <1>2, <2>1, <2>2
  <1>7. ASSUME NEW p \in Clients, NEW d \in Clients,
               Reached(q, p, d) \/ [host |-> p, client |-> d] \in pairs
        PROVE  Reached(r, p, d)
    BY <1>1, <1>2, <1>4, <1>7 DEF Reached
  <1> QED
    BY <1>1, <1>2, <1>4, <1>5, <1>6, <1>7 DEF r

\* A newcomer finishes what WithUser left open: with a session for every
\* presenter the room is sound again (event_join.go:52).
LEMMA JoinedSound ==
  ASSUME NEW room, Sound(room), NEW c \in Clients, c \notin Members(room), NEW name \in Names,
         NEW free, free \subseteq SessionIDs \ DOMAIN room.sessions,
         NEW new \in NewSessions(free, [host : Presenters(WithUser(room, c, name)), client : {c}])
  PROVE  LET r == OpenSessions(WithUser(room, c, name), new)
         IN  /\ Sound(r) /\ r.mode = room.mode
             /\ Members(r) = Members(room) \cup {c}
             /\ DOMAIN r.sessions = DOMAIN room.sessions \cup DOMAIN new
             /\ DOMAIN new \subseteq free
  <1> DEFINE q == WithUser(room, c, name)
             pairs == [host : Presenters(q), client : {c}]
             r == OpenSessions(q, new)
  <1>1. /\ RoomOK(q) /\ EndsOK(q) /\ ReachOK(q, {c})
        /\ Members(q) = Members(room) \cup {c} /\ Presenters(q) = Presenters(room)
        /\ q.sessions = room.sessions /\ q.mode = room.mode
    BY WithUserOK
  <1>2. new \in NewSessions(free, pairs) /\ free \subseteq SessionIDs \ DOMAIN q.sessions
    BY <1>1
  <1> HIDE DEF q
  <1>3. Members(q) \subseteq Clients /\ Presenters(q) \subseteq Members(room)
    BY <1>1 DEF RoomOK, IsMap, Members, Presenters
  <1>4. /\ pairs \subseteq RoomSession
        /\ \A pair \in pairs : /\ pair.host # pair.client
                               /\ pair.host \in Presenters(q) /\ pair.client \in Members(q)
    BY <1>1, <1>3 DEF RoomSession
  <1>5. \A p \in Presenters(q) : [host |-> p, client |-> c] \in pairs
    OBVIOUS
  <1> HIDE DEF pairs
  <1>6. /\ RoomOK(r) /\ EndsOK(r) /\ r.mode = q.mode
        /\ Members(r) = Members(q) /\ Presenters(r) = Presenters(q)
        /\ DOMAIN r.sessions = DOMAIN q.sessions \cup DOMAIN new
        /\ DOMAIN new \subseteq free
        /\ \A p, d \in Clients :
             Reached(q, p, d) \/ [host |-> p, client |-> d] \in pairs => Reached(r, p, d)
    BY <1>1, <1>2, <1>4, OpenSessionsOK
  <1>7. ReachOK(r, {})
    <2> SUFFICES ASSUME NEW p \in Presenters(q), NEW d \in Members(q), d # p
                 PROVE  Reached(q, p, d) \/ [host |-> p, client |-> d] \in pairs
      BY <1>1, <1>3, <1>6 DEF ReachOK
    <2> QED
      BY <1>1, <1>3, <1>5 DEF ReachOK
  <1> QED
    BY <1>1, <1>6, <1>7 DEF Sound, q

\* Changing the entry of one user, who keeps streaming as before.
LEMMA RenameSound ==
  ASSUME NEW room, Sound(room), NEW c \in Members(room), NEW name \in Names
  PROVE  LET r == Rename(room, c, name)
         IN  /\ Sound(r) /\ Members(r) = Members(room)
             /\ r.sessions = room.sessions /\ r.mode = room.mode
  <1> DEFINE users == [room.users EXCEPT ![c].name = name]
             r == Rename(room, c, name)
  <1>1. RoomOK(room) /\ IsMap(room.users, Clients, User) /\ c \in DOMAIN room.users
    BY DEF Sound, RoomOK, Members
  <1>2. /\ IsMap(users, Clients, User) /\ DOMAIN users = DOMAIN room.users
        /\ \A d \in DOMAIN users : users[d].streaming = room.users[d].streaming
    BY <1>1 DEF IsMap, User
  <1>3. r = [room EXCEPT !.users = users]
    BY <1>1 DEF Rename, RoomOK
  <1> HIDE DEF users, r
  <1>4. /\ r.users = users /\ r.sessions = room.sessions /\ r.mode = room.mode
        /\ r.closeOnOwnerLeave = room.closeOnOwnerLeave /\ DOMAIN r = DOMAIN room
    BY <1>1, <1>3, RoomFields
  <1>5. RoomOK(r) /\ Members(r) = Members(room) /\ Presenters(r) = Presenters(room)
    BY <1>1, <1>2, <1>4 DEF RoomOK, Members, Presenters
  <1>6. Sound(r)
    BY <1>4, <1>5 DEF Sound, EndsOK, ReachOK, Reached
  <1> QED
    BY <1>4, <1>5, <1>6 DEF r

\* What SetStreaming does to the fields of a room.
LEMMA SetStreamingFields ==
  ASSUME NEW room, RoomOK(room), NEW c \in Members(room), NEW on \in BOOLEAN
  PROVE  LET r == SetStreaming(room, c, on)
         IN  /\ RoomOK(r) /\ Members(r) = Members(room)
             /\ r.sessions = room.sessions /\ r.mode = room.mode
             /\ Presenters(r) = IF on THEN Presenters(room) \cup {c} ELSE Presenters(room) \ {c}
  <1> DEFINE users == [room.users EXCEPT ![c].streaming = on]
             r == SetStreaming(room, c, on)
  <1>1. IsMap(room.users, Clients, User) /\ c \in DOMAIN room.users
    BY DEF RoomOK, Members
  <1>2. /\ IsMap(users, Clients, User) /\ DOMAIN users = DOMAIN room.users
        /\ users[c].streaming = on
        /\ \A d \in DOMAIN users : d # c => users[d] = room.users[d]
    BY <1>1 DEF IsMap, User
  <1>3. r = [room EXCEPT !.users = users]
    BY <1>1 DEF SetStreaming, RoomOK
  <1> HIDE DEF users, r
  <1>4. /\ r.users = users /\ r.sessions = room.sessions /\ r.mode = room.mode
        /\ r.closeOnOwnerLeave = room.closeOnOwnerLeave /\ DOMAIN r = DOMAIN room
    BY <1>3, RoomFields
  <1>5. RoomOK(r) /\ Members(r) = Members(room)
    BY <1>2, <1>4 DEF RoomOK, Members
  <1>6. Presenters(r) = IF on THEN Presenters(room) \cup {c} ELSE Presenters(room) \ {c}
    BY <1>1, <1>2, <1>4 DEF Members, Presenters
  <1> QED
    BY <1>4, <1>5, <1>6 DEF r

\* Starting to present leaves only the new presenter's viewers to be reached
\* (event_share.go:17).
LEMMA StreamingOK ==
  ASSUME NEW room, Sound(room), NEW c \in Members(room)
  PROVE  LET r == SetStreaming(room, c, TRUE)
         IN  /\ RoomOK(r) /\ EndsOK(r) /\ ReachOK(r, {c})
             /\ \A p \in Presenters(r) \ {c} : Reached(r, p, c)
             /\ Members(r) = Members(room)
             /\ Presenters(r) = Presenters(room) \cup {c}
             /\ r.sessions = room.sessions /\ r.mode = room.mode
  <1> DEFINE r == SetStreaming(room, c, TRUE)
  <1>1. /\ RoomOK(r) /\ Members(r) = Members(room)
        /\ Presenters(r) = Presenters(room) \cup {c}
        /\ r.sessions = room.sessions /\ r.mode = room.mode
    <2>1. RoomOK(room) /\ TRUE \in BOOLEAN
      BY DEF Sound
    <2> QED
      BY <2>1, SetStreamingFields, Zenon
  <1> HIDE DEF r
  <1>2. EndsOK(r)
    BY <1>1 DEF Sound, EndsOK
  <1>3. ReachOK(r, {c})
    BY <1>1 DEF Sound, ReachOK, Reached
  <1>4. \A p \in Presenters(r) \ {c} : Reached(r, p, c)
    BY <1>1 DEF Sound, ReachOK, Reached
  <1> QED
    BY <1>1, <1>2, <1>3, <1>4 DEF r

\* With a session for every other member a new presenter leaves the room sound
\* (event_share.go:24).
LEMMA SharedSound ==
  ASSUME NEW room, Sound(room), NEW c \in Members(room),
         NEW free, free \subseteq SessionIDs \ DOMAIN room.sessions,
         NEW new \in NewSessions(free, [host : {c},
                                        client : Members(SetStreaming(room, c, TRUE)) \ {c}])
  PROVE  LET r == OpenSessions(SetStreaming(room, c, TRUE), new)
         IN  /\ Sound(r) /\ r.mode = room.mode
             /\ Members(r) = Members(room)
             /\ DOMAIN r.sessions = DOMAIN room.sessions \cup DOMAIN new
             /\ DOMAIN new \subseteq free
  <1> DEFINE q == SetStreaming(room, c, TRUE)
             pairs == [host : {c}, client : Members(q) \ {c}]
             r == OpenSessions(q, new)
  <1>1. /\ RoomOK(q) /\ EndsOK(q) /\ ReachOK(q, {c})
        /\ \A p \in Presenters(q) \ {c} : Reached(q, p, c)
        /\ Members(q) = Members(room) /\ Presenters(q) = Presenters(room) \cup {c}
        /\ q.sessions = room.sessions /\ q.mode = room.mode
    BY StreamingOK
  <1>2. new \in NewSessions(free, pairs) /\ free \subseteq SessionIDs \ DOMAIN q.sessions
    BY <1>1
  <1> HIDE DEF q
  <1>3. Members(q) \subseteq Clients /\ Presenters(q) \subseteq Members(q)
    BY <1>1 DEF RoomOK, IsMap, Members, Presenters
  <1>4. /\ pairs \subseteq RoomSession
        /\ \A pair \in pairs : /\ pair.host # pair.client
                               /\ pair.host \in Presenters(q) /\ pair.client \in Members(q)
    BY <1>1, <1>3 DEF RoomSession
  <1>5. \A d \in Members(q) \ {c} : [host |-> c, client |-> d] \in pairs
    OBVIOUS
  <1> HIDE DEF pairs
  <1>6. /\ RoomOK(r) /\ EndsOK(r) /\ r.mode = q.mode
        /\ Members(r) = Members(q) /\ Presenters(r) = Presenters(q)
        /\ DOMAIN r.sessions = DOMAIN q.sessions \cup DOMAIN new
        /\ DOMAIN new \subseteq free
        /\ \A p, d \in Clients :
             Reached(q, p, d) \/ [host |-> p, client |-> d] \in pairs => Reached(r, p, d)
    BY <1>1, <1>2, <1>4, OpenSessionsOK
  <1>7. ReachOK(r, {})
    <2> SUFFICES ASSUME NEW p \in Presenters(q), NEW d \in Members(q), d # p
                 PROVE  Reached(q, p, d) \/ [host |-> p, client |-> d] \in pairs
      BY <1>1, <1>3, <1>6 DEF ReachOK
    <2> QED
      BY <1>1, <1>3, <1>5 DEF ReachOK
  <1> QED
    BY <1>1, <1>6, <1>7 DEF Sound, q

\* Closing sessions deletes exactly them (closeSession in room.go).
LEMMA CloseSessionsFields ==
  ASSUME NEW room, RoomOK(room), NEW ids
  PROVE  LET r == CloseSessions(room, ids)
         IN  /\ RoomOK(r) /\ r.users = room.users /\ r.mode = room.mode
             /\ r.closeOnOwnerLeave = room.closeOnOwnerLeave
             /\ DOMAIN r.sessions = DOMAIN room.sessions \ ids
             /\ \A s \in DOMAIN r.sessions : r.sessions[s] = room.sessions[s]
  <1> DEFINE rest == Without(room.sessions, ids)
             r == CloseSessions(room, ids)
  <1>1. /\ IsMap(rest, SessionIDs, RoomSession) /\ DOMAIN rest = DOMAIN room.sessions \ ids
        /\ \A s \in DOMAIN rest : rest[s] = room.sessions[s]
    BY DEF RoomOK, Without, Restrict, IsMap
  <1>2. r = [room EXCEPT !.sessions = rest]
    BY DEF CloseSessions
  <1> HIDE DEF rest, r
  <1>3. /\ r.users = room.users /\ r.sessions = rest /\ r.mode = room.mode
        /\ r.closeOnOwnerLeave = room.closeOnOwnerLeave /\ DOMAIN r = DOMAIN room
    BY <1>2, RoomFields
  <1>4. RoomOK(r)
    BY <1>1, <1>3 DEF RoomOK
  <1> QED
    BY <1>1, <1>3, <1>4 DEF r

\* Stopping to present, with the sessions the presenter hosted, leaves the room
\* sound (event_stop_share.go:23).
LEMMA StoppedSound ==
  ASSUME NEW room, Sound(room), NEW c \in Members(room)
  PROVE  LET r == CloseSessions(SetStreaming(room, c, FALSE), HostedBy(room, c))
         IN  /\ Sound(r) /\ r.mode = room.mode
             /\ Members(r) = Members(room)
             /\ DOMAIN r.sessions = DOMAIN room.sessions \ HostedBy(room, c)
  <1> DEFINE q == SetStreaming(room, c, FALSE)
             ids == HostedBy(room, c)
             r == CloseSessions(q, ids)
  <1>1. /\ RoomOK(q) /\ Members(q) = Members(room)
        /\ q.sessions = room.sessions /\ q.mode = room.mode
        /\ Presenters(q) = Presenters(room) \ {c}
    <2>1. RoomOK(room) /\ FALSE \in BOOLEAN
      BY DEF Sound
    <2> QED
      BY <2>1, SetStreamingFields, Zenon
  <1> HIDE DEF q
  <1>2. /\ RoomOK(r) /\ r.users = q.users /\ r.mode = q.mode
        /\ DOMAIN r.sessions = DOMAIN q.sessions \ ids
        /\ \A s \in DOMAIN r.sessions : r.sessions[s] = q.sessions[s]
    BY <1>1, CloseSessionsFields
  <1> HIDE DEF r
  <1>3. Members(r) = Members(room) /\ Presenters(r) = Presenters(room) \ {c}
    BY <1>1, <1>2 DEF Members, Presenters
  <1>4. EndsOK(r)
    BY <1>1, <1>2, <1>3 DEF Sound, EndsOK, HostedBy
  <1>5. ReachOK(r, {})
    <2> SUFFICES ASSUME NEW p \in Presenters(r), NEW d \in Members(r), d # p
                 PROVE  Reached(r, p, d)
      BY DEF ReachOK
    <2>1. PICK s \in DOMAIN room.sessions : room.sessions[s] = [host |-> p, client |-> d]
      BY <1>3 DEF Sound, ReachOK, Reached
    <2>2. s \notin ids
      BY <1>3, <2>1 DEF HostedBy
    <2> QED
      BY <1>1, <1>2, <2>1, <2>2 DEF Reached
  <1> QED
    BY <1>1, <1>2, <1>3, <1>4, <1>5 DEF Sound, r, q

\* Taking a member out with its sessions leaves the room sound, even if that
\* member had not been given all of them (event_disconnected.go:42).
LEMMA LeftSound ==
  ASSUME NEW room, RoomOK(room), EndsOK(room),
         NEW c \in Members(room), ReachOK(room, {c})
  PROVE  LET r == WithoutUser(CloseSessions(room, SessionsOf(room, c)), c)
         IN  /\ Sound(r) /\ r.mode = room.mode
             /\ Members(r) = Members(room) \ {c}
             /\ DOMAIN r.sessions = DOMAIN room.sessions \ SessionsOf(room, c)
  <1> DEFINE ids == SessionsOf(room, c)
             q == CloseSessions(room, ids)
             users == Without(q.users, {c})
             r == WithoutUser(q, c)
  <1>1. /\ RoomOK(q) /\ q.users = room.users /\ q.mode = room.mode
        /\ DOMAIN q.sessions = DOMAIN room.sessions \ ids
        /\ \A s \in DOMAIN q.sessions : q.sessions[s] = room.sessions[s]
    BY CloseSessionsFields
  <1> HIDE DEF q
  <1>2. /\ IsMap(users, Clients, User) /\ DOMAIN users = DOMAIN room.users \ {c}
        /\ \A d \in DOMAIN users : users[d] = room.users[d]
    BY <1>1 DEF RoomOK, Without, Restrict, IsMap
  <1>3. r = [q EXCEPT !.users = users]
    BY DEF WithoutUser
  <1> HIDE DEF users, r
  <1>4. /\ r.users = users /\ r.sessions = q.sessions /\ r.mode = q.mode
        /\ r.closeOnOwnerLeave = q.closeOnOwnerLeave /\ DOMAIN r = DOMAIN q
    BY <1>1, <1>3, RoomFields
  <1>5. /\ RoomOK(r) /\ Members(r) = Members(room) \ {c}
        /\ Presenters(r) = Presenters(room) \ {c}
    BY <1>1, <1>2, <1>4 DEF RoomOK, Members, Presenters
  <1>6. \A s \in DOMAIN r.sessions : /\ s \in DOMAIN room.sessions /\ s \notin ids
                                     /\ r.sessions[s] = room.sessions[s]
    BY <1>1, <1>4
  <1>7. EndsOK(r)
    BY <1>5, <1>6 DEF EndsOK, SessionsOf, Ends
  <1>8. ReachOK(r, {})
    <2> SUFFICES ASSUME NEW p \in Presenters(r), NEW d \in Members(r), d # p
                 PROVE  Reached(r, p, d)
      BY DEF ReachOK
    <2>1. PICK s \in DOMAIN room.sessions : room.sessions[s] = [host |-> p, client |-> d]
      BY <1>5 DEF ReachOK, Reached
    <2>2. s \notin ids
      BY <1>5, <2>1 DEF SessionsOf, Ends
    <2> QED
      BY <1>1, <1>4, <2>1, <2>2 DEF Reached
  <1> QED
    BY <1>1, <1>4, <1>5, <1>7, <1>8 DEF Sound, r, q
-----------------------------------------------------------------------------
(* What each operation leaves in the fields of the room, value by value. *)

\* The one user of a new room owns it, and there are no sessions yet.
LEMMA NewRoomFields ==
  ASSUME NEW mode, NEW close, NEW c, NEW name
  PROVE  LET r == NewRoom(mode, close, c, name)
         IN  /\ r.mode = mode /\ r.closeOnOwnerLeave = close
             /\ DOMAIN r.users = {c} /\ r.users[c].owner /\ ~r.users[c].streaming
             /\ DOMAIN r.sessions = {}
  BY DEF NewRoom, Put, EmptyMap

\* A user who is let in owns nothing and does not present; the others stay.
LEMMA WithUserFields ==
  ASSUME NEW room, RoomOK(room), NEW c, NEW name
  PROVE  LET r == WithUser(room, c, name)
         IN  /\ DOMAIN r.users = DOMAIN room.users \cup {c}
             /\ ~r.users[c].owner /\ ~r.users[c].streaming
             /\ \A d \in DOMAIN room.users : d # c => r.users[d] = room.users[d]
             /\ r.sessions = room.sessions /\ r.mode = room.mode
             /\ r.closeOnOwnerLeave = room.closeOnOwnerLeave
  <1> DEFINE user == [name |-> name, streaming |-> FALSE, owner |-> FALSE]
             users == Put(room.users, c, user)
             r == WithUser(room, c, name)
  <1>1. /\ DOMAIN users = DOMAIN room.users \cup {c}
        /\ ~users[c].owner /\ ~users[c].streaming
        /\ \A d \in DOMAIN room.users : d # c => users[d] = room.users[d]
    BY DEF Put
  <1>2. r = [room EXCEPT !.users = users]
    BY DEF WithUser
  <1> HIDE DEF users, r
  <1>3. /\ r.users = users /\ r.sessions = room.sessions /\ r.mode = room.mode
        /\ r.closeOnOwnerLeave = room.closeOnOwnerLeave
    BY <1>2, RoomFields
  <1> QED
    BY <1>1, <1>3 DEF r

\* A new name leaves everything else about the user and the room.
LEMMA RenameFields ==
  ASSUME NEW room, RoomOK(room), NEW c \in Members(room), NEW name
  PROVE  LET r == Rename(room, c, name)
         IN  /\ DOMAIN r.users = DOMAIN room.users
             /\ \A d \in DOMAIN room.users :
                  /\ r.users[d].owner = room.users[d].owner
                  /\ r.users[d].streaming = room.users[d].streaming
             /\ r.sessions = room.sessions /\ r.mode = room.mode
             /\ r.closeOnOwnerLeave = room.closeOnOwnerLeave
  <1> DEFINE users == [room.users EXCEPT ![c].name = name]
             r == Rename(room, c, name)
  <1>1. IsMap(room.users, Clients, User) /\ c \in DOMAIN room.users
    BY DEF RoomOK, Members
  <1>2. /\ DOMAIN users = DOMAIN room.users
        /\ \A d \in DOMAIN users : /\ users[d].owner = room.users[d].owner
                                   /\ users[d].streaming = room.users[d].streaming
    BY <1>1 DEF IsMap, User
  <1>3. r = [room EXCEPT !.users = users]
    BY <1>1 DEF Rename, RoomOK
  <1> HIDE DEF users, r
  <1>4. /\ r.users = users /\ r.sessions = room.sessions /\ r.mode = room.mode
        /\ r.closeOnOwnerLeave = room.closeOnOwnerLeave
    BY <1>3, RoomFields
  <1> QED
    BY <1>2, <1>4 DEF r

\* Nor does presenting change who owns the room.
LEMMA StreamingFields ==
  ASSUME NEW room, RoomOK(room), NEW c \in Members(room),
         NEW r \in {SetStreaming(room, c, TRUE), SetStreaming(room, c, FALSE)}
  PROVE  /\ DOMAIN r.users = DOMAIN room.users
         /\ \A d \in DOMAIN room.users :
              /\ r.users[d].owner = room.users[d].owner
              /\ d # c => r.users[d] = room.users[d]
         /\ r.sessions = room.sessions /\ r.mode = room.mode
         /\ r.closeOnOwnerLeave = room.closeOnOwnerLeave
  <1>1. IsMap(room.users, Clients, User) /\ c \in DOMAIN room.users
    BY DEF RoomOK, Members
  <1>2. PICK on \in BOOLEAN : r = SetStreaming(room, c, on)
    OBVIOUS
  <1> DEFINE users == [room.users EXCEPT ![c].streaming = on]
  <1>3. /\ DOMAIN users = DOMAIN room.users
        /\ \A d \in DOMAIN users : /\ users[d].owner = room.users[d].owner
                                   /\ d # c => users[d] = room.users[d]
    BY <1>1 DEF IsMap, User
  <1>4. r = [room EXCEPT !.users = users]
    BY <1>1, <1>2 DEF SetStreaming, RoomOK
  <1> HIDE DEF users
  <1>5. /\ r.users = users /\ r.sessions = room.sessions /\ r.mode = room.mode
        /\ r.closeOnOwnerLeave = room.closeOnOwnerLeave
    BY <1>4, RoomFields
  <1> QED
    BY <1>3, <1>5

\* New sessions are added to those there are.
LEMMA OpenSessionsFields ==
  ASSUME NEW room, RoomOK(room), NEW new, DOMAIN new \cap DOMAIN room.sessions = {}
  PROVE  LET r == OpenSessions(room, new)
         IN  /\ r.users = room.users /\ r.mode = room.mode
             /\ r.closeOnOwnerLeave = room.closeOnOwnerLeave
             /\ DOMAIN r.sessions = DOMAIN room.sessions \cup DOMAIN new
             /\ \A s \in DOMAIN room.sessions : r.sessions[s] = room.sessions[s]
             /\ \A s \in DOMAIN new : r.sessions[s] = new[s]
  <1> DEFINE all == PutAll(room.sessions, new)
             r == OpenSessions(room, new)
  <1>1. /\ DOMAIN all = DOMAIN room.sessions \cup DOMAIN new
        /\ \A s \in DOMAIN room.sessions : all[s] = room.sessions[s]
        /\ \A s \in DOMAIN new : all[s] = new[s]
    BY DEF PutAll
  <1>2. r = [room EXCEPT !.sessions = all]
    BY DEF OpenSessions
  <1> HIDE DEF all, r
  <1>3. /\ r.users = room.users /\ r.sessions = all /\ r.mode = room.mode
        /\ r.closeOnOwnerLeave = room.closeOnOwnerLeave
    BY <1>2, RoomFields
  <1> QED
    BY <1>1, <1>3 DEF r

\* Closing sessions and taking users out leaves everything else.
LEMMA WithoutFields ==
  ASSUME NEW room, RoomOK(room), NEW ids, NEW c
  PROVE  LET r == WithoutUser(CloseSessions(room, ids), c)
         IN  /\ DOMAIN r.users = DOMAIN room.users \ {c}
             /\ \A d \in DOMAIN r.users : r.users[d] = room.users[d]
             /\ DOMAIN r.sessions = DOMAIN room.sessions \ ids
             /\ \A s \in DOMAIN r.sessions : r.sessions[s] = room.sessions[s]
             /\ r.mode = room.mode /\ r.closeOnOwnerLeave = room.closeOnOwnerLeave
  <1> DEFINE q == CloseSessions(room, ids)
             users == Without(q.users, {c})
             r == WithoutUser(q, c)
  <1>1. /\ RoomOK(q) /\ q.users = room.users /\ q.mode = room.mode
        /\ q.closeOnOwnerLeave = room.closeOnOwnerLeave
        /\ DOMAIN q.sessions = DOMAIN room.sessions \ ids
        /\ \A s \in DOMAIN q.sessions : q.sessions[s] = room.sessions[s]
    BY CloseSessionsFields
  <1> HIDE DEF q
  <1>2. /\ DOMAIN users = DOMAIN room.users \ {c}
        /\ \A d \in DOMAIN users : users[d] = room.users[d]
    BY <1>1 DEF Without, Restrict
  <1>3. r = [q EXCEPT !.users = users]
    BY DEF WithoutUser
  <1> HIDE DEF users, r
  <1>4. /\ r.users = users /\ r.sessions = q.sessions /\ r.mode = q.mode
        /\ r.closeOnOwnerLeave = q.closeOnOwnerLeave
    BY <1>1, <1>3, RoomFields
  <1> QED
    BY <1>1, <1>2, <1>4 DEF r, q
=============================================================================
