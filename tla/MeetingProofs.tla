--------------------------- MODULE MeetingProofs ---------------------------
(***************************************************************************)
(* What RoomsProofs leaves open of Rooms: that rooms stay attended, that   *)
(* the gauges and the browsers are right about the rooms, that sessions    *)
(* last, and that the event loop implements ScreenShare.  All of it rests  *)
(* on the inductive invariant IInv of RoomsProofs and on what each step    *)
(* does to one room, which the first half of the module collects.          *)
(***************************************************************************)
EXTENDS RoomsProofs

-----------------------------------------------------------------------------
(* The effects of the steps on the room id they are about. *)

\* Every room but id stays as it is.
Elsewhere(id) ==
  /\ DOMAIN rooms' \ {id} = DOMAIN rooms \ {id}
  /\ \A j \in DOMAIN rooms \ {id} : rooms'[j] = rooms[j]

SameSetup(id) ==
  /\ rooms'[id].mode = rooms[id].mode
  /\ rooms'[id].closeOnOwnerLeave = rooms[id].closeOnOwnerLeave

\* The room id stays, with the same people who own what they owned.
SameCompany(id) ==
  /\ Members(rooms'[id]) = Members(rooms[id])
  /\ \A d \in Members(rooms[id]) : rooms'[id].users[d].owner = rooms[id].users[d].owner

\* The sessions new are added to those of the room id, or ids are taken away.
SessionsAdded(id, new) ==
  /\ DOMAIN new \subseteq FreeIDs
  /\ DOMAIN rooms'[id].sessions = DOMAIN rooms[id].sessions \cup DOMAIN new
  /\ \A s \in DOMAIN rooms[id].sessions : rooms'[id].sessions[s] = rooms[id].sessions[s]
  /\ \A s \in DOMAIN new : rooms'[id].sessions[s] = new[s]
  /\ Announce(new)

SessionsEnded(id, ids) ==
  /\ ids \subseteq DOMAIN rooms[id].sessions
  /\ DOMAIN rooms'[id].sessions = DOMAIN rooms[id].sessions \ ids
  /\ \A s \in DOMAIN rooms'[id].sessions : rooms'[id].sessions[s] = rooms[id].sessions[s]

\* The room that a successful handler replaces or adds is shown to its members,
\* and no connection breaks or closes.
Succeeded(id) ==
  /\ id \in RoomIDs
  /\ DOMAIN rooms' = DOMAIN rooms \cup {id}
  /\ Elsewhere(id)
  /\ view' = Shown(view, id, rooms'[id])
  /\ link' = link
  /\ relayed' = {}

\* c, who is in no room, enters one.
Newcomer(c) ==
  /\ c \in DOMAIN connected
  /\ \A j \in DOMAIN rooms : c \notin Members(rooms[j])

Created(c, id) ==
  /\ Succeeded(id) /\ Newcomer(c)
  /\ id \notin DOMAIN rooms
  /\ Members(rooms'[id]) = {c}
  /\ rooms'[id].users[c].owner /\ ~rooms'[id].users[c].streaming
  /\ DOMAIN rooms'[id].sessions = {}
  /\ gauge' = Count(gauge.users + 1, gauge.rooms + 1, gauge.sessions)
  /\ announced' = announced

Joined(c, id, new) ==
  /\ Succeeded(id) /\ Newcomer(c)
  /\ id \in DOMAIN rooms /\ SameSetup(id)
  /\ Members(rooms'[id]) = Members(rooms[id]) \cup {c}
  /\ ~rooms'[id].users[c].owner /\ ~rooms'[id].users[c].streaming
  /\ \A d \in Members(rooms[id]) : rooms'[id].users[d] = rooms[id].users[d]
  /\ SessionsAdded(id, new)
  /\ Range(new) = [host : Presenters(rooms[id]), client : {c}]
  /\ gauge' = Count(gauge.users + 1, gauge.rooms, gauge.sessions + Cardinality(DOMAIN new))

Shared(c, id, new) ==
  /\ Succeeded(id)
  /\ id \in DOMAIN rooms /\ SameSetup(id) /\ SameCompany(id) /\ c \in Members(rooms[id])
  /\ Presenters(rooms'[id]) = Presenters(rooms[id]) \cup {c}
  /\ SessionsAdded(id, new)
  /\ Range(new) = [host : {c}, client : Members(rooms[id]) \ {c}]
  /\ gauge' = Count(gauge.users, gauge.rooms, gauge.sessions + Cardinality(DOMAIN new))

Stopped(c, id) ==
  /\ Succeeded(id)
  /\ id \in DOMAIN rooms /\ SameSetup(id) /\ SameCompany(id) /\ c \in Members(rooms[id])
  /\ Presenters(rooms'[id]) = Presenters(rooms[id]) \ {c}
  /\ SessionsEnded(id, HostedBy(rooms[id], c))
  /\ EndShares(rooms[id], HostedBy(rooms[id], c), {})
  /\ gauge' = Count(gauge.users, gauge.rooms,
                    gauge.sessions - Cardinality(HostedBy(rooms[id], c)))

Renamed(id) ==
  /\ Succeeded(id)
  /\ id \in DOMAIN rooms /\ SameSetup(id) /\ SameCompany(id)
  /\ Presenters(rooms'[id]) = Presenters(rooms[id])
  /\ rooms'[id].sessions = rooms[id].sessions
  /\ gauge' = gauge /\ announced' = announced

\* A connection that is in no room ends.
Dropped(c) ==
  /\ Newcomer(c)
  /\ Cut({c})
  /\ rooms' = rooms /\ gauge' = gauge
  /\ view' = Without(view, {c})
  /\ announced' = [announced EXCEPT ![c] = {}]
  /\ relayed' = {}

\* What was shown to others than S they still see.
ShownOutside(before, S) ==
  \A d \in Clients \ S :
    /\ d \in DOMAIN before <=> d \in DOMAIN view
    /\ d \in DOMAIN view => before[d] = view[d]

\* A connection ends and its room stays; a join that fails ends it too, before
\* anybody counts on it.
Departed(c, id) ==
  /\ id \in DOMAIN rooms /\ c \in DOMAIN connected
  /\ DOMAIN rooms' = DOMAIN rooms
  /\ Elsewhere(id) /\ SameSetup(id)
  /\ \A j \in DOMAIN rooms \ {id} : c \notin Members(rooms[j])
  /\ Members(rooms'[id]) = Members(rooms[id]) \ {c}
  /\ Members(rooms'[id]) # {}
  /\ \A d \in Members(rooms'[id]) : rooms'[id].users[d] = rooms[id].users[d]
  /\ c \in Members(rooms[id]) =>
       ~(rooms[id].users[c].owner /\ rooms[id].closeOnOwnerLeave)
  /\ SessionsEnded(id, SessionsOf(rooms[id], c))
  /\ Cut({c})
  /\ gauge' = Count(IF c \in Members(rooms[id]) THEN gauge.users - 1 ELSE gauge.users,
                    gauge.rooms, gauge.sessions - Cardinality(SessionsOf(rooms[id], c)))
  /\ \E before :
       /\ ShownOutside(before, Members(rooms'[id]) \cup {c})
       /\ view' = Without(Shown(before, id, rooms'[id]), {c})
  /\ EndShares(rooms[id], SessionsOf(rooms[id], c), {c})
  /\ relayed' = {}

\* A room ends with the connection of one of its members.
Closed(c, id) ==
  /\ id \in DOMAIN rooms /\ c \in Members(rooms[id])
  /\ DOMAIN rooms' = DOMAIN rooms \ {id}
  /\ Elsewhere(id)
  /\ Cut(Members(rooms[id]))
  /\ gauge' = Count(gauge.users - Cardinality(Members(rooms[id])), gauge.rooms - 1,
                    gauge.sessions - Cardinality(DOMAIN rooms[id].sessions))
  /\ view' = Without(view, Members(rooms[id]))
  /\ EndShares(rooms[id], DOMAIN rooms[id].sessions, Members(rooms[id]))
  /\ relayed' = {}

\* A message is passed on, dropped or not for the loop.
Passed ==
  /\ rooms' = rooms /\ gauge' = gauge /\ link' = link /\ view' = view
  /\ announced' = announced
  /\ \/ relayed' \in {{}, relayed}
     \/ \E c \in Clients, sid \in SessionIDs : RelayFromHost(c, sid) \/ RelayFromClient(c, sid)

\* Any effect but that of passing a message on.
Effect(c) ==
  \/ Connected(c)
  \/ Break(c)
  \/ Dropped(c)
  \/ \E id \in RoomIDs :
       Created(c, id) \/ Stopped(c, id) \/ Renamed(id) \/ Departed(c, id) \/ Closed(c, id)
  \/ \E id \in RoomIDs : \E new : Joined(c, id, new) \/ Shared(c, id, new)

-----------------------------------------------------------------------------
(* Each handler has its effect. *)

\* What a handler that fails has changed, beyond LeftOK: nobody owns more or
\* less, and a join has let in somebody who owns nothing.
LeftMore(c, s) ==
  /\ LeftOK(c, s)
  /\ s.id = NoRoom => s.view = view /\ s.users = gauge.users
  /\ s.id # NoRoom =>
       /\ s.rooms[s.id].closeOnOwnerLeave = rooms[s.id].closeOnOwnerLeave
       /\ \A d \in Members(rooms[s.id]) :
            /\ s.rooms[s.id].users[d].owner = rooms[s.id].users[d].owner
            /\ d # c => s.rooms[s.id].users[d] = rooms[s.id].users[d]
       /\ IF c \in Members(rooms[s.id])
          THEN s.users = gauge.users /\ s.view = view
          ELSE /\ s.users = gauge.users + 1
               /\ ~s.rooms[s.id].users[c].owner
               /\ ShownOutside(s.view, Members(rooms[s.id]) \cup {c})

\* A connection that is registered in no room or in the room id is in no other.
LEMMA InNoOther ==
  ASSUME RoomNames, IInv, NEW c \in DOMAIN connected
  PROVE  /\ connected[c] = NoRoom => Newcomer(c)
         /\ \A id \in DOMAIN rooms : connected[c] \in {NoRoom, id} =>
              \A j \in DOMAIN rooms \ {id} : c \notin Members(rooms[j])
  <1>1. c \in Clients /\ \A j \in DOMAIN rooms : j # NoRoom
    BY DEF IInv, TypeOK, IsMap, AllSound, RoomNames
  <1> QED
    BY <1>1 DEF IInv, Placed, Newcomer

LEMMA UnchangedLeftMore ==
  ASSUME RoomNames, IInv, NEW c, Receive(c)
  PROVE  LeftMore(c, Unchanged(c))
  <1>1. LeftOK(c, Unchanged(c))
    BY UnchangedLeftOK
  <1>2. /\ c \in DOMAIN connected /\ Current(c) = connected[c]
        /\ connected[c] # NoRoom => c \in Members(rooms[connected[c]])
    BY CurrentRoomOK
  <1> QED
    BY <1>1, <1>2 DEF LeftMore, Unchanged, Left

LEMMA JoinFailsLeftMore ==
  ASSUME RoomNames, IInv, NEW c, Receive(c), Current(c) = NoRoom,
         NEW id \in DOMAIN rooms, NEW name \in Names
  PROVE  LET room == WithUser(rooms[id], c, name)
         IN  LeftMore(c, Left(id, Put(rooms, id, room), gauge.users + 1, Shown(view, id, room)))
  <1> DEFINE room == WithUser(rooms[id], c, name)
             shown == Shown(view, id, room)
             rms == Put(rooms, id, room)
             s == Left(id, rms, gauge.users + 1, shown)
  <1>1. LeftOK(c, s)
    BY JoinFailsLeftOK
  <1>2. /\ c \in DOMAIN connected /\ connected[c] = NoRoom
        /\ RoomOK(rooms[id]) /\ id # NoRoom /\ c \notin Members(rooms[id])
    <2>1. c \in DOMAIN connected /\ connected[c] = NoRoom
      BY CurrentRoomOK
    <2> QED
      BY <2>1, InNoOther DEF IInv, AllSound, Sound, RoomNames, Newcomer
  <1>3. /\ DOMAIN room.users = DOMAIN rooms[id].users \cup {c}
        /\ ~room.users[c].owner
        /\ \A d \in DOMAIN rooms[id].users : d # c => room.users[d] = rooms[id].users[d]
        /\ room.closeOnOwnerLeave = rooms[id].closeOnOwnerLeave
    BY <1>2, WithUserFields
  <1> HIDE DEF room
  <1>4. ShownOutside(shown, Members(rooms[id]) \cup {c})
    BY <1>3 DEF ShownOutside, Shown, Reachable, Members
  <1>5. rms[id] = room
    BY DEF Put
  <1>6. s.id = id /\ s.rooms = rms /\ s.users = gauge.users + 1 /\ s.view = shown
    BY DEF Left
  <1> HIDE DEF rms, shown, s
  <1>7. LeftMore(c, s)
    BY <1>1, <1>2, <1>3, <1>4, <1>5, <1>6 DEF LeftMore, Members
  <1> QED
    BY <1>7 DEF s, rms, shown, room

LEMMA ShareFailsLeftMore ==
  ASSUME RoomNames, IInv, NEW c, InRoom(c)
  PROVE  LET id == connected[c]
         IN  LeftMore(c, Left(id, Put(rooms, id, SetStreaming(rooms[id], c, TRUE)),
                              gauge.users, view))
  <1> DEFINE id == connected[c]
             room == SetStreaming(rooms[id], c, TRUE)
             rms == Put(rooms, id, room)
             s == Left(id, rms, gauge.users, view)
  <1>1. LeftOK(c, s)
    BY ShareFailsLeftOK
  <1>2. /\ c \in DOMAIN connected /\ id # NoRoom /\ id \in DOMAIN rooms
        /\ RoomOK(rooms[id]) /\ c \in Members(rooms[id])
    BY CurrentRoomOK DEF InRoom, Sound
  <1>3. /\ \A d \in DOMAIN rooms[id].users :
             /\ room.users[d].owner = rooms[id].users[d].owner
             /\ d # c => room.users[d] = rooms[id].users[d]
        /\ room.closeOnOwnerLeave = rooms[id].closeOnOwnerLeave
    BY <1>2, StreamingFields
  <1> HIDE DEF room
  <1>4. rms[id] = room
    BY DEF Put
  <1>5. s.id = id /\ s.rooms = rms /\ s.users = gauge.users /\ s.view = view
    BY DEF Left
  <1> HIDE DEF rms, s
  <1>6. LeftMore(c, s)
    BY <1>1, <1>2, <1>3, <1>4, <1>5 DEF LeftMore, Members
  <1> QED
    BY <1>6 DEF s, rms, room

\* The three ways a connection ends.
LEMMA DroppedEffect ==
  ASSUME RoomNames, IInv, NEW c, NEW s, LeftMore(c, s), relayed' = {}, DisconnectOnly(c, s)
  PROVE  Dropped(c)
  <1>1. s.id = NoRoom /\ s.rooms = rooms /\ c \in DOMAIN connected /\ connected[c] = NoRoom
    BY DEF LeftMore, LeftOK, DisconnectOnly, HasRoom
  <1>2. s.view = view /\ s.users = gauge.users
    BY <1>1 DEF LeftMore
  <1>3. gauge' = gauge
    BY <1>2 DEF DisconnectOnly, IInv, TypeOK, Gauges, Count
  <1>4. Newcomer(c)
    BY <1>1, InNoOther
  <1> QED
    BY <1>1, <1>2, <1>3, <1>4 DEF DisconnectOnly, Dropped

LEMMA DepartedEffect ==
  ASSUME RoomNames, IInv, NEW c, NEW s, LeftMore(c, s), relayed' = {}, DisconnectAndLeave(c, s)
  PROVE  s.id \in RoomIDs /\ Departed(c, s.id)
  <1> DEFINE id == s.id
             room == s.rooms[id]
             ended == SessionsOf(room, c)
             rest == WithoutUser(CloseSessions(room, ended), c)
  <1>1. /\ Cut({c})
        /\ ~EndsWith(room, c)
        /\ rooms' = Put(s.rooms, id, rest)
        /\ gauge' = Count(s.users - 1, gauge.rooms, gauge.sessions - Cardinality(ended))
        /\ view' = Without(Shown(s.view, id, rest), {c})
        /\ EndShares(room, ended, {c})
    BY DEF DisconnectAndLeave
  <1>2. /\ id \in DOMAIN rooms /\ id \in RoomIDs /\ id # NoRoom /\ c \in Members(room)
        /\ RoomOK(room) /\ EndsOK(room)
        /\ Members(room) = Members(rooms[id]) \cup {c}
        /\ room.sessions = rooms[id].sessions /\ room.mode = rooms[id].mode
        /\ c \in DOMAIN connected /\ connected[c] \in {NoRoom, id}
        /\ DOMAIN s.rooms = DOMAIN rooms
        /\ \A j \in DOMAIN rooms \ {id} : s.rooms[j] = rooms[j]
    BY DEF DisconnectAndLeave, HasRoom, LeftMore, LeftOK
  <1>3. /\ DOMAIN rest.users = DOMAIN room.users \ {c}
        /\ \A d \in DOMAIN rest.users : rest.users[d] = room.users[d]
        /\ DOMAIN rest.sessions = DOMAIN room.sessions \ ended
        /\ \A t \in DOMAIN rest.sessions : rest.sessions[t] = room.sessions[t]
        /\ rest.mode = room.mode /\ rest.closeOnOwnerLeave = room.closeOnOwnerLeave
    BY <1>2, WithoutFields
  <1>4. ended = SessionsOf(rooms[id], c)
    BY <1>2 DEF SessionsOf
  <1>5. /\ room.closeOnOwnerLeave = rooms[id].closeOnOwnerLeave
        /\ \A d \in Members(rooms[id]) :
             /\ room.users[d].owner = rooms[id].users[d].owner
             /\ d # c => room.users[d] = rooms[id].users[d]
        /\ c \in Members(rooms[id]) => s.users = gauge.users /\ s.view = view
        /\ c \notin Members(rooms[id]) =>
             /\ s.users = gauge.users + 1
             /\ ShownOutside(s.view, Members(rooms[id]) \cup {c})
    BY <1>2 DEF LeftMore
  <1> HIDE DEF rest, ended
  <1>6. /\ DOMAIN rooms' = DOMAIN rooms
        /\ rooms'[id] = rest
        /\ \A j \in DOMAIN rooms \ {id} : rooms'[j] = rooms[j]
    BY <1>1, <1>2 DEF Put
  <1> HIDE DEF id
  <1>7. Elsewhere(id) /\ SameSetup(id)
    BY <1>2, <1>3, <1>5, <1>6 DEF Elsewhere, SameSetup
  <1>8. /\ Members(rooms'[id]) = Members(rooms[id]) \ {c}
        /\ Members(rooms'[id]) # {}
        /\ \A d \in Members(rooms'[id]) : rooms'[id].users[d] = rooms[id].users[d]
    BY <1>1, <1>2, <1>3, <1>5, <1>6 DEF Members, EndsWith
  <1>9. SessionsEnded(id, SessionsOf(rooms[id], c))
    BY <1>2, <1>3, <1>4, <1>6 DEF SessionsEnded, SessionsOf
  <1>10. c \in Members(rooms[id]) =>
           ~(rooms[id].users[c].owner /\ rooms[id].closeOnOwnerLeave)
    BY <1>1, <1>5 DEF EndsWith
  <1>11. s.users - 1 = IF c \in Members(rooms[id]) THEN gauge.users - 1 ELSE gauge.users
    BY <1>5 DEF IInv, TypeOK, Gauges
  <1>12. ShownOutside(s.view, Members(rooms'[id]) \cup {c})
    BY <1>5, <1>8 DEF ShownOutside
  <1>13. \A j \in DOMAIN rooms \ {id} : c \notin Members(rooms[j])
    BY <1>2, InNoOther
  <1>14. EndShares(rooms[id], ended, {c})
    BY <1>1, <1>2 DEF EndShares
  <1> HIDE DEF room
  <1> QED
    BY <1>1, <1>2, <1>4, <1>6, <1>7, <1>8, <1>9, <1>10, <1>11, <1>12, <1>13, <1>14
    DEF Departed, id

\* Only a member closes a room that is attended: a newcomer whose join fails is
\* neither its owner nor alone in it.
LEMMA ClosedEffect ==
  ASSUME RoomNames, IInv, RoomsAttended, NEW c, NEW s, LeftMore(c, s), relayed' = {},
         DisconnectAndCloseRoom(c, s)
  PROVE  s.id \in RoomIDs /\ Closed(c, s.id)
  <1> DEFINE id == s.id
             room == s.rooms[id]
             gone == Members(room) \cup {c}
             ids == DOMAIN room.sessions
  <1>1. /\ EndsWith(room, c)
        /\ Cut(gone)
        /\ rooms' = Without(s.rooms, {id})
        /\ gauge' = Count(s.users - Cardinality(gone), gauge.rooms - 1,
                          gauge.sessions - Cardinality(ids))
        /\ view' = Without(s.view, gone)
        /\ EndShares(room, ids, gone)
    BY DEF DisconnectAndCloseRoom, CloseRoom, Evicted
  <1>2. /\ id \in DOMAIN rooms /\ id \in RoomIDs /\ id # NoRoom /\ c \in Members(room)
        /\ Members(room) = Members(rooms[id]) \cup {c}
        /\ room.sessions = rooms[id].sessions
        /\ DOMAIN s.rooms = DOMAIN rooms
        /\ \A j \in DOMAIN rooms \ {id} : s.rooms[j] = rooms[j]
    BY DEF DisconnectAndCloseRoom, HasRoom, LeftMore, LeftOK
  <1>3. c \in Members(rooms[id])
    <2>1. SUFFICES ASSUME c \notin Members(rooms[id]) PROVE FALSE
      OBVIOUS
    <2>2. ~room.users[c].owner
      BY <1>2, <2>1 DEF LeftMore
    <2>3. Members(room) = {c}
      BY <1>1, <2>2 DEF EndsWith
    <2>4. Members(rooms[id]) = {}
      BY <1>2, <2>1, <2>3
    <2> QED
      BY <1>2, <2>4 DEF RoomsAttended
  <1>4. s.users = gauge.users /\ s.view = view
    BY <1>2, <1>3 DEF LeftMore
  <1>5. gone = Members(rooms[id]) /\ ids = DOMAIN rooms[id].sessions
    BY <1>2, <1>3
  <1>6. /\ DOMAIN rooms' = DOMAIN rooms \ {id}
        /\ \A j \in DOMAIN rooms \ {id} : rooms'[j] = rooms[j]
    BY <1>1, <1>2 DEF Without, Restrict
  <1> HIDE DEF id
  <1>7. Elsewhere(id)
    BY <1>6 DEF Elsewhere
  <1>8. EndShares(rooms[id], ids, gone)
    BY <1>1, <1>2 DEF EndShares
  <1> HIDE DEF room, gone, ids
  <1> QED
    BY <1>1, <1>2, <1>3, <1>4, <1>5, <1>6, <1>7, <1>8 DEF Closed, id

LEMMA DisconnectEffect ==
  ASSUME RoomNames, IInv, RoomsAttended, NEW c, NEW s, LeftMore(c, s), Disconnect(c, s)
  PROVE  Effect(c)
  BY DroppedEffect, DepartedEffect, ClosedEffect DEF Disconnect, Effect

-----------------------------------------------------------------------------
(* The handlers that succeed. *)

LEMMA CreatedEffect ==
  ASSUME RoomNames, IInv,
         NEW c \in Clients, NEW id \in RoomIDs, NEW mode \in CreateModes,
         NEW close \in BOOLEAN, NEW name \in Names,
         CreateRoom(c, id, mode, close, name)
  PROVE  Created(c, id)
  <1> DEFINE r == NewRoom(mode, close, c, name)
  <1>1. /\ Receive(c) /\ Current(c) = NoRoom /\ id \notin DOMAIN rooms
        /\ rooms' = Put(rooms, id, r) /\ view' = Shown(view, id, r)
        /\ gauge' = Count(gauge.users + 1, gauge.rooms + 1, gauge.sessions)
        /\ relayed' = {} /\ link' = link /\ announced' = announced
    BY DEF CreateRoom
  <1>2. /\ r.mode = mode /\ DOMAIN r.users = {c}
        /\ r.users[c].owner /\ ~r.users[c].streaming /\ DOMAIN r.sessions = {}
    BY NewRoomFields
  <1> HIDE DEF r
  <1>3. /\ DOMAIN rooms' = DOMAIN rooms \cup {id} /\ rooms'[id] = r
        /\ \A j \in DOMAIN rooms \ {id} : rooms'[j] = rooms[j]
    BY <1>1 DEF Put
  <1>4. Newcomer(c)
    BY <1>1, InNoOther, CurrentRoomOK
  <1>5. Succeeded(id)
    BY <1>1, <1>3 DEF Succeeded, Elsewhere
  <1> QED
    BY <1>1, <1>2, <1>3, <1>4, <1>5 DEF Created, Members

\* The sessions of OpenAll are all new, one at least for every pair asked for.
LEMMA OpenAllEffect ==
  ASSUME IInv, NEW id \in DOMAIN rooms, NEW room, RoomOK(room),
         room.sessions = rooms[id].sessions,
         NEW pairs, pairs \subseteq RoomSession, NEW users,
         OpenAll(id, room, pairs, users)
  PROVE  \E new :
           /\ DOMAIN rooms' = DOMAIN rooms /\ Elsewhere(id)
           /\ rooms'[id].users = room.users /\ rooms'[id].mode = room.mode
           /\ rooms'[id].closeOnOwnerLeave = room.closeOnOwnerLeave
           /\ SessionsAdded(id, new)
           /\ Range(new) = pairs
           /\ gauge' = Count(users, gauge.rooms, gauge.sessions + Cardinality(DOMAIN new))
  <1>1. PICK new \in NewSessions(FreeIDs, pairs) :
          /\ rooms' = Put(rooms, id, OpenSessions(room, new))
          /\ Announce(new)
          /\ gauge' = Count(users, gauge.rooms, gauge.sessions + Cardinality(DOMAIN new))
    BY DEF OpenAll
  <1>2. /\ IsMap(new, SessionIDs, RoomSession) /\ DOMAIN new \subseteq FreeIDs
        /\ \A s \in DOMAIN new : new[s] \in pairs
        /\ \A pair \in pairs : \E s \in DOMAIN new : new[s] = pair
    <2>1. PICK free : free = FreeIDs
      OBVIOUS
    <2>2. free \subseteq SessionIDs /\ new \in NewSessions(free, pairs)
      BY <2>1, FreeIDsUnused
    <2>3. /\ IsMap(new, SessionIDs, RoomSession) /\ DOMAIN new \subseteq free
          /\ \A s \in DOMAIN new : new[s] \in pairs
          /\ \A pair \in pairs : \E s \in DOMAIN new : new[s] = pair
      BY <2>2, NewSessionsMap
    <2> QED
      BY <2>1, <2>3
  <1>3. Range(new) = pairs
    BY <1>2 DEF Range
  <1>4. DOMAIN new \cap DOMAIN room.sessions = {}
    BY <1>2, FreeIDsUnused
  <1> DEFINE r == OpenSessions(room, new)
  <1>5. /\ r.users = room.users /\ r.mode = room.mode
        /\ r.closeOnOwnerLeave = room.closeOnOwnerLeave
        /\ DOMAIN r.sessions = DOMAIN room.sessions \cup DOMAIN new
        /\ \A s \in DOMAIN room.sessions : r.sessions[s] = room.sessions[s]
        /\ \A s \in DOMAIN new : r.sessions[s] = new[s]
    BY <1>4, OpenSessionsFields
  <1> HIDE DEF r
  <1>6. /\ DOMAIN rooms' = DOMAIN rooms /\ rooms'[id] = r
        /\ \A j \in DOMAIN rooms \ {id} : rooms'[j] = rooms[j]
    BY <1>1 DEF Put, r
  <1>7. Elsewhere(id) /\ SessionsAdded(id, new)
    BY <1>1, <1>2, <1>5, <1>6 DEF Elsewhere, SessionsAdded
  <1> QED
    BY <1>1, <1>3, <1>5, <1>6, <1>7

\* A room is shown by its users alone.
LEMMA ShownByUsers ==
  ASSUME NEW id, NEW room, NEW r, r.users = room.users
  PROVE  Shown(view, id, room) = Shown(view, id, r)
  BY DEF Shown, Reachable, Members, Info

LEMMA JoinedEffect ==
  ASSUME RoomNames, IInv,
         NEW c \in Clients, NEW id \in RoomIDs, NEW name \in Names, JoinRoom(c, id, name)
  PROVE  \E new : Joined(c, id, new)
  <1> DEFINE room == WithUser(rooms[id], c, name)
             pairs == [host : Presenters(room), client : {c}]
  <1>1. /\ Receive(c) /\ Current(c) = NoRoom /\ id \in DOMAIN rooms
        /\ view' = Shown(view, id, room)
        /\ OpenAll(id, room, pairs, gauge.users + 1)
        /\ relayed' = {} /\ link' = link
    BY DEF JoinRoom
  <1>2. Newcomer(c)
    BY <1>1, InNoOther, CurrentRoomOK
  <1>3. Sound(rooms[id]) /\ c \notin Members(rooms[id])
    BY <1>1, <1>2 DEF IInv, AllSound, Newcomer
  <1>4. /\ RoomOK(room) /\ Presenters(room) = Presenters(rooms[id])
        /\ Members(room) = Members(rooms[id]) \cup {c}
    BY <1>3, WithUserOK
  <1>5. /\ DOMAIN room.users = DOMAIN rooms[id].users \cup {c}
        /\ ~room.users[c].owner /\ ~room.users[c].streaming
        /\ \A d \in DOMAIN rooms[id].users : d # c => room.users[d] = rooms[id].users[d]
        /\ room.sessions = rooms[id].sessions /\ room.mode = rooms[id].mode
        /\ room.closeOnOwnerLeave = rooms[id].closeOnOwnerLeave
    BY <1>3, WithUserFields DEF Sound
  <1> HIDE DEF room
  <1>6. pairs \subseteq RoomSession
    BY <1>4 DEF RoomSession, Presenters, Members, RoomOK, IsMap
  <1>7. PICK new :
          /\ DOMAIN rooms' = DOMAIN rooms /\ Elsewhere(id)
          /\ rooms'[id].users = room.users /\ rooms'[id].mode = room.mode
          /\ rooms'[id].closeOnOwnerLeave = room.closeOnOwnerLeave
          /\ SessionsAdded(id, new)
          /\ Range(new) = pairs
          /\ gauge' = Count(gauge.users + 1, gauge.rooms,
                            gauge.sessions + Cardinality(DOMAIN new))
    BY <1>1, <1>4, <1>5, <1>6, OpenAllEffect
  <1>8. view' = Shown(view, id, rooms'[id])
    BY <1>1, <1>7, ShownByUsers
  <1>9. Succeeded(id) /\ SameSetup(id)
    BY <1>1, <1>5, <1>7, <1>8 DEF Succeeded, SameSetup
  <1>10. Joined(c, id, new)
    BY <1>1, <1>2, <1>3, <1>4, <1>5, <1>7, <1>9 DEF Joined, Members
  <1> QED
    BY <1>10

LEMMA SharedEffect ==
  ASSUME RoomNames, IInv, NEW c \in Clients, StartShare(c)
  PROVE  connected[c] \in RoomIDs /\ \E new : Shared(c, connected[c], new)
  <1> DEFINE id == connected[c]
             room == SetStreaming(rooms[id], c, TRUE)
             pairs == [host : {c}, client : Members(room) \ {c}]
  <1>1. /\ InRoom(c)
        /\ OpenAll(id, room, pairs, gauge.users)
        /\ view' = Shown(view, id, room)
        /\ relayed' = {} /\ link' = link
    BY DEF StartShare
  <1>2. id \in DOMAIN rooms /\ id \in RoomIDs /\ Sound(rooms[id]) /\ c \in Members(rooms[id])
    BY <1>1, CurrentRoomOK DEF InRoom
  <1>3. /\ RoomOK(room) /\ Presenters(room) = Presenters(rooms[id]) \cup {c}
        /\ Members(room) = Members(rooms[id])
    BY <1>2, StreamingOK
  <1>4. /\ \A d \in DOMAIN rooms[id].users : room.users[d].owner = rooms[id].users[d].owner
        /\ room.sessions = rooms[id].sessions /\ room.mode = rooms[id].mode
        /\ room.closeOnOwnerLeave = rooms[id].closeOnOwnerLeave
    BY <1>2, StreamingFields DEF Sound
  <1> HIDE DEF room
  <1>5. pairs \subseteq RoomSession
    BY <1>3 DEF RoomSession, Members, RoomOK, IsMap
  <1>6. pairs = [host : {c}, client : Members(rooms[id]) \ {c}]
    BY <1>3
  <1> HIDE DEF pairs, id
  <1>7. PICK new :
          /\ DOMAIN rooms' = DOMAIN rooms /\ Elsewhere(id)
          /\ rooms'[id].users = room.users /\ rooms'[id].mode = room.mode
          /\ rooms'[id].closeOnOwnerLeave = room.closeOnOwnerLeave
          /\ SessionsAdded(id, new)
          /\ Range(new) = pairs
          /\ gauge' = Count(gauge.users, gauge.rooms, gauge.sessions + Cardinality(DOMAIN new))
    BY <1>1, <1>2, <1>3, <1>4, <1>5, OpenAllEffect
  <1>8. view' = Shown(view, id, rooms'[id])
    BY <1>1, <1>7, ShownByUsers
  <1>9. Succeeded(id) /\ SameSetup(id) /\ SameCompany(id)
    BY <1>1, <1>2, <1>3, <1>4, <1>7, <1>8 DEF Succeeded, SameSetup, SameCompany, Members
  <1>10. Presenters(rooms'[id]) = Presenters(rooms[id]) \cup {c}
    BY <1>3, <1>7 DEF Presenters, Members
  <1>11. Shared(c, id, new)
    BY <1>6, <1>2, <1>7, <1>9, <1>10 DEF Shared
  <1> QED
    BY <1>2, <1>11 DEF id

LEMMA StoppedEffect ==
  ASSUME RoomNames, IInv, NEW c \in Clients, StopShare(c)
  PROVE  connected[c] \in RoomIDs /\ Stopped(c, connected[c])
  <1> DEFINE id == connected[c]
             ended == HostedBy(rooms[id], c)
             q == SetStreaming(rooms[id], c, FALSE)
             r == CloseSessions(q, ended)
  <1>1. /\ InRoom(c)
        /\ rooms' = Put(rooms, id, r)
        /\ gauge' = Count(gauge.users, gauge.rooms, gauge.sessions - Cardinality(ended))
        /\ EndShares(rooms[id], ended, {})
        /\ view' = Shown(view, id, r)
        /\ relayed' = {} /\ link' = link
    BY DEF StopShare
  <1>2. id \in DOMAIN rooms /\ id \in RoomIDs /\ Sound(rooms[id]) /\ c \in Members(rooms[id])
    BY <1>1, CurrentRoomOK DEF InRoom
  <1>3. RoomOK(rooms[id]) /\ FALSE \in BOOLEAN
    BY <1>2 DEF Sound
  <1>4. /\ RoomOK(q) /\ Presenters(q) = Presenters(rooms[id]) \ {c}
        /\ Members(q) = Members(rooms[id])
    BY <1>2, <1>3, SetStreamingFields, Zenon
  <1>5. /\ \A d \in DOMAIN rooms[id].users : q.users[d].owner = rooms[id].users[d].owner
        /\ q.sessions = rooms[id].sessions /\ q.mode = rooms[id].mode
        /\ q.closeOnOwnerLeave = rooms[id].closeOnOwnerLeave
    BY <1>2, <1>3, StreamingFields
  <1> HIDE DEF q
  <1>6. /\ r.users = q.users /\ r.mode = q.mode /\ r.closeOnOwnerLeave = q.closeOnOwnerLeave
        /\ DOMAIN r.sessions = DOMAIN q.sessions \ ended
        /\ \A s \in DOMAIN r.sessions : r.sessions[s] = q.sessions[s]
    BY <1>4, CloseSessionsFields
  <1> HIDE DEF r, id
  <1>7. /\ DOMAIN rooms' = DOMAIN rooms /\ rooms'[id] = r
        /\ \A j \in DOMAIN rooms \ {id} : rooms'[j] = rooms[j]
    BY <1>1, <1>2 DEF Put
  <1>8. Succeeded(id) /\ SameSetup(id) /\ SameCompany(id)
    <2>1. Succeeded(id)
      BY <1>1, <1>2, <1>7 DEF Succeeded, Elsewhere
    <2>2. SameSetup(id)
      BY <1>5, <1>6, <1>7 DEF SameSetup
    <2>3. SameCompany(id)
      BY <1>4, <1>5, <1>6, <1>7 DEF SameCompany, Members
    <2> QED
      BY <2>1, <2>2, <2>3
  <1>9. Presenters(rooms'[id]) = Presenters(rooms[id]) \ {c}
    BY <1>4, <1>6, <1>7 DEF Presenters, Members
  <1>10. SessionsEnded(id, ended)
    BY <1>5, <1>6, <1>7 DEF SessionsEnded, HostedBy
  <1> QED
    BY <1>1, <1>2, <1>8, <1>9, <1>10 DEF Stopped, id

LEMMA RenamedEffect ==
  ASSUME RoomNames, IInv, NEW c \in Clients, NEW name \in Names, Name(c, name)
  PROVE  connected[c] \in RoomIDs /\ Renamed(connected[c])
  <1> DEFINE id == connected[c]
             r == Rename(rooms[id], c, name)
  <1>1. /\ InRoom(c)
        /\ rooms' = Put(rooms, id, r)
        /\ view' = Shown(view, id, r)
        /\ relayed' = {} /\ gauge' = gauge /\ announced' = announced /\ link' = link
    BY DEF Name
  <1>2. id \in DOMAIN rooms /\ id \in RoomIDs /\ Sound(rooms[id]) /\ c \in Members(rooms[id])
    BY <1>1, CurrentRoomOK DEF InRoom
  <1>3. /\ DOMAIN r.users = DOMAIN rooms[id].users
        /\ \A d \in DOMAIN rooms[id].users :
             /\ r.users[d].owner = rooms[id].users[d].owner
             /\ r.users[d].streaming = rooms[id].users[d].streaming
        /\ r.sessions = rooms[id].sessions /\ r.mode = rooms[id].mode
        /\ r.closeOnOwnerLeave = rooms[id].closeOnOwnerLeave
    BY <1>2, RenameFields DEF Sound
  <1> HIDE DEF r
  <1>4. /\ DOMAIN rooms' = DOMAIN rooms /\ rooms'[id] = r
        /\ \A j \in DOMAIN rooms \ {id} : rooms'[j] = rooms[j]
    BY <1>1, <1>2 DEF Put
  <1>5. Succeeded(id) /\ SameSetup(id) /\ SameCompany(id)
    BY <1>1, <1>2, <1>3, <1>4 DEF Succeeded, Elsewhere, SameSetup, SameCompany, Members
  <1>6. Presenters(rooms'[id]) = Presenters(rooms[id])
    BY <1>3, <1>4 DEF Presenters, Members
  <1> QED
    BY <1>1, <1>2, <1>3, <1>4, <1>5, <1>6 DEF Renamed

-----------------------------------------------------------------------------
\* Every step passes on what it got or has one of the effects.
LEMMA StepEffect ==
  ASSUME RoomNames, IInv, RoomsAttended, [Next]_vars
  PROVE  Passed \/ \E c \in Clients : Effect(c)
  <1>1. ASSUME NEW c \in Clients, Receive(c), Disconnect(c, Unchanged(c)) PROVE Effect(c)
    BY <1>1, UnchangedLeftMore, DisconnectEffect
  <1>2. ASSUME NEW c \in Clients, NEW id \in RoomIDs, NEW name \in Names,
               JoinFails(c, id, name)
        PROVE  Effect(c)
    <2> DEFINE room == WithUser(rooms[id], c, name)
               s == Left(id, Put(rooms, id, room), gauge.users + 1, Shown(view, id, room))
    <2>1. Receive(c) /\ Current(c) = NoRoom /\ id \in DOMAIN rooms /\ Disconnect(c, s)
      BY <1>2 DEF JoinFails
    <2>2. LeftMore(c, s)
      BY <2>1, JoinFailsLeftMore
    <2> HIDE DEF s
    <2> QED
      BY <2>1, <2>2, DisconnectEffect
  <1>3. ASSUME NEW c \in Clients, ShareFails(c) PROVE Effect(c)
    <2> DEFINE id == connected[c]
               s == Left(id, Put(rooms, id, SetStreaming(rooms[id], c, TRUE)),
                         gauge.users, view)
    <2>1. InRoom(c) /\ Disconnect(c, s)
      BY <1>3 DEF ShareFails
    <2>2. LeftMore(c, s)
      BY <2>1, ShareFailsLeftMore
    <2> HIDE DEF s
    <2> QED
      BY <2>1, <2>2, DisconnectEffect
  <1>4. ASSUME NEW c \in Clients, NEW id \in RoomIDs, NEW name \in Names, Join(c, id, name)
        PROVE  Effect(c)
    BY <1>1, <1>2, <1>4, JoinedEffect DEF Join, JoinRefused, Effect
  <1>5. ASSUME NEW c \in Clients, NEW id \in RoomIDs, NEW mode \in CreateModes,
               NEW close \in BOOLEAN, NEW name \in Names, Create(c, id, mode, close, name)
        PROVE  Effect(c)
    BY <1>1, <1>4, <1>5, CreatedEffect DEF Create, CreateRefused, Effect
  <1>6. ASSUME NEW c \in Clients, NEW sid \in SessionIDs, RelayDenied(c, sid) PROVE Effect(c)
    BY <1>1, <1>6 DEF RelayDenied, InRoom
  <1>7. ASSUME NEW c \in Clients, Connected(c) \/ Disconnected(c) \/ NotInRoom(c) \/ Break(c)
        PROVE  Effect(c)
    BY <1>1, <1>7 DEF Disconnected, NotInRoom, Effect
  <1>8. ASSUME NEW c \in Clients, StartShare(c) \/ StopShare(c) PROVE Effect(c)
    BY <1>8, SharedEffect, StoppedEffect DEF Effect
  <1>9. ASSUME NEW c \in Clients, NEW name \in Names, Name(c, name) PROVE Effect(c)
    BY <1>9, RenamedEffect DEF Effect
  <1>10. ASSUME NEW c \in Clients, NEW sid \in SessionIDs,
                RelayFromHost(c, sid) \/ RelayFromClient(c, sid) \/ RelayUnknown(c, sid)
         PROVE  Passed
    BY <1>10 DEF Passed, RelayFromHost, RelayFromClient, RelayUnknown
  <1>11. ASSUME NEW c \in Clients, Ignore(c) PROVE Passed
    BY <1>11 DEF Passed, Ignore
  <1>12. ASSUME UNCHANGED vars PROVE Passed
    BY <1>12 DEF Passed, vars
  <1>13. ASSUME NEW c \in Clients, Handle(c) PROVE Passed \/ Effect(c)
    BY <1>3, <1>4, <1>5, <1>6, <1>7, <1>8, <1>9, <1>10, <1>11, <1>13 DEF Handle
  <1> QED
    BY <1>7, <1>12, <1>13 DEF Next
-----------------------------------------------------------------------------
(* Rooms stay attended. *)

AttendedInv == IInv /\ RoomsAttended

\* What a step does to the owners of the room id: it keeps them if the room is to
\* close with its owner.
LEMMA OwnersStep ==
  ASSUME RoomsAttended, NEW c, NEW id, id \in DOMAIN rooms,
         \/ \E new : Joined(c, id, new) \/ Shared(c, id, new)
         \/ Stopped(c, id) \/ Renamed(id) \/ Departed(c, id)
  PROVE  /\ DOMAIN rooms' = DOMAIN rooms /\ Elsewhere(id) /\ SameSetup(id)
         /\ Members(rooms'[id]) # {}
         /\ rooms[id].closeOnOwnerLeave =>
              \A d \in Members(rooms[id]) :
                rooms[id].users[d].owner =>
                  d \in Members(rooms'[id]) /\ rooms'[id].users[d].owner
  <1>1. Members(rooms[id]) # {}
    BY DEF RoomsAttended
  <1>2. ASSUME NEW new, Joined(c, id, new)
        PROVE  /\ Members(rooms'[id]) = Members(rooms[id]) \cup {c}
               /\ ~rooms'[id].users[c].owner
               /\ \A d \in Members(rooms[id]) : rooms'[id].users[d] = rooms[id].users[d]
               /\ DOMAIN rooms' = DOMAIN rooms /\ Elsewhere(id) /\ SameSetup(id)
    BY <1>2 DEF Joined, Succeeded
  <1>3. ASSUME (\E new : Shared(c, id, new)) \/ Stopped(c, id) \/ Renamed(id)
        PROVE  SameCompany(id) /\ DOMAIN rooms' = DOMAIN rooms /\ Elsewhere(id) /\ SameSetup(id)
    BY <1>3 DEF Shared, Stopped, Renamed, Succeeded
  <1>4. ASSUME Departed(c, id)
        PROVE  /\ DOMAIN rooms' = DOMAIN rooms /\ Elsewhere(id) /\ SameSetup(id)
               /\ Members(rooms'[id]) = Members(rooms[id]) \ {c} /\ Members(rooms'[id]) # {}
               /\ \A d \in Members(rooms'[id]) : rooms'[id].users[d] = rooms[id].users[d]
               /\ c \in Members(rooms[id]) =>
                    ~(rooms[id].users[c].owner /\ rooms[id].closeOnOwnerLeave)
    BY <1>4 DEF Departed
  <1>5. CASE \E new : Joined(c, id, new)
    BY <1>1, <1>2, <1>5
  <1>6. CASE (\E new : Shared(c, id, new)) \/ Stopped(c, id) \/ Renamed(id)
    BY <1>1, <1>3, <1>6 DEF SameCompany
  <1>7. CASE Departed(c, id)
    BY <1>4, <1>7
  <1> QED
    BY <1>5, <1>6, <1>7

\* Rooms that do not change stay attended.
LEMMA SameRoomsAttended ==
  ASSUME RoomsAttended, rooms' = rooms PROVE RoomsAttended'
  BY DEF RoomsAttended

LEMMA AttendedStep ==
  ASSUME RoomsAttended, NEW c, Effect(c)
  PROVE  RoomsAttended'
  <1>1. CASE Connected(c) \/ Break(c) \/ Dropped(c)
    BY <1>1, SameRoomsAttended DEF Connected, Break, Dropped
  <1>2. ASSUME NEW id \in RoomIDs, Created(c, id) PROVE RoomsAttended'
    <2>1. /\ DOMAIN rooms' = DOMAIN rooms \cup {id} /\ id \notin DOMAIN rooms
          /\ \A j \in DOMAIN rooms : rooms'[j] = rooms[j]
          /\ Members(rooms'[id]) = {c} /\ rooms'[id].users[c].owner
      BY <1>2 DEF Created, Succeeded, Elsewhere
    <2> QED
      BY <2>1 DEF RoomsAttended
  <1>3. ASSUME NEW id, id \in DOMAIN rooms,
               \/ \E new : Joined(c, id, new) \/ Shared(c, id, new)
               \/ Stopped(c, id) \/ Renamed(id) \/ Departed(c, id)
        PROVE  RoomsAttended'
    <2>1. /\ DOMAIN rooms' = DOMAIN rooms /\ Elsewhere(id) /\ SameSetup(id)
          /\ Members(rooms'[id]) # {}
          /\ rooms[id].closeOnOwnerLeave =>
               \A d \in Members(rooms[id]) :
                 rooms[id].users[d].owner =>
                   d \in Members(rooms'[id]) /\ rooms'[id].users[d].owner
      BY <1>3, OwnersStep
    <2>2. \A j \in DOMAIN rooms' \ {id} : rooms'[j] = rooms[j] /\ j \in DOMAIN rooms
      BY <2>1 DEF Elsewhere
    <2> QED
      BY <1>3, <2>1, <2>2 DEF RoomsAttended, SameSetup
  <1>4. ASSUME NEW id \in RoomIDs, Closed(c, id) PROVE RoomsAttended'
    <2>1. \A j \in DOMAIN rooms' : j \in DOMAIN rooms /\ rooms'[j] = rooms[j]
      BY <1>4 DEF Closed, Elsewhere
    <2> QED
      BY <2>1 DEF RoomsAttended
  <1>5. ASSUME NEW id, \/ \E new : Joined(c, id, new) \/ Shared(c, id, new)
                       \/ Stopped(c, id) \/ Renamed(id) \/ Departed(c, id)
        PROVE  id \in DOMAIN rooms
    BY <1>5 DEF Joined, Shared, Stopped, Renamed, Departed
  <1> QED
    BY <1>1, <1>2, <1>3, <1>4, <1>5 DEF Effect

\* The inductive invariant of RoomsProofs with the attendance of the rooms.
LEMMA AttendedInvariance ==
  ASSUME RoomNames PROVE Spec => []AttendedInv
  <1>1. Init => RoomsAttended
    BY DEF Init, EmptyMap, RoomsAttended
  <1>2. IInv /\ RoomsAttended /\ [Next]_vars => RoomsAttended'
    <2> SUFFICES ASSUME IInv, RoomsAttended, [Next]_vars
                 PROVE  RoomsAttended'
      OBVIOUS
    <2>1. CASE Passed
      BY <2>1, SameRoomsAttended DEF Passed
    <2>2. CASE \E c \in Clients : Effect(c)
      BY <2>2, AttendedStep
    <2> QED
      BY <2>1, <2>2, StepEffect
  <1> QED
    BY <1>1, <1>2, Invariance, PTL DEF Spec, AttendedInv

\* A room is closed with its last member, and one that is to close with its
\* owner still has the owner in it.
THEOREM RoomsStayAttended ==
  ASSUME RoomNames PROVE Spec => []RoomsAttended
  <1>1. AttendedInv => RoomsAttended
    BY DEF AttendedInv
  <1> QED
    BY <1>1, AttendedInvariance, PTL
-----------------------------------------------------------------------------
(* The gauges. *)

UserPlaces(rms) == UNION {{id} \X Members(rms[id]) : id \in DOMAIN rms}

AllSessions(rms) == UNION {DOMAIN rms[id].sessions : id \in DOMAIN rms}

\* The number of room names is not bounded, that of the rooms at a time is.
GaugesInv == IsFiniteSet(DOMAIN rooms) /\ GaugesMatch

\* Adding elements to a finite set, or taking some of its own away.
LEMMA CardinalityStep ==
  ASSUME NEW S, IsFiniteSet(S), NEW T, IsFiniteSet(T)
  PROVE  /\ Cardinality(S) \in Int /\ Cardinality(T) \in Int
         /\ S \cap T = {} => Cardinality(S \cup T) = Cardinality(S) + Cardinality(T)
         /\ T \subseteq S => Cardinality(S \ T) = Cardinality(S) - Cardinality(T)
  <1>1. Cardinality(S) \in Int /\ Cardinality(T) \in Int
    BY FS_CardinalityType
  <1>2. ASSUME S \cap T = {} PROVE Cardinality(S \cup T) = Cardinality(S) + Cardinality(T)
    <2>1. Cardinality(S \cap T) = 0
      BY <1>2, FS_EmptySet
    <2>2. Cardinality(S \cup T) = Cardinality(S) + Cardinality(T) - Cardinality(S \cap T)
      BY FS_Union
    <2> QED
      BY <1>1, <2>1, <2>2
  <1>3. ASSUME T \subseteq S PROVE Cardinality(S \ T) = Cardinality(S) - Cardinality(T)
    <2>1. S \cap T = T
      BY <1>3
    <2> QED
      BY <2>1, FS_Difference
  <1> QED
    BY <1>1, <1>2, <1>3

\* Which users and sessions are counted.
LEMMA CountedElements ==
  ASSUME NEW rms
  PROVE  /\ \A j, d : <<j, d>> \in UserPlaces(rms) <=> j \in DOMAIN rms /\ d \in Members(rms[j])
         /\ \A x \in UserPlaces(rms) : \E j, d : x = <<j, d>>
         /\ \A s : s \in AllSessions(rms) <=>
                     \E j \in DOMAIN rms : s \in DOMAIN rms[j].sessions
  BY DEF UserPlaces, AllSessions

\* What is counted is finite, as the connections and the xids are.
LEMMA CountedFinite ==
  ASSUME IInv, IsFiniteSet(DOMAIN rooms)
  PROVE  IsFiniteSet(UserPlaces(rooms)) /\ IsFiniteSet(AllSessions(rooms))
  <1>1. \A id \in DOMAIN rooms : /\ Members(rooms[id]) \subseteq Clients
                                 /\ DOMAIN rooms[id].sessions \subseteq SessionIDs
    BY DEF IInv, TypeOK, RoomOK, IsMap, Members
  <1>2. PICK N : N = DOMAIN rooms
    OBVIOUS
  <1>3. ASSUME NEW x \in UserPlaces(rooms) PROVE x \in N \X Clients
    <2>1. PICK k, d : x = <<k, d>>
      BY CountedElements
    <2>2. k \in N /\ d \in Clients
      BY <1>1, <1>2, <1>3, <2>1, CountedElements
    <2> QED
      BY <2>1, <2>2
  <1>4. IsFiniteSet(N \X Clients)
    BY <1>2, ConfigAssumption, FS_Product
  <1>5. IsFiniteSet(UserPlaces(rooms))
    <2> DEFINE P == N \X Clients
    <2>1. IsFiniteSet(P) /\ UserPlaces(rooms) \in SUBSET P
      BY <1>3, <1>4
    <2> HIDE DEF P
    <2> QED
      BY <2>1, FS_Subset
  <1>6. AllSessions(rooms) \in SUBSET SessionIDs
    BY <1>1 DEF AllSessions
  <1> QED
    BY <1>5, <1>6, ConfigAssumption, FS_Subset

\* The users counted after a step.
LEMMA PlacesStep ==
  ASSUME NEW c, NEW id
  PROVE  /\ Created(c, id) \/ (\E new : Joined(c, id, new)) =>
              /\ UserPlaces(rooms') = UserPlaces(rooms) \cup {<<id, c>>}
              /\ <<id, c>> \notin UserPlaces(rooms)
         /\ (\E new : Shared(c, id, new)) \/ Stopped(c, id) \/ Renamed(id) =>
              UserPlaces(rooms') = UserPlaces(rooms)
         /\ Departed(c, id) => UserPlaces(rooms') = UserPlaces(rooms) \ {<<id, c>>}
         /\ Closed(c, id) =>
              /\ UserPlaces(rooms') = UserPlaces(rooms) \ ({id} \X Members(rooms[id]))
              /\ {id} \X Members(rooms[id]) \subseteq UserPlaces(rooms)
  <1>1. ASSUME Created(c, id) \/ (\E new : Joined(c, id, new))
        PROVE  /\ UserPlaces(rooms') = UserPlaces(rooms) \cup {<<id, c>>}
               /\ <<id, c>> \notin UserPlaces(rooms)
    <2>1. /\ \A j \in DOMAIN rooms : c \notin Members(rooms[j])
          /\ DOMAIN rooms' = DOMAIN rooms \cup {id}
          /\ \A j \in DOMAIN rooms \ {id} : rooms'[j] = rooms[j]
          /\ \A d : d \in Members(rooms'[id]) <=>
                      d = c \/ (id \in DOMAIN rooms /\ d \in Members(rooms[id]))
      BY <1>1 DEF Created, Joined, Succeeded, Newcomer, Elsewhere
    <2>2. ASSUME NEW j, NEW d
          PROVE  <<j, d>> \in UserPlaces(rooms') <=>
                   <<j, d>> \in UserPlaces(rooms) \/ (j = id /\ d = c)
      <3>1. <<j, d>> \in UserPlaces(rooms') <=> j \in DOMAIN rooms' /\ d \in Members(rooms'[j])
        BY CountedElements
      <3>2. <<j, d>> \in UserPlaces(rooms) <=> j \in DOMAIN rooms /\ d \in Members(rooms[j])
        BY CountedElements
      <3>3. CASE j = id
        BY <2>1, <3>1, <3>2, <3>3
      <3>4. CASE j # id
        BY <2>1, <3>1, <3>2, <3>4
      <3> QED
        BY <3>3, <3>4
    <2>3. <<id, c>> \notin UserPlaces(rooms)
      BY <2>1, CountedElements
    <2> QED
      BY <2>2, <2>3, CountedElements
  <1>2. ASSUME (\E new : Shared(c, id, new)) \/ Stopped(c, id) \/ Renamed(id)
        PROVE  UserPlaces(rooms') = UserPlaces(rooms)
    <2>1. /\ DOMAIN rooms' = DOMAIN rooms
          /\ \A j \in DOMAIN rooms : Members(rooms'[j]) = Members(rooms[j])
      BY <1>2 DEF Shared, Stopped, Renamed, Succeeded, SameCompany, Elsewhere
    <2> QED
      BY <2>1 DEF UserPlaces
  <1>3. ASSUME Departed(c, id)
        PROVE  UserPlaces(rooms') = UserPlaces(rooms) \ {<<id, c>>}
    <2>1. /\ id \in DOMAIN rooms /\ DOMAIN rooms' = DOMAIN rooms
          /\ \A j \in DOMAIN rooms \ {id} : rooms'[j] = rooms[j]
          /\ Members(rooms'[id]) = Members(rooms[id]) \ {c}
      BY <1>3 DEF Departed, Elsewhere
    <2>2. \A j, d : <<j, d>> \in UserPlaces(rooms') <=>
                      <<j, d>> \in UserPlaces(rooms) /\ ~(j = id /\ d = c)
      BY <2>1, CountedElements
    <2> QED
      BY <2>2, CountedElements
  <1>4. ASSUME Closed(c, id)
        PROVE  /\ UserPlaces(rooms') = UserPlaces(rooms) \ ({id} \X Members(rooms[id]))
               /\ {id} \X Members(rooms[id]) \subseteq UserPlaces(rooms)
    <2>1. /\ id \in DOMAIN rooms /\ DOMAIN rooms' = DOMAIN rooms \ {id}
          /\ \A j \in DOMAIN rooms \ {id} : rooms'[j] = rooms[j]
      BY <1>4 DEF Closed, Elsewhere
    <2>2. \A j, d : <<j, d>> \in UserPlaces(rooms') <=> <<j, d>> \in UserPlaces(rooms) /\ j # id
      BY <2>1, CountedElements
    <2> QED
      BY <2>1, <2>2, CountedElements
  <1> QED
    BY <1>1, <1>2, <1>3, <1>4

\* The sessions counted after a step.
LEMMA AllSessionsStep ==
  ASSUME Disjoint(rooms), NEW c, NEW id
  PROVE  /\ \A new : Joined(c, id, new) \/ Shared(c, id, new) =>
              /\ AllSessions(rooms') = AllSessions(rooms) \cup DOMAIN new
              /\ AllSessions(rooms) \cap DOMAIN new = {}
         /\ Created(c, id) \/ Renamed(id) => AllSessions(rooms') = AllSessions(rooms)
         /\ \A ids : id \in DOMAIN rooms /\ DOMAIN rooms' = DOMAIN rooms
                       /\ Elsewhere(id) /\ SessionsEnded(id, ids) =>
              /\ AllSessions(rooms') = AllSessions(rooms) \ ids
              /\ ids \subseteq AllSessions(rooms)
         /\ Closed(c, id) =>
              /\ AllSessions(rooms') = AllSessions(rooms) \ DOMAIN rooms[id].sessions
              /\ DOMAIN rooms[id].sessions \subseteq AllSessions(rooms)
  <1>1. ASSUME NEW new, Joined(c, id, new) \/ Shared(c, id, new)
        PROVE  /\ AllSessions(rooms') = AllSessions(rooms) \cup DOMAIN new
               /\ AllSessions(rooms) \cap DOMAIN new = {}
    <2>1. /\ id \in DOMAIN rooms /\ DOMAIN rooms' = DOMAIN rooms
          /\ \A j \in DOMAIN rooms \ {id} : rooms'[j] = rooms[j]
          /\ DOMAIN rooms'[id].sessions = DOMAIN rooms[id].sessions \cup DOMAIN new
          /\ DOMAIN new \subseteq FreeIDs
      BY <1>1 DEF Joined, Shared, Succeeded, Elsewhere, SessionsAdded
    <2>2. AllSessions(rooms') = AllSessions(rooms) \cup DOMAIN new
      BY <2>1 DEF AllSessions
    <2> QED
      BY <2>1, <2>2, FreeIDsUnused, CountedElements
  <1>2. ASSUME Created(c, id) \/ Renamed(id) PROVE AllSessions(rooms') = AllSessions(rooms)
    <2>1. /\ DOMAIN rooms' = DOMAIN rooms \cup {id}
          /\ \A j \in DOMAIN rooms \ {id} : rooms'[j] = rooms[j]
      BY <1>2 DEF Created, Renamed, Succeeded, Elsewhere
    <2>2. CASE id \in DOMAIN rooms /\ DOMAIN rooms'[id].sessions = DOMAIN rooms[id].sessions
      BY <2>1, <2>2 DEF AllSessions
    <2>3. CASE id \notin DOMAIN rooms /\ DOMAIN rooms'[id].sessions = {}
      <3>1. ASSUME NEW s, NEW j \in DOMAIN rooms', s \in DOMAIN rooms'[j].sessions
            PROVE  j \in DOMAIN rooms /\ s \in DOMAIN rooms[j].sessions
        BY <2>1, <2>3, <3>1
      <3>2. ASSUME NEW s, NEW j \in DOMAIN rooms, s \in DOMAIN rooms[j].sessions
            PROVE  j \in DOMAIN rooms' /\ s \in DOMAIN rooms'[j].sessions
        BY <2>1, <2>3, <3>2
      <3> QED
        BY <3>1, <3>2 DEF AllSessions
    <2> QED
      BY <1>2, <2>2, <2>3 DEF Created, Renamed
  <1>3. ASSUME NEW ids, id \in DOMAIN rooms, DOMAIN rooms' = DOMAIN rooms, Elsewhere(id),
               SessionsEnded(id, ids)
        PROVE  /\ AllSessions(rooms') = AllSessions(rooms) \ ids
               /\ ids \subseteq AllSessions(rooms)
    <2>1. /\ \A j \in DOMAIN rooms \ {id} : rooms'[j] = rooms[j]
          /\ DOMAIN rooms'[id].sessions = DOMAIN rooms[id].sessions \ ids
          /\ ids \subseteq DOMAIN rooms[id].sessions
      BY <1>3 DEF Elsewhere, SessionsEnded
    <2>2. \A j \in DOMAIN rooms \ {id} : DOMAIN rooms[j].sessions \cap ids = {}
      BY <1>3, <2>1 DEF Disjoint
    <2> QED
      BY <1>3, <2>1, <2>2, CountedElements
  <1>4. ASSUME Closed(c, id)
        PROVE  /\ AllSessions(rooms') = AllSessions(rooms) \ DOMAIN rooms[id].sessions
               /\ DOMAIN rooms[id].sessions \subseteq AllSessions(rooms)
    <2>1. /\ id \in DOMAIN rooms /\ DOMAIN rooms' = DOMAIN rooms \ {id}
          /\ \A j \in DOMAIN rooms \ {id} : rooms'[j] = rooms[j]
      BY <1>4 DEF Closed, Elsewhere
    <2>2. \A j \in DOMAIN rooms \ {id} : DOMAIN rooms[j].sessions \cap DOMAIN rooms[id].sessions = {}
      BY <2>1 DEF Disjoint
    <2> QED
      BY <2>1, <2>2, CountedElements
  <1> QED
    BY <1>1, <1>2, <1>3, <1>4
\* The three numbers that the gauges are to show.
Counted(rms) ==
  Count(Cardinality(UserPlaces(rms)), Cardinality(DOMAIN rms), Cardinality(AllSessions(rms)))

LEMMA GaugesAreCounts ==
  ASSUME IInv PROVE GaugesMatch <=> gauge = Counted(rooms)
  <1>1. GaugesMatch <=> /\ gauge.rooms = Cardinality(DOMAIN rooms)
                        /\ gauge.users = Cardinality(UserPlaces(rooms))
                        /\ gauge.sessions = Cardinality(AllSessions(rooms))
    BY DEF GaugesMatch, UserPlaces, AllSessions
  <1>2. gauge \in [users : Int, rooms : Int, sessions : Int]
    BY DEF IInv, TypeOK, Gauges
  <1> QED
    BY <1>1, <1>2 DEF Counted, Count

\* A successful handler counts whom it lets in and the sessions it opens or ends.
LEMMA SucceededGauges ==
  ASSUME IInv, GaugesInv, NEW c \in Clients, NEW id \in RoomIDs,
         \/ Created(c, id) \/ Stopped(c, id) \/ Renamed(id)
         \/ \E new : Joined(c, id, new) \/ Shared(c, id, new)
  PROVE  IsFiniteSet(DOMAIN rooms') /\ gauge' = Counted(rooms')
  <1>1. /\ IsFiniteSet(DOMAIN rooms) /\ gauge = Counted(rooms)
        /\ IsFiniteSet(UserPlaces(rooms)) /\ IsFiniteSet(AllSessions(rooms))
        /\ Disjoint(rooms)
    BY GaugesAreCounts, CountedFinite DEF GaugesInv, IInv
  <1>2. /\ gauge.users = Cardinality(UserPlaces(rooms))
        /\ gauge.rooms = Cardinality(DOMAIN rooms)
        /\ gauge.sessions = Cardinality(AllSessions(rooms))
    BY <1>1 DEF Counted, Count
  <1>3. <<id, c>> \notin UserPlaces(rooms) =>
          Cardinality(UserPlaces(rooms) \cup {<<id, c>>}) = gauge.users + 1
    <2> DEFINE S == UserPlaces(rooms)
               x == <<id, c>>
    <2>1. IsFiniteSet(S) /\ gauge.users = Cardinality(S)
      BY <1>1, <1>2
    <2> HIDE DEF S, x
    <2>2. x \notin S => Cardinality(S \cup {x}) = Cardinality(S) + 1
      BY <2>1, FS_AddElement
    <2>3. x \notin S => Cardinality(S \cup {x}) = gauge.users + 1
      BY <2>1, <2>2
    <2> QED
      BY <2>3 DEF S, x
  <1>4. ASSUME Created(c, id) PROVE IsFiniteSet(DOMAIN rooms') /\ gauge' = Counted(rooms')
    <2>1. /\ DOMAIN rooms' = DOMAIN rooms \cup {id} /\ id \notin DOMAIN rooms
          /\ gauge' = Count(gauge.users + 1, gauge.rooms + 1, gauge.sessions)
      BY <1>4 DEF Created, Succeeded
    <2>2. IsFiniteSet(DOMAIN rooms') /\ Cardinality(DOMAIN rooms') = gauge.rooms + 1
      BY <1>1, <1>2, <2>1, FS_AddElement
    <2>3. Cardinality(UserPlaces(rooms')) = gauge.users + 1
      BY <1>3, <1>4, PlacesStep
    <2>4. AllSessions(rooms') = AllSessions(rooms)
      BY <1>1, <1>4, AllSessionsStep
    <2> QED
      BY <1>2, <2>1, <2>2, <2>3, <2>4 DEF Counted
  <1>5. ASSUME NEW new, SessionsAdded(id, new)
        PROVE  IsFiniteSet(DOMAIN new)
    BY <1>5, FreeIDsUnused, ConfigAssumption, FS_Subset DEF SessionsAdded
  <1>6. ASSUME NEW new, Joined(c, id, new) \/ Shared(c, id, new)
        PROVE  Cardinality(AllSessions(rooms')) = gauge.sessions + Cardinality(DOMAIN new)
    <2>1. IsFiniteSet(DOMAIN new)
      BY <1>5, <1>6 DEF Joined, Shared
    <2>2. PICK ids : ids = DOMAIN new
      OBVIOUS
    <2>3. AllSessions(rooms') = AllSessions(rooms) \cup ids /\ AllSessions(rooms) \cap ids = {}
      BY <1>1, <1>6, <2>2, AllSessionsStep
    <2>4. Cardinality(AllSessions(rooms) \cup ids) = Cardinality(AllSessions(rooms)) + Cardinality(ids)
      BY <1>1, <2>1, <2>2, <2>3, CardinalityStep
    <2> QED
      BY <1>2, <2>2, <2>3, <2>4
  <1>7. ASSUME NEW new, Joined(c, id, new)
        PROVE  IsFiniteSet(DOMAIN rooms') /\ gauge' = Counted(rooms')
    <2>1. /\ DOMAIN rooms' = DOMAIN rooms
          /\ gauge' = Count(gauge.users + 1, gauge.rooms,
                            gauge.sessions + Cardinality(DOMAIN new))
      BY <1>7 DEF Joined, Succeeded
    <2>2. Cardinality(UserPlaces(rooms')) = gauge.users + 1
      BY <1>3, <1>7, PlacesStep
    <2> QED
      BY <1>1, <1>2, <1>6, <1>7, <2>1, <2>2 DEF Counted
  <1>8. ASSUME NEW new, Shared(c, id, new)
        PROVE  IsFiniteSet(DOMAIN rooms') /\ gauge' = Counted(rooms')
    <2>1. /\ DOMAIN rooms' = DOMAIN rooms
          /\ gauge' = Count(gauge.users, gauge.rooms,
                            gauge.sessions + Cardinality(DOMAIN new))
      BY <1>8 DEF Shared, Succeeded
    <2>2. UserPlaces(rooms') = UserPlaces(rooms)
      BY <1>8, PlacesStep
    <2> QED
      BY <1>1, <1>2, <1>6, <1>8, <2>1, <2>2 DEF Counted
  <1>9. ASSUME Stopped(c, id) PROVE IsFiniteSet(DOMAIN rooms') /\ gauge' = Counted(rooms')
    <2> DEFINE ids == HostedBy(rooms[id], c)
    <2>1. /\ id \in DOMAIN rooms /\ DOMAIN rooms' = DOMAIN rooms /\ Elsewhere(id)
          /\ SessionsEnded(id, ids)
          /\ gauge' = Count(gauge.users, gauge.rooms, gauge.sessions - Cardinality(ids))
      BY <1>9 DEF Stopped, Succeeded
    <2> HIDE DEF ids
    <2>2. AllSessions(rooms') = AllSessions(rooms) \ ids /\ ids \subseteq AllSessions(rooms)
      BY <1>1, <2>1, AllSessionsStep
    <2>3. Cardinality(AllSessions(rooms')) = gauge.sessions - Cardinality(ids)
      <3>1. IsFiniteSet(ids)
        BY <1>1, <2>2, FS_Subset
      <3>2. Cardinality(AllSessions(rooms) \ ids) = Cardinality(AllSessions(rooms)) - Cardinality(ids)
        BY <1>1, <2>2, <3>1, CardinalityStep
      <3> QED
        BY <1>2, <2>2, <3>2
    <2>4. UserPlaces(rooms') = UserPlaces(rooms)
      BY <1>9, PlacesStep
    <2> QED
      BY <1>1, <1>2, <2>1, <2>3, <2>4 DEF Counted
  <1>10. ASSUME Renamed(id) PROVE IsFiniteSet(DOMAIN rooms') /\ gauge' = Counted(rooms')
    <2>1. DOMAIN rooms' = DOMAIN rooms /\ gauge' = gauge
      BY <1>10 DEF Renamed, Succeeded
    <2>2. UserPlaces(rooms') = UserPlaces(rooms) /\ AllSessions(rooms') = AllSessions(rooms)
      BY <1>1, <1>10, PlacesStep, AllSessionsStep
    <2> QED
      BY <1>1, <2>1, <2>2 DEF Counted
  <1> QED
    BY <1>4, <1>7, <1>8, <1>9, <1>10

\* A connection that ends takes itself and its sessions off the gauges, and a
\* room everybody who is in it.
LEMMA EndedGauges ==
  ASSUME IInv, GaugesInv, NEW c \in Clients, NEW id \in RoomIDs,
         Departed(c, id) \/ Closed(c, id)
  PROVE  IsFiniteSet(DOMAIN rooms') /\ gauge' = Counted(rooms')
  <1>1. /\ IsFiniteSet(DOMAIN rooms) /\ gauge = Counted(rooms)
        /\ IsFiniteSet(UserPlaces(rooms)) /\ IsFiniteSet(AllSessions(rooms))
        /\ Disjoint(rooms)
    BY GaugesAreCounts, CountedFinite DEF GaugesInv, IInv
  <1>2. /\ gauge.users = Cardinality(UserPlaces(rooms))
        /\ gauge.rooms = Cardinality(DOMAIN rooms)
        /\ gauge.sessions = Cardinality(AllSessions(rooms))
    BY <1>1 DEF Counted, Count
  <1>3. ASSUME Departed(c, id) PROVE IsFiniteSet(DOMAIN rooms') /\ gauge' = Counted(rooms')
    <2> DEFINE ids == SessionsOf(rooms[id], c)
               users == IF c \in Members(rooms[id]) THEN gauge.users - 1 ELSE gauge.users
    <2>1. /\ id \in DOMAIN rooms /\ DOMAIN rooms' = DOMAIN rooms /\ Elsewhere(id)
          /\ SessionsEnded(id, ids)
          /\ gauge' = Count(users, gauge.rooms, gauge.sessions - Cardinality(ids))
      BY <1>3 DEF Departed
    <2> HIDE DEF ids
    <2>2. AllSessions(rooms') = AllSessions(rooms) \ ids /\ ids \subseteq AllSessions(rooms)
      BY <1>1, <2>1, AllSessionsStep
    <2>3. Cardinality(AllSessions(rooms')) = gauge.sessions - Cardinality(ids)
      <3>1. IsFiniteSet(ids)
        BY <1>1, <2>2, FS_Subset
      <3>2. Cardinality(AllSessions(rooms) \ ids) = Cardinality(AllSessions(rooms)) - Cardinality(ids)
        BY <1>1, <2>2, <3>1, CardinalityStep
      <3> QED
        BY <1>2, <2>2, <3>2
    <2>4. Cardinality(UserPlaces(rooms')) = users
      <3>1. UserPlaces(rooms') = UserPlaces(rooms) \ {<<id, c>>}
        BY <1>3, PlacesStep
      <3>2. <<id, c>> \in UserPlaces(rooms) <=> c \in Members(rooms[id])
        BY <2>1, CountedElements
      <3> QED
        BY <1>1, <1>2, <3>1, <3>2, FS_RemoveElement
    <2> HIDE DEF users
    <2> QED
      BY <1>1, <1>2, <2>1, <2>3, <2>4 DEF Counted
  <1>4. ASSUME Closed(c, id) PROVE IsFiniteSet(DOMAIN rooms') /\ gauge' = Counted(rooms')
    <2> DEFINE ids == DOMAIN rooms[id].sessions
               gone == Members(rooms[id])
               places == {id} \X gone
    <2>1. /\ id \in DOMAIN rooms /\ DOMAIN rooms' = DOMAIN rooms \ {id}
          /\ gauge' = Count(gauge.users - Cardinality(gone), gauge.rooms - 1,
                            gauge.sessions - Cardinality(ids))
      BY <1>4 DEF Closed
    <2>2. IsFiniteSet(DOMAIN rooms') /\ Cardinality(DOMAIN rooms') = gauge.rooms - 1
      BY <1>1, <1>2, <2>1, FS_RemoveElement
    <2>3. AllSessions(rooms') = AllSessions(rooms) \ ids /\ ids \subseteq AllSessions(rooms)
      BY <1>1, <1>4, AllSessionsStep
    <2>4. UserPlaces(rooms') = UserPlaces(rooms) \ places /\ places \subseteq UserPlaces(rooms)
      BY <1>4, PlacesStep
    <2>5. IsFiniteSet(gone)
      BY <2>1, ConfigAssumption, FS_Subset DEF IInv, TypeOK, RoomOK, IsMap, Members
    <2>6. IsFiniteSet(places) /\ Cardinality(places) = Cardinality(gone)
      <3>1. PICK S : S = gone
        OBVIOUS
      <3>2. IsFiniteSet({id}) /\ Cardinality({id}) = 1
        BY FS_Singleton
      <3>3. IsFiniteSet({id} \X S) /\ Cardinality({id} \X S) = Cardinality({id}) * Cardinality(S)
        BY <2>5, <3>1, <3>2, FS_Product
      <3>4. Cardinality(S) \in Int
        BY <2>5, <3>1, FS_CardinalityType
      <3>5. places = {id} \X S
        BY <3>1
      <3> HIDE DEF places
      <3> QED
        BY <3>1, <3>2, <3>3, <3>4, <3>5
    <2> HIDE DEF ids, places, gone
    <2>7. Cardinality(AllSessions(rooms')) = gauge.sessions - Cardinality(ids)
      <3>1. IsFiniteSet(ids)
        BY <1>1, <2>3, FS_Subset
      <3>2. Cardinality(AllSessions(rooms) \ ids) = Cardinality(AllSessions(rooms)) - Cardinality(ids)
        BY <1>1, <2>3, <3>1, CardinalityStep
      <3> QED
        BY <1>2, <2>3, <3>2
    <2>8. Cardinality(UserPlaces(rooms')) = gauge.users - Cardinality(gone)
      BY <1>1, <1>2, <2>4, <2>6, CardinalityStep
    <2> QED
      BY <2>1, <2>2, <2>7, <2>8 DEF Counted
  <1> QED
    BY <1>3, <1>4

LEMMA GaugesStep ==
  ASSUME IInv, IInv', GaugesInv, NEW c \in Clients, Effect(c)
  PROVE  GaugesInv'
  <1>1. ASSUME Connected(c) \/ Break(c) \/ Dropped(c) PROVE GaugesInv'
    <2>1. rooms' = rooms /\ gauge' = gauge
      BY <1>1 DEF Connected, Break, Dropped
    <2> QED
      BY <2>1 DEF GaugesInv, GaugesMatch
  <1>2. ASSUME IsFiniteSet(DOMAIN rooms') /\ gauge' = Counted(rooms') PROVE GaugesInv'
    <2>1. gauge' \in [users : Int, rooms : Int, sessions : Int]
      BY DEF IInv, TypeOK, Gauges
    <2>2. /\ gauge'.rooms = Cardinality(DOMAIN rooms')
          /\ gauge'.users = Cardinality(UserPlaces(rooms'))
          /\ gauge'.sessions = Cardinality(AllSessions(rooms'))
      BY <1>2 DEF Counted, Count
    <2> QED
      BY <1>2, <2>2 DEF GaugesInv, GaugesMatch, UserPlaces, AllSessions
  <1> QED
    BY <1>1, <1>2, SucceededGauges, EndedGauges DEF Effect

\* The counters of the present count the users, the rooms and the sessions there
\* are, whatever handlers failed or closed rooms before.
THEOREM GaugesAreRight ==
  ASSUME RoomNames PROVE Spec => []GaugesMatch
  <1>1. Init => GaugesInv
    <2> SUFFICES ASSUME Init PROVE GaugesInv
      OBVIOUS
    <2>1. DOMAIN rooms = {} /\ gauge.rooms = 0 /\ gauge.users = 0 /\ gauge.sessions = 0
      BY DEF Init, EmptyMap, Count
    <2>2. UserPlaces(rooms) = {} /\ AllSessions(rooms) = {}
      BY <2>1 DEF UserPlaces, AllSessions
    <2> QED
      BY <2>1, <2>2, FS_EmptySet DEF GaugesInv, GaugesMatch, UserPlaces, AllSessions
  <1>2. AttendedInv /\ AttendedInv' /\ GaugesInv /\ [Next]_vars => GaugesInv'
    <2> SUFFICES ASSUME AttendedInv, IInv', GaugesInv, [Next]_vars PROVE GaugesInv'
      BY DEF AttendedInv
    <2>1. CASE Passed
      BY <2>1 DEF Passed, GaugesInv, GaugesMatch
    <2>2. CASE \E c \in Clients : Effect(c)
      BY <2>2, GaugesStep DEF AttendedInv
    <2> QED
      BY <2>1, <2>2, StepEffect DEF AttendedInv
  <1>3. GaugesInv => GaugesMatch
    BY DEF GaugesInv
  <1> QED
    BY <1>1, <1>2, <1>3, AttendedInvariance, PTL DEF Spec
-----------------------------------------------------------------------------
(* What the browsers know. *)

\* The sessions of all rooms that c is an end of.
SessionsWith(rms, c) == UNION {SessionsOf(rms[id], c) : id \in DOMAIN rms}

\* A browser that can be reached has been told of the sessions it is an end of, and
\* of the end of the others; nothing is recorded of one that cannot.
AnnouncedInv ==
  \A c \in Clients : announced[c] = IF link[c] = "open" THEN SessionsWith(rooms, c) ELSE {}

\* The sessions of c, one by one.
LEMMA SessionsWithElements ==
  ASSUME NEW rms, NEW c
  PROVE  \A s : s \in SessionsWith(rms, c) <=>
                  \E j \in DOMAIN rms : /\ s \in DOMAIN rms[j].sessions
                                        /\ c \in Ends(rms[j].sessions[s])
  BY DEF SessionsWith, SessionsOf

\* Only a member is an end of a session.
LEMMA EndsAreMembers ==
  ASSUME IInv, NEW id \in DOMAIN rooms, NEW s \in DOMAIN rooms[id].sessions
  PROVE  /\ Ends(rooms[id].sessions[s]) \subseteq Members(rooms[id])
         /\ rooms[id].sessions[s].host # rooms[id].sessions[s].client
         /\ rooms[id].sessions[s].host \in Presenters(rooms[id])
         /\ rooms[id].sessions[s].client \in Members(rooms[id])
  BY DEF IInv, AllSound, Sound, EndsOK, Ends, Presenters

\* The new sessions are added to those of their two ends.
LEMMA SessionsWithAdded ==
  ASSUME NEW id, id \in DOMAIN rooms, DOMAIN rooms' = DOMAIN rooms, Elsewhere(id),
         NEW new, SessionsAdded(id, new), NEW d
  PROVE  SessionsWith(rooms', d) = SessionsWith(rooms, d) \cup {s \in DOMAIN new : d \in Ends(new[s])}
  <1>1. /\ \A j \in DOMAIN rooms \ {id} : rooms'[j] = rooms[j]
        /\ DOMAIN rooms'[id].sessions = DOMAIN rooms[id].sessions \cup DOMAIN new
        /\ \A s \in DOMAIN rooms[id].sessions : rooms'[id].sessions[s] = rooms[id].sessions[s]
        /\ \A s \in DOMAIN new : rooms'[id].sessions[s] = new[s]
    BY DEF Elsewhere, SessionsAdded
  <1>2. ASSUME NEW s \in SessionsWith(rooms', d)
        PROVE  s \in SessionsWith(rooms, d) \/ (s \in DOMAIN new /\ d \in Ends(new[s]))
    <2>1. PICK j \in DOMAIN rooms' : s \in DOMAIN rooms'[j].sessions /\ d \in Ends(rooms'[j].sessions[s])
      BY <1>2, SessionsWithElements
    <2>2. CASE j = id
      BY <1>1, <2>1, <2>2, SessionsWithElements
    <2>3. CASE j # id
      BY <1>1, <2>1, <2>3, SessionsWithElements
    <2> QED
      BY <2>2, <2>3
  <1>3. ASSUME NEW s \in SessionsWith(rooms, d) PROVE s \in SessionsWith(rooms', d)
    <2>1. PICK j \in DOMAIN rooms : s \in DOMAIN rooms[j].sessions /\ d \in Ends(rooms[j].sessions[s])
      BY <1>3, SessionsWithElements
    <2>2. s \in DOMAIN rooms'[j].sessions /\ rooms'[j].sessions[s] = rooms[j].sessions[s]
      BY <1>1, <2>1
    <2> QED
      BY <2>1, <2>2, SessionsWithElements
  <1>4. ASSUME NEW s \in DOMAIN new, d \in Ends(new[s]) PROVE s \in SessionsWith(rooms', d)
    BY <1>1, <1>4, SessionsWithElements
  <1> QED
    BY <1>2, <1>3, <1>4

\* Sessions that end are taken from everybody who was an end of them, for their
\* xids are in no other room.
LEMMA SessionsWithEnded ==
  ASSUME Disjoint(rooms), NEW id, id \in DOMAIN rooms, DOMAIN rooms' = DOMAIN rooms,
         Elsewhere(id), NEW ids, SessionsEnded(id, ids), NEW d
  PROVE  SessionsWith(rooms', d) = SessionsWith(rooms, d) \ ids
  <1>1. /\ \A j \in DOMAIN rooms \ {id} : rooms'[j] = rooms[j]
        /\ DOMAIN rooms'[id].sessions = DOMAIN rooms[id].sessions \ ids
        /\ \A s \in DOMAIN rooms'[id].sessions : rooms'[id].sessions[s] = rooms[id].sessions[s]
        /\ ids \subseteq DOMAIN rooms[id].sessions
    BY DEF Elsewhere, SessionsEnded
  <1>2. \A j \in DOMAIN rooms \ {id} : DOMAIN rooms[j].sessions \cap ids = {}
    BY <1>1 DEF Disjoint
  <1>3. ASSUME NEW s \in SessionsWith(rooms', d) PROVE s \in SessionsWith(rooms, d) /\ s \notin ids
    <2>1. PICK j \in DOMAIN rooms' : s \in DOMAIN rooms'[j].sessions /\ d \in Ends(rooms'[j].sessions[s])
      BY <1>3, SessionsWithElements
    <2>2. s \in DOMAIN rooms[j].sessions /\ rooms'[j].sessions[s] = rooms[j].sessions[s] /\ s \notin ids
      BY <1>1, <1>2, <2>1
    <2> QED
      BY <2>1, <2>2, SessionsWithElements
  <1>4. ASSUME NEW s \in SessionsWith(rooms, d), s \notin ids PROVE s \in SessionsWith(rooms', d)
    <2>1. PICK j \in DOMAIN rooms : s \in DOMAIN rooms[j].sessions /\ d \in Ends(rooms[j].sessions[s])
      BY <1>4, SessionsWithElements
    <2>2. s \in DOMAIN rooms'[j].sessions /\ rooms'[j].sessions[s] = rooms[j].sessions[s]
      BY <1>1, <1>4, <2>1
    <2> QED
      BY <2>1, <2>2, SessionsWithElements
  <1> QED
    BY <1>3, <1>4

\* Closing a room ends all of its sessions; opening one, or renaming somebody in
\* it, ends none and starts none.
LEMMA SessionsWithRooms ==
  ASSUME Disjoint(rooms), NEW c, NEW id, NEW d
  PROVE  /\ Closed(c, id) =>
              SessionsWith(rooms', d) = SessionsWith(rooms, d) \ DOMAIN rooms[id].sessions
         /\ Created(c, id) \/ Renamed(id) => SessionsWith(rooms', d) = SessionsWith(rooms, d)
  <1>1. ASSUME Closed(c, id)
        PROVE  SessionsWith(rooms', d) = SessionsWith(rooms, d) \ DOMAIN rooms[id].sessions
    <2>1. /\ id \in DOMAIN rooms /\ DOMAIN rooms' = DOMAIN rooms \ {id}
          /\ \A j \in DOMAIN rooms \ {id} : rooms'[j] = rooms[j]
      BY <1>1 DEF Closed, Elsewhere
    <2>2. \A j \in DOMAIN rooms \ {id} : DOMAIN rooms[j].sessions \cap DOMAIN rooms[id].sessions = {}
      BY <2>1 DEF Disjoint
    <2> QED
      BY <2>1, <2>2, SessionsWithElements
  <1>2. ASSUME Created(c, id) PROVE SessionsWith(rooms', d) = SessionsWith(rooms, d)
    <2>1. /\ id \notin DOMAIN rooms /\ DOMAIN rooms' = DOMAIN rooms \cup {id}
          /\ \A j \in DOMAIN rooms : rooms'[j] = rooms[j]
          /\ DOMAIN rooms'[id].sessions = {}
      BY <1>2 DEF Created, Succeeded, Elsewhere
    <2>2. \A s, j : /\ j \in DOMAIN rooms' /\ s \in DOMAIN rooms'[j].sessions
                    /\ d \in Ends(rooms'[j].sessions[s])
               <=> /\ j \in DOMAIN rooms /\ s \in DOMAIN rooms[j].sessions
                   /\ d \in Ends(rooms[j].sessions[s])
      BY <2>1
    <2>3. \A s : s \in SessionsWith(rooms', d) <=> s \in SessionsWith(rooms, d)
      BY <2>2, SessionsWithElements
    <2> QED
      BY <2>3
  <1>3. ASSUME Renamed(id) PROVE SessionsWith(rooms', d) = SessionsWith(rooms, d)
    <2>1. /\ DOMAIN rooms' = DOMAIN rooms
          /\ \A j \in DOMAIN rooms : rooms'[j].sessions = rooms[j].sessions
      BY <1>3 DEF Renamed, Succeeded, Elsewhere
    <2>2. \A s : s \in SessionsWith(rooms', d) <=> s \in SessionsWith(rooms, d)
      BY <2>1, SessionsWithElements
    <2> QED
      BY <2>2
  <1> QED
    BY <1>1, <1>2, <1>3

\* A connection in no room is an end of no session.
LEMMA NewcomerHasNone ==
  ASSUME IInv, NEW c, \A j \in DOMAIN rooms : c \notin Members(rooms[j])
  PROVE  SessionsWith(rooms, c) = {}
  BY EndsAreMembers, SessionsWithElements

\* An end of a session is told of its end by its id and nobody else needs to be.
LEMMA EndsOnly ==
  ASSUME Disjoint(rooms), NEW id \in DOMAIN rooms, NEW ids \in SUBSET DOMAIN rooms[id].sessions,
         NEW d
  PROVE  SessionsWith(rooms, d) \ {s \in ids : d \in Ends(rooms[id].sessions[s])} =
           SessionsWith(rooms, d) \ ids
  <1>1. ASSUME NEW s \in SessionsWith(rooms, d), s \in ids
        PROVE  d \in Ends(rooms[id].sessions[s])
    <2>1. PICK j \in DOMAIN rooms : s \in DOMAIN rooms[j].sessions /\ d \in Ends(rooms[j].sessions[s])
      BY SessionsWithElements
    <2>2. j = id
      BY <1>1, <2>1 DEF Disjoint
    <2> QED
      BY <2>1, <2>2
  <1> QED
    BY <1>1

\* What Announce and Cut do to one connection.
LEMMA ToldEach ==
  ASSUME NEW d \in Clients
  PROVE  /\ \A new : Announce(new) =>
              announced'[d] = IF link[d] = "open"
                              THEN announced[d] \cup {s \in DOMAIN new : d \in Ends(new[s])}
                              ELSE announced[d]
         /\ \A gone : Cut(gone) => link'[d] = IF d \in gone THEN "closed" ELSE link[d]
  BY DEF Announce, Cut

LEMMA AnnouncedStep ==
  ASSUME IInv, AnnouncedInv, NEW c \in Clients, Effect(c)
  PROVE  AnnouncedInv'
  <1> SUFFICES ASSUME NEW d \in Clients
               PROVE  announced'[d] =
                        IF link'[d] = "open" THEN SessionsWith(rooms', d) ELSE {}
    BY DEF AnnouncedInv
  <1> DEFINE Known == announced'[d] = IF link'[d] = "open" THEN SessionsWith(rooms', d) ELSE {}
  <1>1. announced[d] = IF link[d] = "open" THEN SessionsWith(rooms, d) ELSE {}
    BY DEF AnnouncedInv
  <1>2. Disjoint(rooms) /\ link \in [Clients -> LinkStates] /\ announced \in [Clients -> SUBSET SessionIDs]
    BY DEF IInv, TypeOK
  <1>3. CASE Connected(c)
    <2>1. /\ rooms' = rooms /\ announced' = announced /\ link[c] = "new"
          /\ link' = [link EXCEPT ![c] = "open"]
      BY <1>3 DEF Connected
    <2>2. \A j \in DOMAIN rooms : c \notin Members(rooms[j])
      BY <2>1 DEF IInv, Registered, Placed
    <2>3. SessionsWith(rooms, c) = {}
      BY <2>2, NewcomerHasNone
    <2> QED
      BY <1>1, <1>2, <2>1, <2>3
  <1>4. CASE Break(c)
    <2>1. /\ rooms' = rooms /\ announced' = [announced EXCEPT ![c] = {}]
          /\ link' = [link EXCEPT ![c] = "broken"]
      BY <1>4 DEF Break
    <2> QED
      BY <1>1, <1>2, <2>1
  <1>5. CASE Dropped(c)
    <2>1. rooms' = rooms /\ Cut({c}) /\ announced' = [announced EXCEPT ![c] = {}]
      BY <1>5 DEF Dropped
    <2>2. announced'[d] = IF d \in {c} THEN {} ELSE announced[d]
      BY <1>2, <2>1
    <2>3. link'[d] = IF d \in {c} THEN "closed" ELSE link[d]
      BY <2>1, ToldEach
    <2> QED
      BY <1>1, <2>1, <2>2, <2>3
  <1>6. ASSUME NEW id \in RoomIDs, Created(c, id) \/ Renamed(id) PROVE Known
    <2>1. link' = link /\ announced' = announced
      BY <1>6 DEF Created, Renamed, Succeeded
    <2>2. SessionsWith(rooms', d) = SessionsWith(rooms, d)
      BY <1>2, <1>6, SessionsWithRooms
    <2> QED
      BY <1>1, <2>1, <2>2
  <1>7. ASSUME NEW id \in RoomIDs, NEW new, Joined(c, id, new) \/ Shared(c, id, new) PROVE Known
    <2>1. /\ id \in DOMAIN rooms /\ DOMAIN rooms' = DOMAIN rooms /\ Elsewhere(id)
          /\ SessionsAdded(id, new) /\ link' = link /\ Announce(new)
      BY <1>7 DEF Joined, Shared, Succeeded, SessionsAdded
    <2>2. SessionsWith(rooms', d) = SessionsWith(rooms, d) \cup {s \in DOMAIN new : d \in Ends(new[s])}
      BY <2>1, SessionsWithAdded
    <2>3. announced'[d] = IF link[d] = "open"
                          THEN announced[d] \cup {s \in DOMAIN new : d \in Ends(new[s])}
                          ELSE announced[d]
      BY <2>1, ToldEach
    <2> QED
      BY <1>1, <2>1, <2>2, <2>3
  <1>8. ASSUME NEW id \in RoomIDs, Stopped(c, id) PROVE Known
    <2> DEFINE ids == HostedBy(rooms[id], c)
    <2>1. /\ id \in DOMAIN rooms /\ DOMAIN rooms' = DOMAIN rooms /\ Elsewhere(id)
          /\ SessionsEnded(id, ids) /\ link' = link /\ EndShares(rooms[id], ids, {})
          /\ ids \subseteq DOMAIN rooms[id].sessions
      BY <1>8 DEF Stopped, Succeeded, HostedBy
    <2> HIDE DEF ids
    <2>2. SessionsWith(rooms', d) = SessionsWith(rooms, d) \ ids
      BY <1>2, <2>1, SessionsWithEnded
    <2>3. announced'[d] = announced[d] \ {s \in ids : d \in Ends(rooms[id].sessions[s])}
      BY <2>1 DEF EndShares
    <2>4. SessionsWith(rooms, d) \ {s \in ids : d \in Ends(rooms[id].sessions[s])} =
            SessionsWith(rooms, d) \ ids
      BY <1>2, <2>1, EndsOnly
    <2> QED
      BY <1>1, <2>1, <2>2, <2>3, <2>4
  <1>9. ASSUME NEW id \in RoomIDs, Departed(c, id) PROVE Known
    <2> DEFINE ids == SessionsOf(rooms[id], c)
    <2>1. /\ id \in DOMAIN rooms /\ DOMAIN rooms' = DOMAIN rooms /\ Elsewhere(id)
          /\ SessionsEnded(id, ids) /\ Cut({c}) /\ EndShares(rooms[id], ids, {c})
          /\ ids \subseteq DOMAIN rooms[id].sessions
      BY <1>9 DEF Departed, SessionsOf
    <2> HIDE DEF ids
    <2>2. SessionsWith(rooms', d) = SessionsWith(rooms, d) \ ids
      BY <1>2, <2>1, SessionsWithEnded
    <2>3. /\ announced'[d] = IF d = c THEN {}
                             ELSE announced[d] \ {s \in ids : d \in Ends(rooms[id].sessions[s])}
          /\ link'[d] = IF d = c THEN "closed" ELSE link[d]
      BY <2>1 DEF EndShares, Cut
    <2>4. SessionsWith(rooms, d) \ {s \in ids : d \in Ends(rooms[id].sessions[s])} =
            SessionsWith(rooms, d) \ ids
      BY <1>2, <2>1, EndsOnly
    <2> QED
      BY <1>1, <2>2, <2>3, <2>4
  <1>10. ASSUME NEW id \in RoomIDs, Closed(c, id) PROVE Known
    <2> DEFINE ids == DOMAIN rooms[id].sessions
               gone == Members(rooms[id])
    <2>1. Cut(gone) /\ EndShares(rooms[id], ids, gone) /\ id \in DOMAIN rooms
      BY <1>10 DEF Closed
    <2>2. SessionsWith(rooms', d) = SessionsWith(rooms, d) \ ids
      BY <1>2, <1>10, SessionsWithRooms
    <2> HIDE DEF ids, gone
    <2>3. /\ announced'[d] = IF d \in gone THEN {}
                             ELSE announced[d] \ {s \in ids : d \in Ends(rooms[id].sessions[s])}
          /\ link'[d] = IF d \in gone THEN "closed" ELSE link[d]
      BY <2>1 DEF EndShares, Cut
    <2>4. SessionsWith(rooms, d) \ {s \in ids : d \in Ends(rooms[id].sessions[s])} =
            SessionsWith(rooms, d) \ ids
      BY <1>2, <2>1, EndsOnly DEF ids
    <2> QED
      BY <1>1, <2>2, <2>3, <2>4
  <1> HIDE DEF Known
  <1>11. Known
    BY <1>3, <1>4, <1>5, <1>6, <1>7, <1>8, <1>9, <1>10 DEF Effect, Known
  <1> QED
    BY <1>11 DEF Known

\* What a step passes on goes to the other end of a session, a member that has
\* been told of it.
LEMMA RelayedStep ==
  ASSUME RoomNames, IInv, AnnouncedInv, RelayedToOtherEnd,
         Passed \/ \E c \in Clients : Effect(c)
  PROVE  RelayedToOtherEnd'
  <1>1. ASSUME relayed' = {} PROVE RelayedToOtherEnd'
    BY <1>1 DEF RelayedToOtherEnd
  <1>2. ASSUME NEW c \in Clients, Effect(c) PROVE relayed' = {}
    BY <1>2 DEF Effect, Connected, Break, Dropped, Created, Joined, Shared, Stopped, Renamed,
                Succeeded, Departed, Closed
  <1>3. ASSUME Passed, relayed' = relayed PROVE RelayedToOtherEnd'
    BY <1>3 DEF Passed, RelayedToOtherEnd
  <1>4. ASSUME Passed, NEW c \in Clients, NEW sid \in SessionIDs,
               RelayFromHost(c, sid) \/ RelayFromClient(c, sid)
        PROVE  RelayedToOtherEnd'
    <2> DEFINE id == connected[c]
               session == rooms[id].sessions[sid]
    <2>1. /\ InRoom(c) /\ sid \in DOMAIN rooms[id].sessions
          /\ rooms' = rooms /\ link' = link /\ announced' = announced
      BY <1>4 DEF RelayFromHost, RelayFromClient
    <2>2. id \in DOMAIN rooms
      BY <2>1, CurrentRoomOK DEF InRoom
    <2>3. PICK to :
            /\ relayed' = {[from |-> c, to |-> to, sid |-> sid]}
            /\ \/ session.host = c /\ to = session.client
               \/ session.client = c /\ to = session.host
      BY <1>4 DEF RelayFromHost, RelayFromClient, Session
    <2> HIDE DEF id
    <2>4. c # to /\ Ends(session) = {c, to} /\ {c, to} \subseteq Members(rooms[id])
      BY <2>1, <2>2, <2>3, EndsAreMembers DEF Ends
    <2>5. to \in Clients
      BY <2>2, <2>4 DEF IInv, TypeOK, RoomOK, IsMap, Members
    <2>6. sid \in SessionsWith(rooms, to)
      BY <2>1, <2>2, <2>4, SessionsWithElements
    <2>7. sid \in announced[to] \/ link[to] # "open"
      BY <2>5, <2>6 DEF AnnouncedInv
    <2>8. \A m \in relayed' : m.from = c /\ m.to = to /\ m.sid = sid
      BY <2>3
    <2>9. \A m \in relayed' :
            /\ m.from # m.to
            /\ m.sid \in announced'[m.to] \/ link'[m.to] # "open"
            /\ m.sid \in DOMAIN rooms'[id].sessions
            /\ Ends(rooms'[id].sessions[m.sid]) = {m.from, m.to}
            /\ {m.from, m.to} \subseteq Members(rooms'[id])
      BY <2>1, <2>4, <2>7, <2>8
    <2> HIDE DEF session
    <2> QED
      BY <2>1, <2>2, <2>9 DEF RelayedToOtherEnd
  <1> QED
    BY <1>1, <1>2, <1>3, <1>4 DEF Passed

LEMMA ToldInvariance ==
  ASSUME RoomNames PROVE Spec => [](AttendedInv /\ AnnouncedInv /\ RelayedToOtherEnd)
  <1>1. Init => AnnouncedInv /\ RelayedToOtherEnd
    BY DEF Init, AnnouncedInv, RelayedToOtherEnd
  <1>2. AttendedInv /\ (AnnouncedInv /\ RelayedToOtherEnd) /\ [Next]_vars
          => (AnnouncedInv /\ RelayedToOtherEnd)'
    <2> SUFFICES ASSUME AttendedInv, AnnouncedInv, RelayedToOtherEnd, [Next]_vars
                 PROVE  AnnouncedInv' /\ RelayedToOtherEnd'
      OBVIOUS
    <2>1. Passed \/ \E c \in Clients : Effect(c)
      BY StepEffect DEF AttendedInv
    <2>2. ASSUME Passed PROVE AnnouncedInv'
      BY <2>2 DEF Passed, AnnouncedInv
    <2>3. ASSUME NEW c \in Clients, Effect(c) PROVE AnnouncedInv'
      BY <2>3, AnnouncedStep DEF AttendedInv
    <2>4. RelayedToOtherEnd'
      BY <2>1, RelayedStep DEF AttendedInv
    <2> QED
      BY <2>1, <2>2, <2>3, <2>4
  <1> QED
    BY <1>1, <1>2, AttendedInvariance, PTL DEF Spec

\* Each end of a session has been sent its hostsession or clientsession, and those
\* that stay an endshare for each session of theirs that has ended.
THEOREM EndsAreTold ==
  ASSUME RoomNames PROVE Spec => []EndsTold
  <1>1. AnnouncedInv => EndsTold
    BY DEF AnnouncedInv, EndsTold, SessionsWith
  <1> QED
    BY <1>1, ToldInvariance, PTL

\* What is sent under a session arrives at its other end, in the same room, which
\* has been told of the session.
THEOREM RelayedWhereItBelongs ==
  ASSUME RoomNames PROVE Spec => []RelayedToOtherEnd
  BY ToldInvariance, PTL
-----------------------------------------------------------------------------
(* What the browsers show. *)

\* The browser of d, if d is a member of the room j that can be reached, shows
\* the room as it is.
Shows(d, j) ==
  d \in Members(rooms[j]) /\ link[d] = "open" =>
    d \in DOMAIN view /\ view[d] = Info(j, rooms[j])

LEMMA ViewsOneByOne == ViewsCurrent <=> \A j \in DOMAIN rooms : \A d : Shows(d, j)
  BY DEF ViewsCurrent, Shows, Reachable

\* A room that is replaced or added by a successful handler is shown to its
\* members, who are in no other room.
LEMMA SucceededShows ==
  ASSUME ViewsCurrent, OneRoomPerClient', NEW id, Succeeded(id),
         NEW j \in DOMAIN rooms', NEW d
  PROVE  Shows(d, j)'
  <1> SUFFICES ASSUME d \in Members(rooms'[j]), link'[d] = "open"
               PROVE  d \in DOMAIN view' /\ view'[d] = Info(j, rooms'[j])
    BY DEF Shows, Members, Info
  <1>1. /\ DOMAIN rooms' = DOMAIN rooms \cup {id}
        /\ \A i \in DOMAIN rooms \ {id} : rooms'[i] = rooms[i]
        /\ view' = Shown(view, id, rooms'[id])
        /\ link' = link
    BY DEF Succeeded, Elsewhere
  <1>2. CASE j = id
    BY <1>1, <1>2 DEF Shown, Reachable
  <1>3. CASE j # id
    <2>1. d \notin Members(rooms'[id])
      BY <1>1, <1>3 DEF OneRoomPerClient
    <2>2. d \in DOMAIN view /\ view[d] = Info(j, rooms[j])
      BY <1>1, <1>3, ViewsOneByOne DEF Shows
    <2> QED
      BY <1>1, <1>3, <2>1, <2>2 DEF Shown, Reachable
  <1> QED
    BY <1>2, <1>3

\* So is the room somebody has left, or failed to join.
LEMMA DepartedShows ==
  ASSUME IInv, ViewsCurrent, OneRoomPerClient', NEW c, NEW id, Departed(c, id),
         NEW j \in DOMAIN rooms', NEW d \in Clients
  PROVE  Shows(d, j)'
  <1> SUFFICES ASSUME d \in Members(rooms'[j]), link'[d] = "open"
               PROVE  d \in DOMAIN view' /\ view'[d] = Info(j, rooms'[j])
    BY DEF Shows, Members, Info
  <1>1. /\ DOMAIN rooms' = DOMAIN rooms /\ id \in DOMAIN rooms
        /\ \A i \in DOMAIN rooms \ {id} : rooms'[i] = rooms[i]
        /\ Cut({c})
    BY DEF Departed, Elsewhere
  <1>2. PICK before :
          /\ ShownOutside(before, Members(rooms'[id]) \cup {c})
          /\ view' = Without(Shown(before, id, rooms'[id]), {c})
    BY DEF Departed
  <1>3. d # c /\ link[d] = "open"
    BY <1>1 DEF Cut
  <1>4. CASE j = id
    BY <1>2, <1>3, <1>4 DEF Without, Restrict, Shown, Reachable
  <1>5. CASE j # id
    <2>1. d \notin Members(rooms'[id])
      BY <1>1, <1>5 DEF OneRoomPerClient
    <2>2. d \in DOMAIN view /\ view[d] = Info(j, rooms[j])
      BY <1>1, <1>3, <1>5, ViewsOneByOne DEF Shows
    <2>3. d \in DOMAIN before /\ before[d] = view[d]
      BY <1>2, <1>3, <2>1, <2>2 DEF ShownOutside
    <2> QED
      BY <1>1, <1>2, <1>3, <1>5, <2>1, <2>2, <2>3 DEF Without, Restrict, Shown, Reachable
  <1> QED
    BY <1>4, <1>5

\* Whoever is not cut off or missed keeps what it was shown.
LEMMA KeptShows ==
  ASSUME ViewsCurrent, NEW gone, view' = Without(view, gone),
         \A j \in DOMAIN rooms' : j \in DOMAIN rooms /\ rooms'[j] = rooms[j],
         NEW j \in DOMAIN rooms', NEW d \in Clients,
         link'[d] = "open" => link[d] = "open" /\ d \notin gone
  PROVE  Shows(d, j)'
  <1> SUFFICES ASSUME d \in Members(rooms'[j]), link'[d] = "open"
               PROVE  d \in DOMAIN view' /\ view'[d] = Info(j, rooms'[j])
    BY DEF Shows, Members, Info
  <1>1. d \in DOMAIN view /\ view[d] = Info(j, rooms[j])
    BY ViewsOneByOne DEF Shows
  <1> QED
    BY <1>1 DEF Without, Restrict

LEMMA ViewsStep ==
  ASSUME IInv, IInv', ViewsCurrent, NEW c \in Clients, Effect(c)
  PROVE  ViewsCurrent'
  <1>1. OneRoomPerClient'
    <2>1. IInv' => OneRoomPerClient'
      BY IInvProperties, PTL
    <2> QED
      BY <2>1
  <1>2. \A j \in DOMAIN rooms' : Members(rooms'[j]) \subseteq Clients
    BY DEF IInv, AllSound, Sound, RoomOK, IsMap, Members
  <1> SUFFICES ASSUME NEW j \in DOMAIN rooms', NEW d \in Clients PROVE Shows(d, j)'
    BY <1>2 DEF ViewsCurrent, Shows, Reachable, Members, Info
  <1>3. CASE Connected(c)
    <2>1. /\ rooms' = rooms /\ view' = view /\ link' = [link EXCEPT ![c] = "open"]
          /\ link[c] = "new"
      BY <1>3 DEF Connected
    <2>2. \A i \in DOMAIN rooms : c \notin Members(rooms[i])
      BY <2>1 DEF IInv, Registered, Placed
    <2>3. Shows(d, j)
      BY <2>1, ViewsOneByOne
    <2>4. d = c \/ link'[d] = link[d]
      BY <2>1 DEF IInv, TypeOK
    <2> QED
      BY <2>1, <2>2, <2>3, <2>4 DEF Shows, Members, Info
  <1>4. CASE Break(c)
    <2>1. /\ rooms' = rooms /\ view' = Without(view, {c})
          /\ link' = [link EXCEPT ![c] = "broken"]
      BY <1>4 DEF Break
    <2>2. link'[d] = "open" => link[d] = "open" /\ d \notin {c}
      BY <2>1 DEF IInv, TypeOK
    <2> QED
      BY <2>1, <2>2, KeptShows
  <1>5. CASE Dropped(c)
    <2>1. rooms' = rooms /\ view' = Without(view, {c}) /\ Cut({c})
      BY <1>5 DEF Dropped
    <2>2. link'[d] = "open" => link[d] = "open" /\ d \notin {c}
      BY <2>1 DEF Cut
    <2> QED
      BY <2>1, <2>2, KeptShows
  <1>6. ASSUME NEW id \in RoomIDs,
               \/ Created(c, id) \/ Stopped(c, id) \/ Renamed(id)
               \/ \E new : Joined(c, id, new) \/ Shared(c, id, new)
        PROVE  Shows(d, j)'
    <2>1. Succeeded(id)
      BY <1>6 DEF Created, Stopped, Renamed, Joined, Shared
    <2> QED
      BY <1>1, <2>1, SucceededShows
  <1>7. ASSUME NEW id \in RoomIDs, Departed(c, id) PROVE Shows(d, j)'
    BY <1>1, <1>7, DepartedShows
  <1>8. ASSUME NEW id \in RoomIDs, Closed(c, id) PROVE Shows(d, j)'
    <2> DEFINE gone == Members(rooms[id])
    <2>1. view' = Without(view, gone) /\ Cut(gone)
      BY <1>8 DEF Closed
    <2>2. \A i \in DOMAIN rooms' : i \in DOMAIN rooms /\ rooms'[i] = rooms[i]
      BY <1>8 DEF Closed, Elsewhere
    <2> HIDE DEF gone
    <2>3. link'[d] = "open" => link[d] = "open" /\ d \notin gone
      BY <2>1 DEF Cut
    <2> QED
      BY <2>1, <2>2, <2>3, KeptShows
  <1> QED
    BY <1>3, <1>4, <1>5, <1>6, <1>7, <1>8 DEF Effect

\* A browser that can be reached shows the users of its room as they are.
THEOREM ViewsAreCurrent ==
  ASSUME RoomNames PROVE Spec => []ViewsCurrent
  <1>1. Init => ViewsCurrent
    BY DEF Init, EmptyMap, ViewsCurrent
  <1>2. AttendedInv /\ AttendedInv' /\ ViewsCurrent /\ [Next]_vars => ViewsCurrent'
    <2> SUFFICES ASSUME AttendedInv, IInv', ViewsCurrent, [Next]_vars PROVE ViewsCurrent'
      BY DEF AttendedInv
    <2>1. CASE Passed
      BY <2>1 DEF Passed, ViewsCurrent, Reachable
    <2>2. CASE \E c \in Clients : Effect(c)
      BY <2>2, ViewsStep DEF AttendedInv
    <2> QED
      BY <2>1, <2>2, StepEffect DEF AttendedInv
  <1> QED
    BY <1>1, <1>2, AttendedInvariance, PTL DEF Spec
-----------------------------------------------------------------------------
(* Sessions last. *)

\* Why the session s of the room id may end in a step.
EndsWithAnEnd(id, s) ==
  \/ link'[rooms[id].sessions[s].host] = "closed"
  \/ link'[rooms[id].sessions[s].client] = "closed"

EndsWithPresentation(id, s) ==
  id \in DOMAIN rooms' /\ rooms[id].sessions[s].host \notin Presenters(rooms'[id])

Lasts(id, s) ==
  \/ id \in DOMAIN rooms' /\ s \in DOMAIN rooms'[id].sessions
  \/ EndsWithAnEnd(id, s)
  \/ EndsWithPresentation(id, s)

LEMMA LastsStep ==
  ASSUME IInv, NEW c \in Clients, Effect(c),
         NEW j \in DOMAIN rooms, NEW s \in DOMAIN rooms[j].sessions
  PROVE  Lasts(j, s)
  <1> DEFINE session == rooms[j].sessions[s]
  <1>1. /\ session.host \in Members(rooms[j]) /\ session.client \in Members(rooms[j])
        /\ Members(rooms[j]) \subseteq Clients
    BY EndsAreMembers DEF Presenters, IInv, AllSound, Sound, RoomOK, IsMap, Members
  <1>2. ASSUME rooms' = rooms PROVE Lasts(j, s)
    BY <1>2 DEF Lasts
  <1>3. ASSUME NEW id, Elsewhere(id), j # id PROVE Lasts(j, s)
    BY <1>3 DEF Elsewhere, Lasts
  <1>4. CASE Connected(c) \/ Break(c) \/ Dropped(c)
    BY <1>2, <1>4 DEF Connected, Break, Dropped
  <1>5. ASSUME NEW id \in RoomIDs, NEW new, Joined(c, id, new) \/ Shared(c, id, new)
        PROVE  Lasts(j, s)
    <2>1. id \in DOMAIN rooms /\ DOMAIN rooms' = DOMAIN rooms \cup {id} /\ Elsewhere(id)
          /\ DOMAIN rooms'[id].sessions = DOMAIN rooms[id].sessions \cup DOMAIN new
      BY <1>5 DEF Joined, Shared, Succeeded, SessionsAdded
    <2> QED
      BY <1>3, <2>1 DEF Lasts
  <1>6. ASSUME NEW id \in RoomIDs, Created(c, id) \/ Renamed(id) PROVE Lasts(j, s)
    <2>1. /\ DOMAIN rooms' = DOMAIN rooms \cup {id} /\ Elsewhere(id)
          /\ id \notin DOMAIN rooms \/ rooms'[id].sessions = rooms[id].sessions
      BY <1>6 DEF Created, Renamed, Succeeded
    <2> QED
      BY <1>3, <2>1 DEF Lasts
  <1>7. ASSUME NEW id \in RoomIDs, Stopped(c, id) PROVE Lasts(j, s)
    <2>1. /\ DOMAIN rooms' = DOMAIN rooms \cup {id} /\ Elsewhere(id)
          /\ Presenters(rooms'[id]) = Presenters(rooms[id]) \ {c}
          /\ DOMAIN rooms'[id].sessions = DOMAIN rooms[id].sessions \ HostedBy(rooms[id], c)
      BY <1>7 DEF Stopped, Succeeded, SessionsEnded
    <2>2. ASSUME j = id, s \in HostedBy(rooms[id], c) PROVE EndsWithPresentation(j, s)
      BY <2>1, <2>2 DEF HostedBy, EndsWithPresentation
    <2> QED
      BY <1>3, <2>1, <2>2 DEF Lasts
  <1>8. ASSUME NEW id \in RoomIDs, Departed(c, id) PROVE Lasts(j, s)
    <2>1. /\ DOMAIN rooms' = DOMAIN rooms /\ Elsewhere(id) /\ Cut({c})
          /\ DOMAIN rooms'[id].sessions = DOMAIN rooms[id].sessions \ SessionsOf(rooms[id], c)
      BY <1>8 DEF Departed, SessionsEnded
    <2>2. ASSUME j = id, s \in SessionsOf(rooms[id], c) PROVE EndsWithAnEnd(j, s)
      <3>1. link'[c] = "closed"
        BY <2>1 DEF Cut
      <3>2. session.host = c \/ session.client = c
        BY <2>2 DEF SessionsOf, Ends
      <3> QED
        BY <3>1, <3>2 DEF EndsWithAnEnd
    <2> QED
      BY <1>3, <2>1, <2>2 DEF Lasts
  <1>9. ASSUME NEW id \in RoomIDs, Closed(c, id) PROVE Lasts(j, s)
    <2>1. Elsewhere(id) /\ Cut(Members(rooms[id]))
      BY <1>9 DEF Closed
    <2>2. ASSUME j = id PROVE EndsWithAnEnd(j, s)
      BY <1>1, <2>1, <2>2 DEF Cut, EndsWithAnEnd
    <2> QED
      BY <1>3, <2>1, <2>2 DEF Lasts
  <1> QED
    BY <1>4, <1>5, <1>6, <1>7, <1>8, <1>9 DEF Effect

\* A session ends only with the presentation or with an end's membership.
THEOREM SessionsAreKept ==
  ASSUME RoomNames PROVE Spec => SessionsLast
  <1> DEFINE AllLast == \A id \in DOMAIN rooms : \A s \in DOMAIN rooms[id].sessions : Lasts(id, s)
  <1>1. AttendedInv /\ [Next]_vars => [AllLast]_vars
    <2> SUFFICES ASSUME AttendedInv, [Next]_vars PROVE AllLast
      OBVIOUS
    <2>1. CASE Passed
      BY <2>1 DEF Passed, Lasts
    <2>2. CASE \E c \in Clients : Effect(c)
      BY <2>2, LastsStep DEF AttendedInv
    <2> QED
      BY <2>1, <2>2, StepEffect DEF AttendedInv
  <1>2. [AllLast]_vars =>
          [\A id \in DOMAIN rooms : \A s \in DOMAIN rooms[id].sessions :
             LET session == rooms[id].sessions[s]
             IN \/ id \in DOMAIN rooms' /\ s \in DOMAIN rooms'[id].sessions
                \/ link'[session.host] = "closed" \/ link'[session.client] = "closed"
                \/ id \in DOMAIN rooms' /\ session.host \notin Presenters(rooms'[id])]_vars
    BY DEF Lasts, EndsWithAnEnd, EndsWithPresentation
  <1> HIDE DEF AllLast
  <1> QED
    BY <1>1, <1>2, AttendedInvariance, PTL DEF Spec, SessionsLast
-----------------------------------------------------------------------------
(* The event loop implements ScreenShare. *)

\* The variables of ScreenShare as Meeting maps them, for any value of the maps.
AudienceIn(rms) == [id \in RoomIDs |-> IF id \in DOMAIN rms THEN Members(rms[id]) ELSE {}]

PresentingIn(rms) == UNION {Presenters(rms[id]) : id \in DOMAIN rms}

WatchingIn(rms) ==
  UNION {{<<s.host, s.client>> : s \in Range(rms[id].sessions)} : id \in DOMAIN rms}

GoneIn(lnk) == {c \in Clients : lnk[c] = "closed"}

\* The actions of ScreenShare in these terms.
LEMMA MeetingSame ==
  ASSUME AudienceIn(rooms') = AudienceIn(rooms), PresentingIn(rooms') = PresentingIn(rooms),
         WatchingIn(rooms') = WatchingIn(rooms), GoneIn(link') = GoneIn(link)
  PROVE  UNCHANGED Meeting!vars
  BY DEF Meeting!vars, AudienceIn, AudienceOf, PresentingIn, WatchingIn, GoneIn

LEMMA MeetingEnter ==
  ASSUME NEW c \in Clients, NEW r \in RoomIDs, c \notin GoneIn(link),
         \A q \in RoomIDs : c \notin AudienceIn(rooms)[q],
         AudienceIn(rooms') = [AudienceIn(rooms) EXCEPT ![r] = @ \cup {c}],
         WatchingIn(rooms') = WatchingIn(rooms)
            \cup ((PresentingIn(rooms) \cap AudienceIn(rooms)[r]) \X {c}),
         PresentingIn(rooms') = PresentingIn(rooms), GoneIn(link') = GoneIn(link)
  PROVE  Meeting!Next
  <1>1. Meeting!Enter(c, r)
    BY DEF Meeting!Enter, AudienceIn, AudienceOf, PresentingIn, WatchingIn, GoneIn
  <1> QED
    BY <1>1 DEF Meeting!Next

LEMMA MeetingPresent ==
  ASSUME NEW c \in Clients, NEW r \in RoomIDs, c \in AudienceIn(rooms)[r],
         PresentingIn(rooms') = PresentingIn(rooms) \cup {c},
         WatchingIn(rooms') = WatchingIn(rooms) \cup ({c} \X (AudienceIn(rooms)[r] \ {c})),
         AudienceIn(rooms') = AudienceIn(rooms), GoneIn(link') = GoneIn(link)
  PROVE  Meeting!Next
  <1>1. Meeting!Present(c, r)
    BY DEF Meeting!Present, AudienceIn, AudienceOf, PresentingIn, WatchingIn, GoneIn
  <1> QED
    BY <1>1 DEF Meeting!Next

LEMMA MeetingUnpresent ==
  ASSUME NEW c \in Clients, c \in PresentingIn(rooms),
         PresentingIn(rooms') = PresentingIn(rooms) \ {c},
         WatchingIn(rooms') = {w \in WatchingIn(rooms) : w[1] # c},
         AudienceIn(rooms') = AudienceIn(rooms), GoneIn(link') = GoneIn(link)
  PROVE  Meeting!Next
  <1>1. Meeting!Unpresent(c)
    BY DEF Meeting!Unpresent, AudienceIn, AudienceOf, PresentingIn, WatchingIn, GoneIn
  <1> QED
    BY <1>1 DEF Meeting!Next

LEMMA MeetingLeave ==
  ASSUME NEW S \in SUBSET Clients, S \cap GoneIn(link) = {},
         \/ \E c \in Clients : S = {c}
         \/ \E r \in RoomIDs : S = AudienceIn(rooms)[r] /\ S # {},
         GoneIn(link') = GoneIn(link) \cup S,
         AudienceIn(rooms') = [r \in RoomIDs |-> AudienceIn(rooms)[r] \ S],
         PresentingIn(rooms') = PresentingIn(rooms) \ S,
         WatchingIn(rooms') = {w \in WatchingIn(rooms) : w[1] \notin S /\ w[2] \notin S}
  PROVE  Meeting!Next
  <1>1. Meeting!Leave(S)
    BY DEF Meeting!Leave, AudienceIn, AudienceOf, PresentingIn, WatchingIn, GoneIn
  <1> QED
    BY <1>1 DEF Meeting!Next
\* Who presents and who watches whom, one by one.
Picture(session) == <<session.host, session.client>>

LEMMA PresentingElements ==
  ASSUME NEW rms, NEW d
  PROVE  d \in PresentingIn(rms) <=> \E j \in DOMAIN rms : d \in Presenters(rms[j])
  BY DEF PresentingIn

LEMMA WatchingElements ==
  ASSUME NEW rms, NEW w
  PROVE  w \in WatchingIn(rms) <=>
           \E j \in DOMAIN rms : \E s \in DOMAIN rms[j].sessions : w = Picture(rms[j].sessions[s])
  BY DEF WatchingIn, Picture, Range

LEMMA PicturesOfPairs ==
  ASSUME NEW A, NEW B
  PROVE  {Picture(x) : x \in [host : A, client : B]} = A \X B
  <1>1. ASSUME NEW x \in [host : A, client : B] PROVE Picture(x) \in A \X B
    BY <1>1 DEF Picture
  <1>2. ASSUME NEW p \in A \X B PROVE \E x \in [host : A, client : B] : p = Picture(x)
    <2>1. p = <<p[1], p[2]>> /\ p[1] \in A /\ p[2] \in B
      OBVIOUS
    <2>2. [host |-> p[1], client |-> p[2]] \in [host : A, client : B]
      BY <2>1
    <2> QED
      BY <2>1, <2>2 DEF Picture
  <1>3. {Picture(x) : x \in [host : A, client : B]} \subseteq A \X B
    BY <1>1
  <1>4. A \X B \subseteq {Picture(x) : x \in [host : A, client : B]}
    BY <1>2
  <1> QED
    BY <1>3, <1>4

\* The room that is replaced or added is the only one whose audience changes.
LEMMA AudienceReplaced ==
  ASSUME NEW id \in RoomIDs, DOMAIN rooms' = DOMAIN rooms \cup {id}, Elsewhere(id)
  PROVE  AudienceIn(rooms') = [AudienceIn(rooms) EXCEPT ![id] = Members(rooms'[id])]
  BY DEF AudienceIn, Elsewhere

\* Opening sessions adds their pictures to those watched.
LEMMA WatchingAdded ==
  ASSUME NEW id, id \in DOMAIN rooms, DOMAIN rooms' = DOMAIN rooms, Elsewhere(id),
         NEW new, SessionsAdded(id, new)
  PROVE  WatchingIn(rooms') = WatchingIn(rooms) \cup {Picture(x) : x \in Range(new)}
  <1>1. /\ \A j \in DOMAIN rooms \ {id} : rooms'[j] = rooms[j]
        /\ DOMAIN rooms'[id].sessions = DOMAIN rooms[id].sessions \cup DOMAIN new
        /\ \A s \in DOMAIN rooms[id].sessions : rooms'[id].sessions[s] = rooms[id].sessions[s]
        /\ \A s \in DOMAIN new : rooms'[id].sessions[s] = new[s]
    BY DEF Elsewhere, SessionsAdded
  <1>2. ASSUME NEW w \in WatchingIn(rooms')
        PROVE  w \in WatchingIn(rooms) \/ \E x \in Range(new) : w = Picture(x)
    <2>1. PICK j, s : /\ j \in DOMAIN rooms' /\ s \in DOMAIN rooms'[j].sessions
                      /\ w = Picture(rooms'[j].sessions[s])
      BY <1>2, WatchingElements
    <2>2. CASE s \in DOMAIN rooms[j].sessions
      <3>1. rooms'[j].sessions[s] = rooms[j].sessions[s]
        BY <1>1, <2>1, <2>2
      <3> QED
        BY <2>1, <2>2, <3>1, WatchingElements
    <2>3. CASE s \notin DOMAIN rooms[j].sessions
      BY <1>1, <2>1, <2>3 DEF Range
    <2> QED
      BY <2>2, <2>3
  <1>3. ASSUME NEW w \in WatchingIn(rooms) PROVE w \in WatchingIn(rooms')
    <2>1. PICK j, s : /\ j \in DOMAIN rooms /\ s \in DOMAIN rooms[j].sessions
                      /\ w = Picture(rooms[j].sessions[s])
      BY <1>3, WatchingElements
    <2>2. s \in DOMAIN rooms'[j].sessions /\ rooms'[j].sessions[s] = rooms[j].sessions[s]
      BY <1>1, <2>1
    <2> QED
      BY <2>1, <2>2, WatchingElements
  <1>4. ASSUME NEW x \in Range(new) PROVE Picture(x) \in WatchingIn(rooms')
    <2>1. PICK s \in DOMAIN new : x = new[s]
      BY <1>4 DEF Range
    <2> QED
      BY <1>1, <2>1, WatchingElements
  <1> QED
    BY <1>2, <1>3, <1>4

\* What is watched when sessions end: the pictures of those that stay.
LEMMA WatchingKept ==
  ASSUME NEW K, K \subseteq WatchingIn(rooms),
         \A j \in DOMAIN rooms' : \A s \in DOMAIN rooms'[j].sessions :
            /\ j \in DOMAIN rooms /\ s \in DOMAIN rooms[j].sessions
            /\ rooms'[j].sessions[s] = rooms[j].sessions[s]
            /\ Picture(rooms[j].sessions[s]) \in K,
         \A j \in DOMAIN rooms : \A s \in DOMAIN rooms[j].sessions :
            Picture(rooms[j].sessions[s]) \in K =>
              /\ j \in DOMAIN rooms' /\ s \in DOMAIN rooms'[j].sessions
              /\ rooms'[j].sessions[s] = rooms[j].sessions[s]
  PROVE  WatchingIn(rooms') = K
  <1>1. ASSUME NEW w \in WatchingIn(rooms') PROVE w \in K
    BY <1>1, WatchingElements
  <1>2. ASSUME NEW w \in K PROVE w \in WatchingIn(rooms')
    <2>1. PICK j, s : /\ j \in DOMAIN rooms /\ s \in DOMAIN rooms[j].sessions
                      /\ w = Picture(rooms[j].sessions[s])
      BY <1>2, WatchingElements
    <2>2. j \in DOMAIN rooms' /\ s \in DOMAIN rooms'[j].sessions
          /\ rooms'[j].sessions[s] = rooms[j].sessions[s]
      BY <1>2, <2>1
    <2> QED
      BY <2>1, <2>2, WatchingElements
  <1> QED
    BY <1>1, <1>2

\* Who leaves is registered, so has not left before; and nobody is in two rooms.
LEMMA LeavingOnce ==
  ASSUME IInv
  PROVE  /\ \A c \in DOMAIN connected : c \in Clients /\ c \notin GoneIn(link)
         /\ \A id \in DOMAIN rooms : \A c \in Members(rooms[id]) : c \in DOMAIN connected
         /\ \A id, j \in DOMAIN rooms :
              id # j => Members(rooms[id]) \cap Members(rooms[j]) = {}
  <1>1. \A id \in DOMAIN rooms : Members(rooms[id]) \subseteq Clients
    BY DEF IInv, AllSound, Sound, RoomOK, IsMap, Members
  <1>2. DOMAIN connected \subseteq Clients
    BY DEF IInv, TypeOK, IsMap
  <1> QED
    BY <1>1, <1>2 DEF IInv, Registered, Placed, GoneIn

LEMMA CutGone ==
  ASSUME NEW S \in SUBSET Clients, Cut(S) PROVE GoneIn(link') = GoneIn(link) \cup S
  BY DEF Cut, GoneIn

\* Those of S leave: the sessions that stay are those of which no end leaves.
LEMMA LeaveStep ==
  ASSUME IInv, NEW S, Cut(S), S # {}, S \subseteq DOMAIN connected,
         \/ \E c : S = {c}
         \/ \E id \in DOMAIN rooms : S = Members(rooms[id]),
         \A j \in RoomIDs : AudienceIn(rooms')[j] = AudienceIn(rooms)[j] \ S,
         PresentingIn(rooms') = PresentingIn(rooms) \ S,
         \A j \in DOMAIN rooms' : \A s \in DOMAIN rooms'[j].sessions :
            /\ j \in DOMAIN rooms /\ s \in DOMAIN rooms[j].sessions
            /\ rooms'[j].sessions[s] = rooms[j].sessions[s]
            /\ Ends(rooms[j].sessions[s]) \cap S = {},
         \A j \in DOMAIN rooms : \A s \in DOMAIN rooms[j].sessions :
            Ends(rooms[j].sessions[s]) \cap S = {} =>
              /\ j \in DOMAIN rooms' /\ s \in DOMAIN rooms'[j].sessions
              /\ rooms'[j].sessions[s] = rooms[j].sessions[s]
  PROVE  Meeting!Next
  <1>1. S \in SUBSET Clients /\ S \cap GoneIn(link) = {}
    BY LeavingOnce
  <1>2. GoneIn(link') = GoneIn(link) \cup S
    BY <1>1, CutGone
  <1>3. AudienceIn(rooms') = [r \in RoomIDs |-> AudienceIn(rooms)[r] \ S]
    BY DEF AudienceIn
  <1>4. WatchingIn(rooms') = {w \in WatchingIn(rooms) : w[1] \notin S /\ w[2] \notin S}
    <2> DEFINE K == {w \in WatchingIn(rooms) : w[1] \notin S /\ w[2] \notin S}
    <2>1. \A j \in DOMAIN rooms : \A s \in DOMAIN rooms[j].sessions :
            /\ Picture(rooms[j].sessions[s]) \in WatchingIn(rooms)
            /\ Picture(rooms[j].sessions[s])[1] = rooms[j].sessions[s].host
            /\ Picture(rooms[j].sessions[s])[2] = rooms[j].sessions[s].client
      BY WatchingElements DEF Picture
    <2>2. \A j \in DOMAIN rooms : \A s \in DOMAIN rooms[j].sessions :
            Picture(rooms[j].sessions[s]) \in K <=> Ends(rooms[j].sessions[s]) \cap S = {}
      BY <2>1 DEF Ends
    <2>3. K \subseteq WatchingIn(rooms)
      OBVIOUS
    <2> HIDE DEF K
    <2>4. WatchingIn(rooms') = K
      BY <2>2, <2>3, WatchingKept
    <2> QED
      BY <2>4 DEF K
  <1>5. \/ \E c \in Clients : S = {c}
        \/ \E r \in RoomIDs : S = AudienceIn(rooms)[r] /\ S # {}
    BY <1>1 DEF AudienceIn, IInv, TypeOK
  <1> QED
    BY <1>1, <1>2, <1>3, <1>4, <1>5, MeetingLeave
\* The handlers that keep the company of their room or let somebody in.
LEMMA CreatedMeets ==
  ASSUME IInv, NEW c \in Clients, NEW id \in RoomIDs, Created(c, id)
  PROVE  Meeting!Next
  <1>1. /\ DOMAIN rooms' = DOMAIN rooms \cup {id} /\ Elsewhere(id) /\ id \notin DOMAIN rooms
        /\ Members(rooms'[id]) = {c} /\ ~rooms'[id].users[c].streaming
        /\ DOMAIN rooms'[id].sessions = {} /\ link' = link
        /\ Newcomer(c)
    BY DEF Created, Succeeded
  <1>2. \A j \in DOMAIN rooms : rooms'[j] = rooms[j]
    BY <1>1 DEF Elsewhere
  <1>3. AudienceIn(rooms') = [AudienceIn(rooms) EXCEPT ![id] = @ \cup {c}]
    <2>1. AudienceIn(rooms)[id] \cup {c} = Members(rooms'[id])
      BY <1>1 DEF AudienceIn
    <2> QED
      BY <1>1, <2>1, AudienceReplaced DEF AudienceIn
  <1>4. Presenters(rooms'[id]) = {}
    BY <1>1 DEF Presenters
  <1>5. PresentingIn(rooms') = PresentingIn(rooms)
    <2>1. \A d : d \in PresentingIn(rooms') <=> d \in PresentingIn(rooms)
      BY <1>1, <1>2, <1>4, PresentingElements
    <2> QED
      BY <2>1
  <1>6. WatchingIn(rooms') = WatchingIn(rooms)
    <2>1. \A w : w \in WatchingIn(rooms') <=> w \in WatchingIn(rooms)
      BY <1>1, <1>2, WatchingElements
    <2> QED
      BY <2>1
  <1>7. AudienceIn(rooms)[id] = {} /\ \A q \in RoomIDs : c \notin AudienceIn(rooms)[q]
    BY <1>1 DEF AudienceIn, Newcomer
  <1>8. (PresentingIn(rooms) \cap AudienceIn(rooms)[id]) \X {c} = {}
    BY <1>7
  <1>9. c \notin GoneIn(link) /\ GoneIn(link') = GoneIn(link)
    BY <1>1, LeavingOnce DEF Newcomer, GoneIn
  <1> QED
    BY <1>3, <1>5, <1>6, <1>7, <1>8, <1>9, MeetingEnter

LEMMA JoinedMeets ==
  ASSUME IInv, NEW c \in Clients, NEW id \in RoomIDs, NEW new, Joined(c, id, new)
  PROVE  Meeting!Next
  <1>1. /\ DOMAIN rooms' = DOMAIN rooms /\ Elsewhere(id) /\ id \in DOMAIN rooms
        /\ Members(rooms'[id]) = Members(rooms[id]) \cup {c}
        /\ ~rooms'[id].users[c].streaming
        /\ \A d \in Members(rooms[id]) : rooms'[id].users[d] = rooms[id].users[d]
        /\ SessionsAdded(id, new)
        /\ Range(new) = [host : Presenters(rooms[id]), client : {c}]
        /\ link' = link /\ Newcomer(c)
    BY DEF Joined, Succeeded
  <1>2. AudienceIn(rooms') = [AudienceIn(rooms) EXCEPT ![id] = @ \cup {c}]
    <2>1. AudienceIn(rooms)[id] \cup {c} = Members(rooms'[id])
      BY <1>1 DEF AudienceIn
    <2>2. DOMAIN rooms' = DOMAIN rooms \cup {id}
      BY <1>1
    <2>3. AudienceIn(rooms') = [AudienceIn(rooms) EXCEPT ![id] = Members(rooms'[id])]
      BY <1>1, <2>2, AudienceReplaced
    <2> QED
      BY <2>1, <2>3
  <1>3. Presenters(rooms'[id]) = Presenters(rooms[id])
    BY <1>1 DEF Presenters, Newcomer
  <1>4. PresentingIn(rooms') = PresentingIn(rooms)
    <2>1. \A d : d \in PresentingIn(rooms') <=> d \in PresentingIn(rooms)
      BY <1>1, <1>3, PresentingElements DEF Elsewhere
    <2> QED
      BY <2>1
  <1>5. PresentingIn(rooms) \cap AudienceIn(rooms)[id] = Presenters(rooms[id])
    <2>1. AudienceIn(rooms)[id] = Members(rooms[id])
      BY <1>1 DEF AudienceIn
    <2>2. \A d \in Members(rooms[id]) : d \in PresentingIn(rooms) <=> d \in Presenters(rooms[id])
      BY <1>1, LeavingOnce, PresentingElements DEF Presenters
    <2> QED
      BY <2>1, <2>2 DEF Presenters
  <1>6. {Picture(x) : x \in Range(new)} = Presenters(rooms[id]) \X {c}
    BY <1>1, PicturesOfPairs
  <1>7. WatchingIn(rooms') = WatchingIn(rooms)
          \cup ((PresentingIn(rooms) \cap AudienceIn(rooms)[id]) \X {c})
    BY <1>1, <1>5, <1>6, WatchingAdded
  <1>8. \A q \in RoomIDs : c \notin AudienceIn(rooms)[q]
    BY <1>1 DEF AudienceIn, Newcomer
  <1>9. c \notin GoneIn(link) /\ GoneIn(link') = GoneIn(link)
    BY <1>1, LeavingOnce DEF Newcomer, GoneIn
  <1> QED
    BY <1>2, <1>4, <1>7, <1>8, <1>9, MeetingEnter

LEMMA SharedMeets ==
  ASSUME IInv, NEW c \in Clients, NEW id \in RoomIDs, NEW new, Shared(c, id, new)
  PROVE  Meeting!Next
  <1>1. /\ DOMAIN rooms' = DOMAIN rooms /\ Elsewhere(id) /\ id \in DOMAIN rooms
        /\ Members(rooms'[id]) = Members(rooms[id]) /\ c \in Members(rooms[id])
        /\ Presenters(rooms'[id]) = Presenters(rooms[id]) \cup {c}
        /\ SessionsAdded(id, new)
        /\ Range(new) = [host : {c}, client : Members(rooms[id]) \ {c}]
        /\ link' = link
    BY DEF Shared, Succeeded, SameCompany
  <1>2. AudienceIn(rooms') = AudienceIn(rooms) /\ AudienceIn(rooms)[id] = Members(rooms[id])
    BY <1>1 DEF AudienceIn, Elsewhere
  <1>3. PresentingIn(rooms') = PresentingIn(rooms) \cup {c}
    <2>1. \A d : d \in PresentingIn(rooms') <=> d \in PresentingIn(rooms) \/ d = c
      BY <1>1, PresentingElements DEF Elsewhere
    <2> QED
      BY <2>1
  <1>4. {Picture(x) : x \in Range(new)} = {c} \X (AudienceIn(rooms)[id] \ {c})
    BY <1>1, <1>2, PicturesOfPairs
  <1>5. WatchingIn(rooms') = WatchingIn(rooms) \cup ({c} \X (AudienceIn(rooms)[id] \ {c}))
    BY <1>1, <1>4, WatchingAdded
  <1>6. GoneIn(link') = GoneIn(link) /\ c \in AudienceIn(rooms)[id]
    BY <1>1, <1>2 DEF GoneIn
  <1> QED
    BY <1>2, <1>3, <1>5, <1>6, MeetingPresent

\* StopShare is a step of ScreenShare only if c was presenting.
LEMMA StoppedMeets ==
  ASSUME IInv, NEW c \in Clients, NEW id \in RoomIDs, Stopped(c, id)
  PROVE  [Meeting!Next]_(Meeting!vars)
  <1>1. /\ DOMAIN rooms' = DOMAIN rooms /\ Elsewhere(id) /\ id \in DOMAIN rooms
        /\ Members(rooms'[id]) = Members(rooms[id]) /\ c \in Members(rooms[id])
        /\ Presenters(rooms'[id]) = Presenters(rooms[id]) \ {c}
        /\ SessionsEnded(id, HostedBy(rooms[id], c))
        /\ link' = link
    BY DEF Stopped, Succeeded, SameCompany
  <1>2. AudienceIn(rooms') = AudienceIn(rooms) /\ GoneIn(link') = GoneIn(link)
    BY <1>1 DEF AudienceIn, Elsewhere
  <1>3. \A j \in DOMAIN rooms \ {id} : c \notin Members(rooms[j])
    BY <1>1, LeavingOnce
  <1>4. PresentingIn(rooms') = PresentingIn(rooms) \ {c}
    <2>1. \A j \in DOMAIN rooms \ {id} : c \notin Presenters(rooms[j])
      BY <1>3 DEF Presenters
    <2>2. \A d : d \in PresentingIn(rooms') <=> d \in PresentingIn(rooms) /\ d # c
      BY <1>1, <2>1, PresentingElements DEF Elsewhere
    <2> QED
      BY <2>2
  <1>5. WatchingIn(rooms') = {w \in WatchingIn(rooms) : w[1] # c}
    <2> DEFINE K == {w \in WatchingIn(rooms) : w[1] # c}
    <2>1. \A j \in DOMAIN rooms : \A s \in DOMAIN rooms[j].sessions :
            Picture(rooms[j].sessions[s]) \in K <=> rooms[j].sessions[s].host # c
      BY WatchingElements DEF Picture
    <2>2. \A j \in DOMAIN rooms \ {id} : \A s \in DOMAIN rooms[j].sessions :
            rooms[j].sessions[s].host # c
      BY <1>3, EndsAreMembers DEF Presenters
    <2>3. K \subseteq WatchingIn(rooms)
      OBVIOUS
    <2> HIDE DEF K
    <2>4. \A j \in DOMAIN rooms' : \A s \in DOMAIN rooms'[j].sessions :
            /\ j \in DOMAIN rooms /\ s \in DOMAIN rooms[j].sessions
            /\ rooms'[j].sessions[s] = rooms[j].sessions[s]
            /\ Picture(rooms[j].sessions[s]) \in K
      BY <1>1, <2>1, <2>2 DEF Elsewhere, SessionsEnded, HostedBy
    <2>5. \A j \in DOMAIN rooms : \A s \in DOMAIN rooms[j].sessions :
            Picture(rooms[j].sessions[s]) \in K =>
              /\ j \in DOMAIN rooms' /\ s \in DOMAIN rooms'[j].sessions
              /\ rooms'[j].sessions[s] = rooms[j].sessions[s]
      BY <1>1, <2>1, <2>2 DEF Elsewhere, SessionsEnded, HostedBy
    <2>6. WatchingIn(rooms') = K
      BY <2>3, <2>4, <2>5, WatchingKept
    <2> QED
      BY <2>6 DEF K
  <1>6. CASE c \in PresentingIn(rooms)
    BY <1>2, <1>4, <1>5, <1>6, MeetingUnpresent
  <1>7. CASE c \notin PresentingIn(rooms)
    <2>1. ASSUME NEW w \in WatchingIn(rooms) PROVE w[1] # c
      <3>1. PICK j, s : /\ j \in DOMAIN rooms /\ s \in DOMAIN rooms[j].sessions
                        /\ w = Picture(rooms[j].sessions[s])
        BY <2>1, WatchingElements
      <3>2. rooms[j].sessions[s].host \in PresentingIn(rooms)
        BY <3>1, EndsAreMembers, PresentingElements
      <3> QED
        BY <1>7, <3>1, <3>2 DEF Picture
    <2>2. WatchingIn(rooms') = WatchingIn(rooms) /\ PresentingIn(rooms') = PresentingIn(rooms)
      BY <1>4, <1>5, <1>7, <2>1
    <2> QED
      BY <1>2, <2>2, MeetingSame
  <1> QED
    BY <1>6, <1>7
\* The three ways a connection ends are leaving.
LEMMA DroppedMeets ==
  ASSUME IInv, NEW c \in Clients, Dropped(c)
  PROVE  Meeting!Next
  <1>1. rooms' = rooms /\ Cut({c}) /\ Newcomer(c)
    BY DEF Dropped
  <1>2. \A j \in RoomIDs : AudienceIn(rooms')[j] = AudienceIn(rooms)[j] \ {c}
    BY <1>1 DEF AudienceIn, Newcomer
  <1>3. PresentingIn(rooms') = PresentingIn(rooms) \ {c}
    BY <1>1 DEF PresentingIn, Presenters, Newcomer
  <1>4. \A j \in DOMAIN rooms : \A s \in DOMAIN rooms[j].sessions :
          Ends(rooms[j].sessions[s]) \cap {c} = {}
    BY <1>1, EndsAreMembers DEF Newcomer
  <1> DEFINE S == {c}
  <1>5. S # {} /\ S \subseteq DOMAIN connected /\ \E d : S = {d}
    BY <1>1 DEF Newcomer
  <1>6. Cut(S)
    BY <1>1
  <1> HIDE DEF S
  <1>7. S = {c}
    BY DEF S
  <1> QED
    BY <1>1, <1>2, <1>3, <1>4, <1>5, <1>6, <1>7, LeaveStep

LEMMA DepartedMeets ==
  ASSUME IInv, NEW c \in Clients, NEW id \in RoomIDs, Departed(c, id)
  PROVE  Meeting!Next
  <1> DEFINE S == {c}
             ended == SessionsOf(rooms[id], c)
  <1>1. /\ id \in DOMAIN rooms /\ c \in DOMAIN connected
        /\ DOMAIN rooms' = DOMAIN rooms
        /\ \A j \in DOMAIN rooms \ {id} : rooms'[j] = rooms[j] /\ c \notin Members(rooms[j])
        /\ Members(rooms'[id]) = Members(rooms[id]) \ {c}
        /\ \A d \in Members(rooms'[id]) : rooms'[id].users[d] = rooms[id].users[d]
        /\ SessionsEnded(id, ended)
        /\ Cut(S)
    BY DEF Departed, Elsewhere
  <1>2. \A j \in RoomIDs : AudienceIn(rooms')[j] = AudienceIn(rooms)[j] \ {c}
    BY <1>1 DEF AudienceIn
  <1>3. PresentingIn(rooms') = PresentingIn(rooms) \ {c}
    <2>1. \A j \in DOMAIN rooms : Presenters(rooms'[j]) = Presenters(rooms[j]) \ {c}
      BY <1>1 DEF Presenters
    <2>2. \A d : d \in PresentingIn(rooms') <=> d \in PresentingIn(rooms) /\ d # c
      BY <1>1, <2>1, PresentingElements
    <2> QED
      BY <2>2
  <1>4. \A j \in DOMAIN rooms \ {id} : \A s \in DOMAIN rooms[j].sessions :
          Ends(rooms[j].sessions[s]) \cap {c} = {}
    BY <1>1, EndsAreMembers
  <1>5. \A s \in DOMAIN rooms[id].sessions :
          s \in ended <=> Ends(rooms[id].sessions[s]) \cap {c} # {}
    BY DEF SessionsOf
  <1>6. S # {} /\ S \subseteq DOMAIN connected /\ (\E d : S = {d}) /\ S = {c}
    BY <1>1
  <1> HIDE DEF S, ended
  <1>7. \A j \in DOMAIN rooms' : \A s \in DOMAIN rooms'[j].sessions :
          /\ j \in DOMAIN rooms /\ s \in DOMAIN rooms[j].sessions
          /\ rooms'[j].sessions[s] = rooms[j].sessions[s]
          /\ Ends(rooms[j].sessions[s]) \cap S = {}
    BY <1>1, <1>4, <1>5, <1>6 DEF SessionsEnded
  <1>8. \A j \in DOMAIN rooms : \A s \in DOMAIN rooms[j].sessions :
          Ends(rooms[j].sessions[s]) \cap S = {} =>
            /\ j \in DOMAIN rooms' /\ s \in DOMAIN rooms'[j].sessions
            /\ rooms'[j].sessions[s] = rooms[j].sessions[s]
    BY <1>1, <1>5, <1>6 DEF SessionsEnded
  <1> QED
    BY <1>1, <1>2, <1>3, <1>6, <1>7, <1>8, LeaveStep

LEMMA ClosedMeets ==
  ASSUME IInv, NEW c \in Clients, NEW id \in RoomIDs, Closed(c, id)
  PROVE  Meeting!Next
  <1> DEFINE S == Members(rooms[id])
  <1>1. /\ id \in DOMAIN rooms /\ c \in S
        /\ DOMAIN rooms' = DOMAIN rooms \ {id}
        /\ \A j \in DOMAIN rooms \ {id} : rooms'[j] = rooms[j]
        /\ Cut(S)
    BY DEF Closed, Elsewhere
  <1>2. /\ S # {} /\ S \subseteq DOMAIN connected
        /\ \E j \in DOMAIN rooms : S = Members(rooms[j])
    BY <1>1, LeavingOnce
  <1>3. \A j \in DOMAIN rooms \ {id} : Members(rooms[j]) \cap S = {}
    BY <1>1, LeavingOnce
  <1>4. \A j \in RoomIDs : AudienceIn(rooms')[j] = AudienceIn(rooms)[j] \ S
    BY <1>1, <1>3 DEF AudienceIn
  <1>5. PresentingIn(rooms') = PresentingIn(rooms) \ S
    <2>1. Presenters(rooms[id]) \subseteq S
      BY DEF Presenters
    <2>2. \A j \in DOMAIN rooms \ {id} : Presenters(rooms[j]) \cap S = {}
      BY <1>3 DEF Presenters
    <2> HIDE DEF S
    <2>3. \A d : d \in PresentingIn(rooms') <=> d \in PresentingIn(rooms) /\ d \notin S
      BY <1>1, <2>1, <2>2, PresentingElements
    <2> QED
      BY <2>3
  <1>6. \A j \in DOMAIN rooms \ {id} : \A s \in DOMAIN rooms[j].sessions :
          Ends(rooms[j].sessions[s]) \cap S = {}
    BY <1>3, EndsAreMembers
  <1>7. \A s \in DOMAIN rooms[id].sessions : Ends(rooms[id].sessions[s]) \cap S # {}
    BY <1>1, EndsAreMembers DEF Ends
  <1> HIDE DEF S
  <1>8. \A j \in DOMAIN rooms' : \A s \in DOMAIN rooms'[j].sessions :
          /\ j \in DOMAIN rooms /\ s \in DOMAIN rooms[j].sessions
          /\ rooms'[j].sessions[s] = rooms[j].sessions[s]
          /\ Ends(rooms[j].sessions[s]) \cap S = {}
    BY <1>1, <1>6
  <1>9. \A j \in DOMAIN rooms : \A s \in DOMAIN rooms[j].sessions :
          Ends(rooms[j].sessions[s]) \cap S = {} =>
            /\ j \in DOMAIN rooms' /\ s \in DOMAIN rooms'[j].sessions
            /\ rooms'[j].sessions[s] = rooms[j].sessions[s]
    BY <1>1, <1>7
  <1> QED
    BY <1>1, <1>2, <1>4, <1>5, <1>8, <1>9, LeaveStep

\* Nothing else is seen at the level of ScreenShare.
LEMMA OthersMeet ==
  ASSUME IInv, NEW c \in Clients,
         Connected(c) \/ Break(c) \/ \E id \in RoomIDs : Renamed(id)
  PROVE  UNCHANGED Meeting!vars
  <1>1. CASE Connected(c) \/ Break(c)
    <2>1. rooms' = rooms
      BY <1>1 DEF Connected, Break
    <2>2. \/ link[c] = "new" /\ link' = [link EXCEPT ![c] = "open"]
          \/ link[c] = "open" /\ link' = [link EXCEPT ![c] = "broken"]
      BY <1>1 DEF Connected, Break
    <2>3. GoneIn(link') = GoneIn(link)
      BY <2>2 DEF GoneIn, IInv, TypeOK
    <2> QED
      BY <2>1, <2>3, MeetingSame
  <1>2. ASSUME NEW id \in RoomIDs, Renamed(id) PROVE UNCHANGED Meeting!vars
    <2>1. /\ id \in DOMAIN rooms /\ DOMAIN rooms' = DOMAIN rooms /\ link' = link
          /\ \A j \in DOMAIN rooms : Members(rooms'[j]) = Members(rooms[j])
          /\ \A j \in DOMAIN rooms : Presenters(rooms'[j]) = Presenters(rooms[j])
          /\ \A j \in DOMAIN rooms : rooms'[j].sessions = rooms[j].sessions
      BY <1>2 DEF Renamed, Succeeded, Elsewhere, SameCompany
    <2>2. AudienceIn(rooms') = AudienceIn(rooms) /\ GoneIn(link') = GoneIn(link)
      BY <2>1 DEF AudienceIn, GoneIn
    <2>3. \A d : d \in PresentingIn(rooms') <=> d \in PresentingIn(rooms)
      BY <2>1, PresentingElements
    <2>4. \A w : w \in WatchingIn(rooms') <=> w \in WatchingIn(rooms)
      BY <2>1, WatchingElements
    <2> QED
      BY <2>2, <2>3, <2>4, MeetingSame
  <1> QED
    BY <1>1, <1>2

\* The event loop keeps what ScreenShare promises: its users are let in and shown
\* what is presented, and lose it, in steps of ScreenShare.
THEOREM ScreenShareImplemented ==
  ASSUME RoomNames PROVE Spec => MeetingSpec
  <1>1. Init => Meeting!Init
    BY DEF Init, EmptyMap, Meeting!Init, AudienceOf
  <1>2. AttendedInv /\ [Next]_vars => [Meeting!Next]_(Meeting!vars)
    <2> SUFFICES ASSUME AttendedInv, [Next]_vars PROVE [Meeting!Next]_(Meeting!vars)
      OBVIOUS
    <2>1. CASE Passed
      <3>1. rooms' = rooms /\ link' = link
        BY <2>1 DEF Passed
      <3> QED
        BY <3>1, MeetingSame
    <2>2. ASSUME NEW c \in Clients, Effect(c) PROVE [Meeting!Next]_(Meeting!vars)
      <3>1. IInv
        BY DEF AttendedInv
      <3> QED
        BY <2>2, <3>1, OthersMeet, CreatedMeets, JoinedMeets, SharedMeets, StoppedMeets,
           DroppedMeets, DepartedMeets, ClosedMeets DEF Effect
    <2> QED
      BY <2>1, <2>2, StepEffect DEF AttendedInv
  <1> QED
    BY <1>1, <1>2, AttendedInvariance, PTL DEF Spec, MeetingSpec, Meeting!Spec
=============================================================================
