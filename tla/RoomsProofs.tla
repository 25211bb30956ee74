---------------------------- MODULE RoomsProofs ----------------------------
(***************************************************************************)
(* The invariants of Rooms, for any number of connections, rooms and       *)
(* sessions, as long as no request names the room "": see RoomNames.       *)
(***************************************************************************)
EXTENDS Rooms, RoomProofs, FiniteSetTheorems

\* No request carries the zero value "" as the name of a room.
RoomNames == NoRoom \notin RoomIDs

-----------------------------------------------------------------------------
(* The parts of the inductive invariant, for any value of the maps. *)

AllSound(rms) ==
  /\ DOMAIN rms \subseteq RoomIDs
  /\ \A id \in DOMAIN rms : Sound(rms[id])

Disjoint(rms) ==
  \A i, j \in DOMAIN rms :
    DOMAIN rms[i].sessions \cap DOMAIN rms[j].sessions # {} => i = j

AllCredentials(rms) ==
  UNION {Credentials(rms[id], DOMAIN rms[id].sessions) : id \in DOMAIN rms}

Placed(conn, rms) ==
  /\ \A c \in Clients, id \in DOMAIN rms :
       c \in Members(rms[id]) <=> c \in DOMAIN conn /\ conn[c] = id
  /\ \A c \in DOMAIN conn : conn[c] # NoRoom => conn[c] \in DOMAIN rms

IInv ==
  /\ TypeOK
  /\ Registered
  /\ AllSound(rooms)
  /\ Disjoint(rooms)
  /\ lookup = AllCredentials(rooms)
  /\ Placed(connected, rooms)

-----------------------------------------------------------------------------
\* Replacing a room by a sound one of which no session is another room's.
LEMMA PutRoomSound ==
  ASSUME NEW rms, AllSound(rms), Disjoint(rms),
         NEW id \in RoomIDs, NEW r, Sound(r),
         \A j \in DOMAIN rms : j # id => DOMAIN r.sessions \cap DOMAIN rms[j].sessions = {}
  PROVE  AllSound(Put(rms, id, r)) /\ Disjoint(Put(rms, id, r))
  <1> DEFINE p == Put(rms, id, r)
  <1>1. /\ DOMAIN p = DOMAIN rms \cup {id} /\ p[id] = r
        /\ \A j \in DOMAIN rms : j # id => p[j] = rms[j]
    BY DEF Put
  <1> HIDE DEF p
  <1>2. AllSound(p)
    BY <1>1 DEF AllSound
  <1>3. Disjoint(p)
    BY <1>1 DEF Disjoint
  <1> QED
    BY <1>2, <1>3 DEF p

\* Opening sessions adds their credentials ...
LEMMA CredentialsGrow ==
  ASSUME NEW rms, NEW id \in DOMAIN rms, NEW r, NEW ids,
         r.mode = rms[id].mode,
         DOMAIN r.sessions = DOMAIN rms[id].sessions \cup ids
  PROVE  AllCredentials(Put(rms, id, r)) = AllCredentials(rms) \cup Credentials(rms[id], ids)
  <1> DEFINE p == Put(rms, id, r)
  <1>1. /\ DOMAIN p = DOMAIN rms /\ p[id] = r
        /\ \A j \in DOMAIN rms \ {id} : p[j] = rms[j]
    BY DEF Put
  <1>2. Credentials(r, DOMAIN r.sessions) =
          Credentials(rms[id], DOMAIN rms[id].sessions) \cup Credentials(rms[id], ids)
    BY DEF Credentials
  <1> HIDE DEF p
  <1>3. AllCredentials(p) = AllCredentials(rms) \cup Credentials(rms[id], ids)
    BY <1>1, <1>2 DEF AllCredentials
  <1> QED
    BY <1>3 DEF p

\* ... and closing them removes these, for no other room has the same xids.
LEMMA CredentialsShrink ==
  ASSUME NEW rms, Disjoint(rms), NEW id \in DOMAIN rms, NEW r,
         NEW ids, ids \subseteq DOMAIN rms[id].sessions,
         r.mode = rms[id].mode,
         DOMAIN r.sessions = DOMAIN rms[id].sessions \ ids
  PROVE  AllCredentials(Put(rms, id, r)) = AllCredentials(rms) \ Credentials(rms[id], ids)
  <1> DEFINE p == Put(rms, id, r)
  <1>1. /\ DOMAIN p = DOMAIN rms /\ p[id] = r
        /\ \A j \in DOMAIN rms \ {id} : p[j] = rms[j]
    BY DEF Put
  <1>2. Credentials(r, DOMAIN r.sessions) =
          Credentials(rms[id], DOMAIN rms[id].sessions) \ Credentials(rms[id], ids)
    BY DEF Credentials
  <1>3. \A j \in DOMAIN rms \ {id} :
          Credentials(rms[j], DOMAIN rms[j].sessions) \cap Credentials(rms[id], ids) = {}
    BY DEF Disjoint, Credentials
  <1> HIDE DEF p
  <1>4. AllCredentials(p) = AllCredentials(rms) \ Credentials(rms[id], ids)
    <2>1. ASSUME NEW x \in AllCredentials(p)
          PROVE  x \in AllCredentials(rms) /\ x \notin Credentials(rms[id], ids)
      <3>1. PICK j \in DOMAIN p : x \in Credentials(p[j], DOMAIN p[j].sessions)
        BY <2>1 DEF AllCredentials
      <3>2. x \in Credentials(rms[j], DOMAIN rms[j].sessions) /\ x \notin Credentials(rms[id], ids)
        BY <1>1, <1>2, <1>3, <3>1
      <3> QED
        BY <1>1, <3>1, <3>2 DEF AllCredentials
    <2>2. ASSUME NEW x \in AllCredentials(rms), x \notin Credentials(rms[id], ids)
          PROVE  x \in AllCredentials(p)
      <3>1. PICK j \in DOMAIN rms : x \in Credentials(rms[j], DOMAIN rms[j].sessions)
        BY <2>2 DEF AllCredentials
      <3>2. x \in Credentials(p[j], DOMAIN p[j].sessions)
        BY <1>1, <1>2, <2>2, <3>1
      <3> QED
        BY <1>1, <3>1, <3>2 DEF AllCredentials
    <2> QED
      BY <2>1, <2>2
  <1> QED
    BY <1>4 DEF p

\* Deleting a room takes all of its credentials away and no other.
LEMMA RemoveRoom ==
  ASSUME NEW rms, AllSound(rms), Disjoint(rms), NEW id \in DOMAIN rms
  PROVE  LET w == Without(rms, {id})
         IN  /\ AllSound(w) /\ Disjoint(w)
             /\ DOMAIN w = DOMAIN rms \ {id}
             /\ \A j \in DOMAIN w : w[j] = rms[j]
             /\ AllCredentials(w) =
                  AllCredentials(rms) \ Credentials(rms[id], DOMAIN rms[id].sessions)
  <1> DEFINE w == Without(rms, {id})
  <1>1. DOMAIN w = DOMAIN rms \ {id} /\ \A j \in DOMAIN w : w[j] = rms[j]
    BY DEF Without, Restrict
  <1>2. \A j \in DOMAIN rms \ {id} :
          Credentials(rms[j], DOMAIN rms[j].sessions)
            \cap Credentials(rms[id], DOMAIN rms[id].sessions) = {}
    BY DEF Disjoint, Credentials
  <1> HIDE DEF w
  <1>3. AllSound(w) /\ Disjoint(w)
    BY <1>1 DEF AllSound, Disjoint
  <1>4. AllCredentials(w) = AllCredentials(rms) \ Credentials(rms[id], DOMAIN rms[id].sessions)
    BY <1>1, <1>2 DEF AllCredentials
  <1> QED
    BY <1>1, <1>3, <1>4 DEF w

\* The parts of the invariant, in the names of the checked properties.
LEMMA IInvProperties ==
  IInv => /\ Placement /\ RoomsExist /\ OneRoomPerClient
          /\ SessionEnds /\ StreamsReachEveryone
          /\ CredentialsOfSessions
  <1> SUFFICES ASSUME IInv PROVE /\ Placement /\ RoomsExist /\ OneRoomPerClient
                                 /\ SessionEnds /\ StreamsReachEveryone
                                 /\ CredentialsOfSessions
    OBVIOUS
  <1>1. Placement /\ RoomsExist
    BY DEF IInv, Placed, Placement, RoomsExist, Receive
  <1>2. OneRoomPerClient
    <2>1. \A id \in DOMAIN rooms : Members(rooms[id]) \subseteq Clients
      BY DEF IInv, AllSound, Sound, RoomOK, IsMap, Members
    <2> QED
      BY <1>1, <2>1 DEF OneRoomPerClient, Placement
  <1>3. SessionEnds
    BY DEF IInv, AllSound, Sound, EndsOK, SessionEnds
  <1>4. StreamsReachEveryone
    BY DEF IInv, AllSound, Sound, ReachOK, Reached, StreamsReachEveryone
  <1>5. CredentialsOfSessions
    BY DEF IInv, AllCredentials, CredentialsOfSessions
  <1> QED
    BY <1>1, <1>2, <1>3, <1>4, <1>5

\* The invariant holds of a server without connections.
LEMMA InitIInv == ASSUME Init PROVE IInv
  <1>1. TypeOK
    BY DEF Init, TypeOK, IsMap, EmptyMap, LinkStates, Count, Gauges
  <1>2. Registered
    BY DEF Init, Registered, EmptyMap
  <1>3. AllSound(rooms) /\ Disjoint(rooms) /\ lookup = AllCredentials(rooms)
    BY DEF Init, EmptyMap, AllSound, Disjoint, AllCredentials
  <1>4. Placed(connected, rooms)
    BY DEF Init, EmptyMap, Placed
  <1> QED
    BY <1>1, <1>2, <1>3, <1>4 DEF IInv

-----------------------------------------------------------------------------
(* Facts the steps share. *)

\* Counting sessions or connections gives an integer, for both are finite.
LEMMA CountsAreIntegers ==
  /\ \A S \in SUBSET SessionIDs : Cardinality(S) \in Int
  /\ \A S \in SUBSET Clients : Cardinality(S) \in Int
  BY ConfigAssumption, FS_Subset, FS_CardinalityType

\* An xid taken from FreeIDs is no session's of any room.
LEMMA FreeIDsUnused ==
  /\ FreeIDs \subseteq SessionIDs
  /\ \A id \in DOMAIN rooms : FreeIDs \cap DOMAIN rooms[id].sessions = {}
  BY DEF FreeIDs

\* Cutting connections off keeps connected a map and in step with the links.
LEMMA CutOK ==
  ASSUME TypeOK, Registered, NEW gone, gone \subseteq Clients, Cut(gone)
  PROVE  /\ IsMap(connected', Clients, RoomIDs \cup {NoRoom})
         /\ link' \in [Clients -> LinkStates]
         /\ Registered'
         /\ DOMAIN connected' = DOMAIN connected \ gone
         /\ \A c \in DOMAIN connected' : connected'[c] = connected[c]
  <1>1. /\ IsMap(connected', Clients, RoomIDs \cup {NoRoom})
        /\ DOMAIN connected' = DOMAIN connected \ gone
        /\ \A c \in DOMAIN connected' : connected'[c] = connected[c]
    BY DEF TypeOK, Cut, IsMap, Without, Restrict
  <1>2. /\ link' \in [Clients -> LinkStates]
        /\ \A c \in Clients : link'[c] = IF c \in gone THEN "closed" ELSE link[c]
    BY DEF TypeOK, Cut, LinkStates
  <1>3. Registered'
    BY <1>1, <1>2 DEF Registered
  <1> QED
    BY <1>1, <1>2, <1>3

\* Showing a room to its members shows it to connections.
LEMMA ShownOK ==
  ASSUME NEW before, DOMAIN before \subseteq Clients, NEW id, NEW room, RoomOK(room)
  PROVE  DOMAIN Shown(before, id, room) \subseteq Clients
  <1>1. Reachable(room) \subseteq Clients
    BY DEF Reachable, Members, RoomOK, IsMap
  <1> QED
    BY <1>1 DEF Shown

\* What a browser was told keeps its type.
LEMMA AnnouncedOK ==
  ASSUME TypeOK
  PROVE  /\ \A new : DOMAIN new \subseteq SessionIDs /\ Announce(new)
                       => announced' \in [Clients -> SUBSET SessionIDs]
         /\ \A room, ids, gone : EndShares(room, ids, gone)
                                   => announced' \in [Clients -> SUBSET SessionIDs]
  BY DEF TypeOK, Announce, EndShares

-----------------------------------------------------------------------------
(* The end of a connection.  LeftOK says what a handler that fails may have
   changed: at most the room the connection is in, where its own sessions may
   be missing. *)

LeftOK(c, s) ==
  /\ c \in DOMAIN connected
  /\ s.id \in RoomIDs \cup {NoRoom}
  /\ connected[c] \in {NoRoom, s.id}
  /\ s.users \in Int
  /\ DOMAIN s.view \subseteq Clients
  /\ DOMAIN s.rooms = DOMAIN rooms
  /\ \A j \in DOMAIN rooms \ {s.id} : s.rooms[j] = rooms[j]
  /\ s.id = NoRoom => s.rooms = rooms
  /\ s.id # NoRoom =>
       /\ s.id \in DOMAIN rooms
       /\ RoomOK(s.rooms[s.id]) /\ EndsOK(s.rooms[s.id]) /\ ReachOK(s.rooms[s.id], {c})
       /\ Members(s.rooms[s.id]) = Members(rooms[s.id]) \cup {c}
       /\ s.rooms[s.id].sessions = rooms[s.id].sessions
       /\ s.rooms[s.id].mode = rooms[s.id].mode

\* A connection in no room is just taken off the map.
LEMMA DisconnectOnlyIInv ==
  ASSUME RoomNames, IInv, NEW c, NEW s, LeftOK(c, s), relayed' = {}, DisconnectOnly(c, s)
  PROVE  IInv'
  <1>1. s.id = NoRoom /\ s.rooms = rooms
    BY DEF LeftOK, DisconnectOnly, HasRoom
  <1>2. c \in Clients /\ connected[c] = NoRoom
    BY <1>1 DEF LeftOK, IInv, TypeOK, IsMap
  <1>3. rooms' = rooms /\ lookup' = lookup /\ Cut({c})
    BY <1>1 DEF DisconnectOnly
  <1>4. /\ IsMap(connected', Clients, RoomIDs \cup {NoRoom})
        /\ link' \in [Clients -> LinkStates]
        /\ Registered'
        /\ DOMAIN connected' = DOMAIN connected \ {c}
        /\ \A d \in DOMAIN connected' : connected'[d] = connected[d]
    BY <1>2, <1>3, CutOK DEF IInv
  <1>5. /\ gauge' \in Gauges
        /\ DOMAIN view' \subseteq Clients
        /\ announced' \in [Clients -> SUBSET SessionIDs]
    BY AnnouncedOK DEF DisconnectOnly, LeftOK, IInv, TypeOK, Without, Restrict, Count, Gauges
  <1>6. TypeOK'
    BY <1>3, <1>4, <1>5 DEF IInv, TypeOK
  <1>7. Placed(connected', rooms)
    <2>1. \A id \in DOMAIN rooms : id # NoRoom
      BY DEF IInv, AllSound, RoomNames
    <2> QED
      BY <1>2, <1>4, <2>1 DEF IInv, Placed
  <1> QED
    BY <1>3, <1>4, <1>6, <1>7 DEF IInv

\* A connection leaves a room that stays, with the sessions it was an end of.
LEMMA DisconnectAndLeaveIInv ==
  ASSUME RoomNames, IInv, NEW c, NEW s, LeftOK(c, s), relayed' = {}, DisconnectAndLeave(c, s)
  PROVE  IInv'
  <1> DEFINE id == s.id
             room == s.rooms[id]
             ended == SessionsOf(room, c)
             rest == WithoutUser(CloseSessions(room, ended), c)
  <1>1. /\ Cut({c})
        /\ rooms' = Put(s.rooms, id, rest)
        /\ lookup' = lookup \ Credentials(room, ended)
        /\ gauge' = Count(s.users - 1, gauge.rooms, gauge.sessions - Cardinality(ended))
        /\ view' = Without(Shown(s.view, id, rest), {c})
        /\ EndShares(room, ended, {c})
    BY DEF DisconnectAndLeave, Disallow
  <1>2. /\ id \in DOMAIN rooms /\ id \in RoomIDs /\ c \in Members(room)
        /\ RoomOK(room) /\ EndsOK(room) /\ ReachOK(room, {c})
        /\ Members(room) = Members(rooms[id]) \cup {c}
        /\ room.sessions = rooms[id].sessions /\ room.mode = rooms[id].mode
    BY DEF DisconnectAndLeave, HasRoom, LeftOK
  <1>3. /\ Sound(rest) /\ rest.mode = room.mode
        /\ Members(rest) = Members(room) \ {c}
        /\ DOMAIN rest.sessions = DOMAIN room.sessions \ ended
    BY <1>2, LeftSound
  <1>4. c \in Clients /\ ended \subseteq DOMAIN rooms[id].sessions /\ ended \subseteq SessionIDs
    BY <1>2 DEF RoomOK, IsMap, Members, SessionsOf
  <1>5. Put(s.rooms, id, rest) = Put(rooms, id, rest)
    BY <1>2 DEF LeftOK, Put
  <1> HIDE DEF rest
  <1>6. /\ AllSound(rooms') /\ Disjoint(rooms')
        /\ DOMAIN rooms' = DOMAIN rooms
        /\ rooms'[id] = rest
        /\ \A j \in DOMAIN rooms \ {id} : rooms'[j] = rooms[j]
    <2>1. \A j \in DOMAIN rooms : j # id => DOMAIN rest.sessions \cap DOMAIN rooms[j].sessions = {}
      BY <1>2, <1>3 DEF IInv, Disjoint
    <2>2. AllSound(rooms) /\ Disjoint(rooms)
      BY DEF IInv
    <2>3. rooms' = Put(rooms, id, rest) /\ Sound(rest) /\ id \in RoomIDs
      BY <1>1, <1>2, <1>3, <1>5
    <2> HIDE DEF room, ended, id
    <2>4. AllSound(Put(rooms, id, rest)) /\ Disjoint(Put(rooms, id, rest))
      BY <2>1, <2>2, <2>3, PutRoomSound
    <2>5. /\ DOMAIN Put(rooms, id, rest) = DOMAIN rooms \cup {id}
          /\ Put(rooms, id, rest)[id] = rest
          /\ \A j \in DOMAIN rooms : j # id => Put(rooms, id, rest)[j] = rooms[j]
      BY DEF Put
    <2> QED
      BY <1>2, <2>3, <2>4, <2>5
  <1>7. lookup' = AllCredentials(rooms')
    <2>1. Credentials(room, ended) = Credentials(rooms[id], ended)
      BY <1>2 DEF Credentials
    <2>2. AllCredentials(Put(rooms, id, rest)) = AllCredentials(rooms) \ Credentials(rooms[id], ended)
      BY <1>2, <1>3, <1>4, CredentialsShrink DEF IInv
    <2> QED
      BY <1>1, <1>5, <2>1, <2>2 DEF IInv
  <1>8. /\ IsMap(connected', Clients, RoomIDs \cup {NoRoom})
        /\ link' \in [Clients -> LinkStates]
        /\ Registered'
        /\ DOMAIN connected' = DOMAIN connected \ {c}
        /\ \A d \in DOMAIN connected' : connected'[d] = connected[d]
    BY <1>1, <1>4, CutOK DEF IInv
  <1>9. Placed(connected', rooms')
    <2>1. connected[c] \in {NoRoom, id} /\ \A j \in DOMAIN rooms : j # NoRoom
      BY DEF LeftOK, IInv, AllSound, RoomNames
    <2>2. ASSUME NEW d \in Clients, NEW j \in DOMAIN rooms
          PROVE  d \in Members(rooms'[j]) <=> d \in DOMAIN connected' /\ connected'[d] = j
      <3>1. CASE j = id
        BY <1>2, <1>3, <1>6, <1>8, <3>1 DEF IInv, Placed
      <3>2. CASE j # id
        BY <1>6, <1>8, <2>1, <3>2 DEF IInv, Placed
      <3> QED
        BY <3>1, <3>2
    <2> QED
      BY <1>6, <1>8, <2>2 DEF IInv, Placed
  <1>10. gauge' \in Gauges
    <2>1. Cardinality(ended) \in Int
      BY <1>4, CountsAreIntegers
    <2> HIDE DEF ended
    <2> QED
      BY <1>1, <2>1 DEF IInv, TypeOK, LeftOK, Count, Gauges
  <1>11. DOMAIN view' \subseteq Clients
    <2>1. DOMAIN Shown(s.view, id, rest) \subseteq Clients
      BY <1>3, ShownOK DEF LeftOK, Sound
    <2> QED
      BY <1>1, <2>1 DEF Without, Restrict
  <1>12. announced' \in [Clients -> SUBSET SessionIDs]
    BY <1>1, AnnouncedOK DEF IInv
  <1>13. TypeOK'
    <2>1. lookup' \subseteq SessionIDs \X {"host", "client"}
      BY <1>1 DEF IInv, TypeOK
    <2>2. DOMAIN rooms' \subseteq RoomIDs /\ \A j \in DOMAIN rooms' : RoomOK(rooms'[j])
      BY <1>6 DEF AllSound, Sound
    <2> QED
      BY <1>8, <1>10, <1>11, <1>12, <2>1, <2>2 DEF TypeOK
  <1> QED
    BY <1>6, <1>7, <1>8, <1>9, <1>13 DEF IInv

\* A room closes on everybody in it, with all of its sessions.
LEMMA DisconnectAndCloseRoomIInv ==
  ASSUME RoomNames, IInv, NEW c, NEW s, LeftOK(c, s), relayed' = {}, DisconnectAndCloseRoom(c, s)
  PROVE  IInv'
  <1> DEFINE id == s.id
             room == s.rooms[id]
             gone == Members(room) \cup {c}
             ids == DOMAIN room.sessions
  <1>1. /\ Cut(gone)
        /\ rooms' = Without(s.rooms, {id})
        /\ lookup' = lookup \ Credentials(room, ids)
        /\ gauge' = Count(s.users - Cardinality(gone), gauge.rooms - 1,
                          gauge.sessions - Cardinality(ids))
        /\ view' = Without(s.view, gone)
        /\ EndShares(room, ids, gone)
    BY DEF DisconnectAndCloseRoom, CloseRoom, Disallow, Evicted
  <1>2. /\ id \in DOMAIN rooms /\ c \in Members(room) /\ RoomOK(room)
        /\ Members(room) = Members(rooms[id]) \cup {c}
        /\ room.sessions = rooms[id].sessions /\ room.mode = rooms[id].mode
    BY DEF DisconnectAndCloseRoom, HasRoom, LeftOK
  <1>3. gone \subseteq Clients /\ ids \subseteq SessionIDs
    BY <1>2 DEF RoomOK, IsMap, Members
  <1>4. Without(s.rooms, {id}) = Without(rooms, {id})
    BY DEF LeftOK, Without, Restrict
  <1>5. /\ AllSound(rooms') /\ Disjoint(rooms')
        /\ DOMAIN rooms' = DOMAIN rooms \ {id}
        /\ \A j \in DOMAIN rooms' : rooms'[j] = rooms[j]
        /\ lookup' = AllCredentials(rooms')
    <2>1. Credentials(room, ids) = Credentials(rooms[id], DOMAIN rooms[id].sessions)
      BY <1>2 DEF Credentials
    <2>2. AllSound(rooms) /\ Disjoint(rooms) /\ lookup = AllCredentials(rooms)
      BY DEF IInv
    <2>3. rooms' = Without(rooms, {id}) /\ id \in DOMAIN rooms
      BY <1>1, <1>2, <1>4
    <2> HIDE DEF room, ids, id
    <2>4. LET w == Without(rooms, {id})
          IN  /\ AllSound(w) /\ Disjoint(w)
              /\ DOMAIN w = DOMAIN rooms \ {id}
              /\ \A j \in DOMAIN w : w[j] = rooms[j]
              /\ AllCredentials(w) =
                   AllCredentials(rooms) \ Credentials(rooms[id], DOMAIN rooms[id].sessions)
      BY <2>2, <2>3, RemoveRoom
    <2> QED
      BY <1>1, <2>1, <2>2, <2>3, <2>4
  <1>6. /\ IsMap(connected', Clients, RoomIDs \cup {NoRoom})
        /\ link' \in [Clients -> LinkStates]
        /\ Registered'
        /\ DOMAIN connected' = DOMAIN connected \ gone
        /\ \A d \in DOMAIN connected' : connected'[d] = connected[d]
    BY <1>1, <1>3, CutOK DEF IInv
  <1>7. Placed(connected', rooms')
    <2>1. connected[c] \in {NoRoom, id} /\ \A j \in DOMAIN rooms : j # NoRoom
      BY DEF LeftOK, IInv, AllSound, RoomNames
    <2>2. \A d \in gone : d \in DOMAIN connected /\ connected[d] \in {NoRoom, id}
      BY <1>2, <1>3, <2>1 DEF LeftOK, IInv, Placed
    <2>3. ASSUME NEW d \in DOMAIN connected', connected'[d] # NoRoom
          PROVE  connected'[d] \in DOMAIN rooms'
      <3>1. connected[d] \in DOMAIN rooms /\ d \in Clients /\ d \notin Members(room)
        BY <1>2, <1>6, <2>3 DEF IInv, Placed, IsMap
      <3> QED
        BY <1>2, <1>5, <1>6, <2>3, <3>1 DEF IInv, Placed
    <2> QED
      BY <1>5, <1>6, <2>1, <2>2, <2>3 DEF IInv, Placed
  <1>8. gauge' \in Gauges
    <2>1. Cardinality(gone) \in Int /\ Cardinality(ids) \in Int
      BY <1>3, CountsAreIntegers
    <2> HIDE DEF gone, ids
    <2> QED
      BY <1>1, <2>1 DEF IInv, TypeOK, LeftOK, Count, Gauges
  <1>9. DOMAIN view' \subseteq Clients /\ announced' \in [Clients -> SUBSET SessionIDs]
    BY <1>1, AnnouncedOK DEF IInv, LeftOK, Without, Restrict
  <1>10. TypeOK'
    <2>1. lookup' \subseteq SessionIDs \X {"host", "client"}
      BY <1>1 DEF IInv, TypeOK
    <2>2. DOMAIN rooms' \subseteq RoomIDs /\ \A j \in DOMAIN rooms' : RoomOK(rooms'[j])
      BY <1>5 DEF AllSound, Sound
    <2> QED
      BY <1>6, <1>8, <1>9, <2>1, <2>2 DEF TypeOK
  <1> QED
    BY <1>5, <1>6, <1>7, <1>10 DEF IInv

\* However a handler ends the connection, the invariant holds afterwards.
LEMMA DisconnectIInv ==
  ASSUME RoomNames, IInv, NEW c, NEW s, LeftOK(c, s), Disconnect(c, s)
  PROVE  IInv'
  BY DisconnectOnlyIInv, DisconnectAndLeaveIInv, DisconnectAndCloseRoomIInv DEF Disconnect

-----------------------------------------------------------------------------
(* What the handlers that fail leave. *)

\* The room a registered connection is in, if it is in one.
LEMMA CurrentRoomOK ==
  ASSUME RoomNames, IInv, NEW c, Receive(c)
  PROVE  /\ c \in Clients /\ c \in DOMAIN connected /\ Current(c) = connected[c]
         /\ connected[c] \in RoomIDs \cup {NoRoom}
         /\ connected[c] # NoRoom =>
              /\ connected[c] \in DOMAIN rooms /\ connected[c] \in RoomIDs
              /\ Sound(rooms[connected[c]])
              /\ c \in Members(rooms[connected[c]])
  BY DEF IInv, TypeOK, IsMap, Receive, Current, Placed, AllSound

\* A handler that fails at once has changed nothing.
LEMMA UnchangedLeftOK ==
  ASSUME RoomNames, IInv, NEW c, Receive(c)
  PROVE  LeftOK(c, Unchanged(c))
  <1>1. /\ c \in DOMAIN connected /\ Current(c) = connected[c]
        /\ connected[c] \in RoomIDs \cup {NoRoom}
        /\ connected[c] # NoRoom =>
             /\ connected[c] \in DOMAIN rooms
             /\ Sound(rooms[connected[c]])
             /\ c \in Members(rooms[connected[c]])
    BY CurrentRoomOK
  <1>2. gauge.users \in Int /\ DOMAIN view \subseteq Clients
    BY DEF IInv, TypeOK, Gauges
  <1>3. ASSUME connected[c] # NoRoom
        PROVE  LET room == rooms[connected[c]]
               IN RoomOK(room) /\ EndsOK(room) /\ ReachOK(room, {c})
    BY <1>1, <1>3 DEF Sound, ReachOK
  <1> QED
    BY <1>1, <1>2, <1>3 DEF LeftOK, Unchanged, Left

\* A join that fails has let the user in.
LEMMA JoinFailsLeftOK ==
  ASSUME RoomNames, IInv, NEW c, Receive(c), Current(c) = NoRoom,
         NEW id \in DOMAIN rooms, NEW name \in Names
  PROVE  LET room == WithUser(rooms[id], c, name)
         IN  LeftOK(c, Left(id, Put(rooms, id, room), gauge.users + 1, Shown(view, id, room)))
  <1> DEFINE room == WithUser(rooms[id], c, name)
             shown == Shown(view, id, room)
             rms == Put(rooms, id, room)
             s == Left(id, rms, gauge.users + 1, shown)
  <1>1. c \in Clients /\ c \in DOMAIN connected /\ connected[c] = NoRoom
    BY CurrentRoomOK
  <1>2. Sound(rooms[id]) /\ id \in RoomIDs /\ id # NoRoom /\ c \notin Members(rooms[id])
    BY <1>1 DEF IInv, AllSound, RoomNames, Placed
  <1>3. /\ RoomOK(room) /\ EndsOK(room) /\ ReachOK(room, {c})
        /\ Members(room) = Members(rooms[id]) \cup {c}
        /\ room.sessions = rooms[id].sessions /\ room.mode = rooms[id].mode
    BY <1>1, <1>2, WithUserOK
  <1> HIDE DEF room
  <1>4. /\ DOMAIN rms = DOMAIN rooms /\ rms[id] = room
        /\ \A j \in DOMAIN rooms \ {id} : rms[j] = rooms[j]
    BY DEF Put
  <1>5. DOMAIN view \subseteq Clients /\ gauge.users + 1 \in Int
    BY DEF IInv, TypeOK, Gauges
  <1>6. DOMAIN shown \subseteq Clients
    BY <1>3, <1>5, ShownOK
  <1>7. s.id = id /\ s.rooms = rms /\ s.users = gauge.users + 1 /\ s.view = shown
    BY DEF Left
  <1> HIDE DEF rms, shown, s
  <1>8. LeftOK(c, s)
    BY <1>1, <1>2, <1>3, <1>4, <1>5, <1>6, <1>7 DEF LeftOK
  <1> QED
    BY <1>8 DEF s, rms, shown, room

\* A share that fails has set the user streaming.
LEMMA ShareFailsLeftOK ==
  ASSUME RoomNames, IInv, NEW c, InRoom(c)
  PROVE  LET id == connected[c]
         IN  LeftOK(c, Left(id, Put(rooms, id, SetStreaming(rooms[id], c, TRUE)),
                            gauge.users, view))
  <1> DEFINE id == connected[c]
             room == SetStreaming(rooms[id], c, TRUE)
             rms == Put(rooms, id, room)
             s == Left(id, rms, gauge.users, view)
  <1>1. /\ c \in DOMAIN connected /\ id # NoRoom /\ id \in DOMAIN rooms /\ id \in RoomIDs
        /\ Sound(rooms[id]) /\ c \in Members(rooms[id])
    BY CurrentRoomOK DEF InRoom
  <1>2. /\ RoomOK(room) /\ EndsOK(room) /\ ReachOK(room, {c})
        /\ Members(room) = Members(rooms[id])
        /\ room.sessions = rooms[id].sessions /\ room.mode = rooms[id].mode
    BY <1>1, StreamingOK
  <1> HIDE DEF room
  <1>3. /\ DOMAIN rms = DOMAIN rooms /\ rms[id] = room
        /\ \A j \in DOMAIN rooms \ {id} : rms[j] = rooms[j]
    BY <1>1 DEF Put
  <1>4. DOMAIN view \subseteq Clients /\ gauge.users \in Int
    BY DEF IInv, TypeOK, Gauges
  <1>5. s.id = id /\ s.rooms = rms /\ s.users = gauge.users /\ s.view = view
    BY DEF Left
  <1> HIDE DEF rms, s
  <1>6. LeftOK(c, s)
    BY <1>1, <1>2, <1>3, <1>4, <1>5 DEF LeftOK
  <1> QED
    BY <1>6 DEF s, rms, room

-----------------------------------------------------------------------------
(* The handlers that succeed, each of which replaces one room. *)

\* A step that replaces or adds a room keeps the invariant when the room is
\* sound, has nobody new but those the step places in it, and no session that
\* another room has.
LEMMA ReplaceRoomIInv ==
  ASSUME RoomNames, IInv, TypeOK', Registered',
         NEW id \in RoomIDs, NEW r, Sound(r),
         rooms' = Put(rooms, id, r),
         \A j \in DOMAIN rooms : j # id => DOMAIN r.sessions \cap DOMAIN rooms[j].sessions = {},
         lookup' = AllCredentials(rooms'),
         \A d \in Clients : d \in Members(r) <=> d \in DOMAIN connected' /\ connected'[d] = id,
         \A d \in DOMAIN connected' :
           \/ connected'[d] = id
           \/ d \in DOMAIN connected /\ connected'[d] = connected[d],
         \A d \in DOMAIN connected : connected[d] # NoRoom =>
           d \in DOMAIN connected' /\ connected'[d] = connected[d]
  PROVE  IInv'
  <1>1. AllSound(rooms) /\ Disjoint(rooms) /\ Placed(connected, rooms)
    BY DEF IInv
  <1>2. AllSound(rooms') /\ Disjoint(rooms')
    BY <1>1, PutRoomSound
  <1>3. /\ DOMAIN rooms' = DOMAIN rooms \cup {id} /\ rooms'[id] = r
        /\ \A j \in DOMAIN rooms : j # id => rooms'[j] = rooms[j]
    BY DEF Put
  <1>4. \A j \in DOMAIN rooms : j # NoRoom
    BY <1>1 DEF AllSound, RoomNames
  <1>5. Placed(connected', rooms')
    <2>1. ASSUME NEW d \in Clients, NEW j \in DOMAIN rooms', j # id
          PROVE  d \in Members(rooms'[j]) <=> d \in DOMAIN connected' /\ connected'[d] = j
      BY <1>1, <1>3, <1>4, <2>1 DEF Placed
    <2>2. \A d \in DOMAIN connected' : connected'[d] # NoRoom => connected'[d] \in DOMAIN rooms'
      BY <1>1, <1>3 DEF Placed
    <2> QED
      BY <1>3, <2>1, <2>2 DEF Placed
  <1> QED
    BY <1>2, <1>5 DEF IInv

\* The registrations that a handler leaves as they are.
LEMMA SamePlaces ==
  ASSUME IInv, UNCHANGED connected, NEW id \in DOMAIN rooms
  PROVE  /\ \A d \in Clients :
              d \in Members(rooms[id]) <=> d \in DOMAIN connected' /\ connected'[d] = id
         /\ \A d \in DOMAIN connected' :
              \/ connected'[d] = id
              \/ d \in DOMAIN connected /\ connected'[d] = connected[d]
         /\ \A d \in DOMAIN connected : connected[d] # NoRoom =>
              d \in DOMAIN connected' /\ connected'[d] = connected[d]
  BY DEF IInv, Placed

\* The registration of one connection in a room keeps connected a map.
LEMMA EnterPlaces ==
  ASSUME IInv, NEW c, Receive(c), Current(c) = NoRoom, NEW id \in RoomIDs,
         connected' = Put(connected, c, id)
  PROVE  /\ IsMap(connected', Clients, RoomIDs \cup {NoRoom})
         /\ DOMAIN connected' = DOMAIN connected
         /\ connected'[c] = id /\ connected[c] = NoRoom
         /\ \A d \in DOMAIN connected : d # c => connected'[d] = connected[d]
  BY DEF IInv, TypeOK, IsMap, Receive, Current, Put

LEMMA CreateRoomIInv ==
  ASSUME RoomNames, IInv,
         NEW c \in Clients, NEW id \in RoomIDs, NEW mode \in CreateModes,
         NEW close \in BOOLEAN, NEW name \in Names,
         CreateRoom(c, id, mode, close, name)
  PROVE  IInv'
  <1> DEFINE r == NewRoom(mode, close, c, name)
  <1>1. /\ Receive(c) /\ Current(c) = NoRoom /\ id \notin DOMAIN rooms
        /\ rooms' = Put(rooms, id, r) /\ view' = Shown(view, id, r)
        /\ connected' = Put(connected, c, id)
        /\ gauge' = Count(gauge.users + 1, gauge.rooms + 1, gauge.sessions)
        /\ relayed' = {} /\ lookup' = lookup /\ link' = link /\ announced' = announced
    BY DEF CreateRoom
  <1>2. Sound(r) /\ Members(r) = {c} /\ DOMAIN r.sessions = {}
    BY ConfigAssumption, NewRoomSound
  <1> HIDE DEF r
  <1>3. /\ IsMap(connected', Clients, RoomIDs \cup {NoRoom})
        /\ DOMAIN connected' = DOMAIN connected
        /\ connected'[c] = id /\ connected[c] = NoRoom
        /\ \A d \in DOMAIN connected : d # c => connected'[d] = connected[d]
    BY <1>1, EnterPlaces
  <1>4. /\ DOMAIN rooms' = DOMAIN rooms \cup {id} /\ rooms'[id] = r
        /\ \A j \in DOMAIN rooms : j # id => rooms'[j] = rooms[j]
    BY <1>1 DEF Put
  <1>5. TypeOK'
    <2>1. DOMAIN rooms' \subseteq RoomIDs /\ \A j \in DOMAIN rooms' : RoomOK(rooms'[j])
      BY <1>2, <1>4 DEF IInv, TypeOK, Sound
    <2>2. DOMAIN view' \subseteq Clients
      BY <1>1, <1>2, ShownOK DEF IInv, TypeOK, Sound
    <2>3. gauge' \in Gauges
      BY <1>1 DEF IInv, TypeOK, Gauges, Count
    <2> QED
      BY <1>1, <1>3, <2>1, <2>2, <2>3 DEF IInv, TypeOK
  <1>6. Registered'
    BY <1>1, <1>3 DEF IInv, Registered
  <1>7. lookup' = AllCredentials(rooms')
    <2>1. Credentials(r, DOMAIN r.sessions) = {}
      BY <1>2 DEF Credentials
    <2>2. AllCredentials(rooms') = AllCredentials(rooms)
      BY <1>1, <1>4, <2>1 DEF AllCredentials
    <2> QED
      BY <1>1, <2>2 DEF IInv
  <1>8. \A d \in Clients : d \in Members(r) <=> d \in DOMAIN connected' /\ connected'[d] = id
    BY <1>1, <1>2, <1>3 DEF IInv, Placed, Receive, RoomNames
  <1>9. \A j \in DOMAIN rooms : j # id => DOMAIN r.sessions \cap DOMAIN rooms[j].sessions = {}
    BY <1>2
  <1> QED
    BY <1>1, <1>2, <1>3, <1>5, <1>6, <1>7, <1>8, <1>9, ReplaceRoomIInv

\* Opening sessions for a room that is sound with them keeps the xids apart, the
\* credentials complete and the types.
LEMMA OpenAllOK ==
  ASSUME IInv, NEW id \in DOMAIN rooms, NEW room, room.mode = rooms[id].mode,
         NEW new, DOMAIN new \subseteq FreeIDs,
         NEW r, r = OpenSessions(room, new), Sound(r), r.mode = room.mode,
         DOMAIN r.sessions = DOMAIN rooms[id].sessions \cup DOMAIN new,
         NEW users \in Int,
         rooms' = Put(rooms, id, r),
         lookup' = lookup \cup Credentials(room, DOMAIN new),
         Announce(new),
         gauge' = Count(users, gauge.rooms, gauge.sessions + Cardinality(DOMAIN new))
  PROVE  /\ \A j \in DOMAIN rooms : j # id => DOMAIN r.sessions \cap DOMAIN rooms[j].sessions = {}
         /\ lookup' = AllCredentials(rooms')
         /\ lookup' \subseteq SessionIDs \X {"host", "client"}
         /\ DOMAIN rooms' \subseteq RoomIDs /\ \A j \in DOMAIN rooms' : RoomOK(rooms'[j])
         /\ announced' \in [Clients -> SUBSET SessionIDs]
         /\ gauge' \in Gauges
  <1>1. DOMAIN new \subseteq SessionIDs
    BY FreeIDsUnused
  <1>2. \A j \in DOMAIN rooms : j # id => DOMAIN r.sessions \cap DOMAIN rooms[j].sessions = {}
    BY FreeIDsUnused DEF IInv, Disjoint
  <1>3. Credentials(room, DOMAIN new) = Credentials(rooms[id], DOMAIN new)
    BY DEF Credentials
  <1>4. AllCredentials(Put(rooms, id, r)) = AllCredentials(rooms) \cup Credentials(rooms[id], DOMAIN new)
    <2> DEFINE ids == DOMAIN new
    <2>1. r.mode = rooms[id].mode /\ DOMAIN r.sessions = DOMAIN rooms[id].sessions \cup ids
      OBVIOUS
    <2> HIDE DEF ids
    <2>2. AllCredentials(Put(rooms, id, r)) = AllCredentials(rooms) \cup Credentials(rooms[id], ids)
      BY <2>1, CredentialsGrow
    <2> QED
      BY <2>2 DEF ids
  <1>5. lookup' = AllCredentials(rooms')
    BY <1>3, <1>4 DEF IInv
  <1>6. lookup' \subseteq SessionIDs \X {"host", "client"}
    BY <1>1 DEF IInv, TypeOK, Credentials
  <1>7. DOMAIN rooms' \subseteq RoomIDs /\ \A j \in DOMAIN rooms' : RoomOK(rooms'[j])
    BY DEF IInv, TypeOK, Sound, Put
  <1>8. announced' \in [Clients -> SUBSET SessionIDs]
    BY <1>1, AnnouncedOK DEF IInv
  <1>9. gauge' \in Gauges
    <2>1. Cardinality(DOMAIN new) \in Int
      BY <1>1, CountsAreIntegers
    <2> QED
      BY <2>1 DEF IInv, TypeOK, Gauges, Count
  <1> QED
    BY <1>2, <1>5, <1>6, <1>7, <1>8, <1>9

LEMMA JoinRoomIInv ==
  ASSUME RoomNames, IInv,
         NEW c \in Clients, NEW id \in RoomIDs, NEW name \in Names, JoinRoom(c, id, name)
  PROVE  IInv'
  <1> DEFINE room == WithUser(rooms[id], c, name)
             pairs == [host : Presenters(room), client : {c}]
  <1>1. /\ Receive(c) /\ Current(c) = NoRoom /\ id \in DOMAIN rooms
        /\ connected' = Put(connected, c, id)
        /\ view' = Shown(view, id, room)
        /\ OpenAll(id, room, pairs, gauge.users + 1)
        /\ relayed' = {} /\ link' = link
    BY DEF JoinRoom
  <1>2. PICK new \in NewSessions(FreeIDs, pairs) :
          /\ rooms' = Put(rooms, id, OpenSessions(room, new))
          /\ lookup' = lookup \cup Credentials(room, DOMAIN new)
          /\ Announce(new)
          /\ gauge' = Count(gauge.users + 1, gauge.rooms, gauge.sessions + Cardinality(DOMAIN new))
    BY <1>1 DEF OpenAll
  <1> DEFINE r == OpenSessions(room, new)
  <1>3. /\ IsMap(connected', Clients, RoomIDs \cup {NoRoom})
        /\ DOMAIN connected' = DOMAIN connected
        /\ connected'[c] = id /\ connected[c] = NoRoom
        /\ \A d \in DOMAIN connected : d # c => connected'[d] = connected[d]
    BY <1>1, EnterPlaces
  <1>4. Sound(rooms[id]) /\ c \notin Members(rooms[id]) /\ id # NoRoom
    BY <1>1, <1>3 DEF IInv, AllSound, Placed, RoomNames
  <1>5. FreeIDs \subseteq SessionIDs \ DOMAIN rooms[id].sessions
    BY <1>1, FreeIDsUnused
  <1>6. RoomOK(room) /\ room.mode = rooms[id].mode
    BY <1>4, WithUserOK
  <1>7. /\ Sound(r) /\ r.mode = rooms[id].mode
        /\ Members(r) = Members(rooms[id]) \cup {c}
        /\ DOMAIN r.sessions = DOMAIN rooms[id].sessions \cup DOMAIN new
        /\ DOMAIN new \subseteq FreeIDs
    BY <1>2, <1>4, <1>5, JoinedSound
  <1>8. gauge.users + 1 \in Int
    BY DEF IInv, TypeOK, Gauges
  <1> HIDE DEF room, pairs
  <1>9. /\ \A j \in DOMAIN rooms : j # id => DOMAIN r.sessions \cap DOMAIN rooms[j].sessions = {}
        /\ lookup' = AllCredentials(rooms')
        /\ lookup' \subseteq SessionIDs \X {"host", "client"}
        /\ DOMAIN rooms' \subseteq RoomIDs /\ \A j \in DOMAIN rooms' : RoomOK(rooms'[j])
        /\ announced' \in [Clients -> SUBSET SessionIDs]
        /\ gauge' \in Gauges
    BY <1>1, <1>2, <1>6, <1>7, <1>8, OpenAllOK
  <1>10. DOMAIN view' \subseteq Clients
    BY <1>1, <1>6, ShownOK DEF IInv, TypeOK
  <1>11. TypeOK' /\ Registered'
    BY <1>1, <1>3, <1>9, <1>10 DEF IInv, TypeOK, Registered
  <1> HIDE DEF r
  <1>12. \A d \in Clients : d \in Members(r) <=> d \in DOMAIN connected' /\ connected'[d] = id
    BY <1>1, <1>3, <1>4, <1>7 DEF IInv, Placed, Receive
  <1> QED
    BY <1>1, <1>2, <1>3, <1>7, <1>9, <1>11, <1>12, ReplaceRoomIInv DEF r

LEMMA StartShareIInv ==
  ASSUME RoomNames, IInv, NEW c \in Clients, StartShare(c)
  PROVE  IInv'
  <1> DEFINE id == connected[c]
             room == SetStreaming(rooms[id], c, TRUE)
             pairs == [host : {c}, client : Members(room) \ {c}]
  <1>1. /\ InRoom(c)
        /\ connected' = connected
        /\ view' = Shown(view, id, room)
        /\ OpenAll(id, room, pairs, gauge.users)
        /\ relayed' = {} /\ link' = link
    BY DEF StartShare
  <1>2. PICK new \in NewSessions(FreeIDs, pairs) :
          /\ rooms' = Put(rooms, id, OpenSessions(room, new))
          /\ lookup' = lookup \cup Credentials(room, DOMAIN new)
          /\ Announce(new)
          /\ gauge' = Count(gauge.users, gauge.rooms, gauge.sessions + Cardinality(DOMAIN new))
    BY <1>1 DEF OpenAll
  <1> DEFINE r == OpenSessions(room, new)
  <1>3. /\ id \in DOMAIN rooms /\ id \in RoomIDs /\ Sound(rooms[id]) /\ c \in Members(rooms[id])
    BY <1>1, CurrentRoomOK DEF InRoom
  <1>4. FreeIDs \subseteq SessionIDs \ DOMAIN rooms[id].sessions
    BY <1>3, FreeIDsUnused
  <1>5. RoomOK(room) /\ room.mode = rooms[id].mode
    BY <1>3, StreamingOK
  <1>6. /\ Sound(r) /\ r.mode = rooms[id].mode
        /\ Members(r) = Members(rooms[id])
        /\ DOMAIN r.sessions = DOMAIN rooms[id].sessions \cup DOMAIN new
        /\ DOMAIN new \subseteq FreeIDs
    BY <1>2, <1>3, <1>4, SharedSound
  <1>7. gauge.users \in Int
    BY DEF IInv, TypeOK, Gauges
  <1> HIDE DEF room, pairs
  <1>8. /\ \A j \in DOMAIN rooms : j # id => DOMAIN r.sessions \cap DOMAIN rooms[j].sessions = {}
        /\ lookup' = AllCredentials(rooms')
        /\ lookup' \subseteq SessionIDs \X {"host", "client"}
        /\ DOMAIN rooms' \subseteq RoomIDs /\ \A j \in DOMAIN rooms' : RoomOK(rooms'[j])
        /\ announced' \in [Clients -> SUBSET SessionIDs]
        /\ gauge' \in Gauges
    BY <1>2, <1>3, <1>5, <1>6, <1>7, OpenAllOK
  <1>9. DOMAIN view' \subseteq Clients
    BY <1>1, <1>5, ShownOK DEF IInv, TypeOK
  <1>10. TypeOK' /\ Registered'
    BY <1>1, <1>8, <1>9 DEF IInv, TypeOK, Registered
  <1>11. /\ \A d \in Clients :
              d \in Members(rooms[id]) <=> d \in DOMAIN connected' /\ connected'[d] = id
         /\ \A d \in DOMAIN connected' :
              \/ connected'[d] = id
              \/ d \in DOMAIN connected /\ connected'[d] = connected[d]
         /\ \A d \in DOMAIN connected : connected[d] # NoRoom =>
              d \in DOMAIN connected' /\ connected'[d] = connected[d]
    BY <1>1, <1>3, SamePlaces
  <1> HIDE DEF r, id
  <1> QED
    BY <1>2, <1>3, <1>6, <1>8, <1>10, <1>11, ReplaceRoomIInv DEF r

LEMMA StopShareIInv ==
  ASSUME RoomNames, IInv, NEW c \in Clients, StopShare(c)
  PROVE  IInv'
  <1> DEFINE id == connected[c]
             ended == HostedBy(rooms[id], c)
             r == CloseSessions(SetStreaming(rooms[id], c, FALSE), ended)
  <1>1. /\ InRoom(c)
        /\ rooms' = Put(rooms, id, r)
        /\ lookup' = lookup \ Credentials(rooms[id], ended)
        /\ gauge' = Count(gauge.users, gauge.rooms, gauge.sessions - Cardinality(ended))
        /\ EndShares(rooms[id], ended, {})
        /\ view' = Shown(view, id, r)
        /\ relayed' = {} /\ connected' = connected /\ link' = link
    <2>1. r.mode = rooms[id].mode
      BY DEF CloseSessions, SetStreaming
    <2>2. Credentials(r, ended) = Credentials(rooms[id], ended)
      BY <2>1 DEF Credentials
    <2> QED
      BY <2>2 DEF StopShare, Disallow
  <1>2. id \in DOMAIN rooms /\ id \in RoomIDs /\ Sound(rooms[id]) /\ c \in Members(rooms[id])
    BY <1>1, CurrentRoomOK DEF InRoom
  <1>3. /\ Sound(r) /\ r.mode = rooms[id].mode /\ Members(r) = Members(rooms[id])
        /\ DOMAIN r.sessions = DOMAIN rooms[id].sessions \ ended
    BY <1>2, StoppedSound
  <1>4. ended \subseteq DOMAIN rooms[id].sessions /\ ended \subseteq SessionIDs
    BY <1>2 DEF HostedBy, Sound, RoomOK, IsMap
  <1> HIDE DEF r, ended
  <1>5. \A j \in DOMAIN rooms : j # id => DOMAIN r.sessions \cap DOMAIN rooms[j].sessions = {}
    BY <1>2, <1>3 DEF IInv, Disjoint
  <1>6. lookup' = AllCredentials(rooms')
    <2>1. AllCredentials(Put(rooms, id, r)) = AllCredentials(rooms) \ Credentials(rooms[id], ended)
      BY <1>2, <1>3, <1>4, CredentialsShrink DEF IInv
    <2> QED
      BY <1>1, <2>1 DEF IInv
  <1>7. TypeOK' /\ Registered'
    <2>1. DOMAIN rooms' \subseteq RoomIDs /\ \A j \in DOMAIN rooms' : RoomOK(rooms'[j])
      BY <1>1, <1>2, <1>3 DEF IInv, TypeOK, Sound, Put
    <2>2. DOMAIN view' \subseteq Clients
      BY <1>1, <1>3, ShownOK DEF IInv, TypeOK, Sound
    <2>3. gauge' \in Gauges
      <3>1. Cardinality(ended) \in Int
        BY <1>4, CountsAreIntegers
      <3> QED
        BY <1>1, <3>1 DEF IInv, TypeOK, Gauges, Count
    <2>4. announced' \in [Clients -> SUBSET SessionIDs]
      BY <1>1, AnnouncedOK DEF IInv
    <2>5. lookup' \subseteq SessionIDs \X {"host", "client"}
      BY <1>1 DEF IInv, TypeOK
    <2> QED
      BY <1>1, <2>1, <2>2, <2>3, <2>4, <2>5 DEF IInv, TypeOK, Registered
  <1>8. /\ \A d \in Clients :
             d \in Members(rooms[id]) <=> d \in DOMAIN connected' /\ connected'[d] = id
        /\ \A d \in DOMAIN connected' :
             \/ connected'[d] = id
             \/ d \in DOMAIN connected /\ connected'[d] = connected[d]
        /\ \A d \in DOMAIN connected : connected[d] # NoRoom =>
             d \in DOMAIN connected' /\ connected'[d] = connected[d]
    BY <1>1, <1>2, SamePlaces
  <1> HIDE DEF id
  <1> QED
    BY <1>1, <1>2, <1>3, <1>5, <1>6, <1>7, <1>8, ReplaceRoomIInv

LEMMA NameIInv ==
  ASSUME RoomNames, IInv, NEW c \in Clients, NEW name \in Names, Name(c, name)
  PROVE  IInv'
  <1> DEFINE id == connected[c]
             r == Rename(rooms[id], c, name)
  <1>1. /\ InRoom(c)
        /\ rooms' = Put(rooms, id, r)
        /\ view' = Shown(view, id, r)
        /\ relayed' = {} /\ lookup' = lookup /\ gauge' = gauge /\ announced' = announced
        /\ connected' = connected /\ link' = link
    BY DEF Name
  <1>2. id \in DOMAIN rooms /\ id \in RoomIDs /\ Sound(rooms[id]) /\ c \in Members(rooms[id])
    BY <1>1, CurrentRoomOK DEF InRoom
  <1>3. /\ Sound(r) /\ Members(r) = Members(rooms[id])
        /\ r.sessions = rooms[id].sessions /\ r.mode = rooms[id].mode
    BY <1>2, RenameSound
  <1> HIDE DEF r
  <1>4. \A j \in DOMAIN rooms : j # id => DOMAIN r.sessions \cap DOMAIN rooms[j].sessions = {}
    BY <1>2, <1>3 DEF IInv, Disjoint
  <1>5. lookup' = AllCredentials(rooms')
    <2>1. /\ DOMAIN rooms' = DOMAIN rooms /\ rooms'[id] = r
          /\ \A j \in DOMAIN rooms : j # id => rooms'[j] = rooms[j]
      BY <1>1, <1>2 DEF Put
    <2>2. Credentials(r, DOMAIN r.sessions) = Credentials(rooms[id], DOMAIN rooms[id].sessions)
      BY <1>3 DEF Credentials
    <2>3. AllCredentials(rooms') = AllCredentials(rooms)
      BY <1>2, <2>1, <2>2 DEF AllCredentials
    <2> QED
      BY <1>1, <2>3 DEF IInv
  <1>6. TypeOK' /\ Registered'
    <2>1. DOMAIN rooms' \subseteq RoomIDs /\ \A j \in DOMAIN rooms' : RoomOK(rooms'[j])
      BY <1>1, <1>2, <1>3 DEF IInv, TypeOK, Sound, Put
    <2>2. DOMAIN view' \subseteq Clients
      BY <1>1, <1>3, ShownOK DEF IInv, TypeOK, Sound
    <2> QED
      BY <1>1, <2>1, <2>2 DEF IInv, TypeOK, Registered
  <1>7. /\ \A d \in Clients :
             d \in Members(rooms[id]) <=> d \in DOMAIN connected' /\ connected'[d] = id
        /\ \A d \in DOMAIN connected' :
             \/ connected'[d] = id
             \/ d \in DOMAIN connected /\ connected'[d] = connected[d]
        /\ \A d \in DOMAIN connected : connected[d] # NoRoom =>
             d \in DOMAIN connected' /\ connected'[d] = connected[d]
    BY <1>1, <1>2, SamePlaces
  <1> HIDE DEF id
  <1> QED
    BY <1>1, <1>2, <1>3, <1>4, <1>5, <1>6, <1>7, ReplaceRoomIInv

-----------------------------------------------------------------------------
(* The steps that leave the rooms alone. *)

\* A step that changes neither the rooms nor who is in them.
LEMMA SameRoomsIInv ==
  ASSUME IInv, UNCHANGED <<rooms, lookup, connected>>,
         link' \in [Clients -> LinkStates],
         \A c \in Clients : link'[c] \in {"open", "broken"} <=> link[c] \in {"open", "broken"},
         gauge' = gauge,
         DOMAIN view' \subseteq Clients,
         announced' \in [Clients -> SUBSET SessionIDs],
         relayed' \subseteq Message
  PROVE  IInv'
  <1>1. TypeOK' /\ Registered'
    BY DEF IInv, TypeOK, Registered
  <1> QED
    BY <1>1 DEF IInv

LEMMA ConnectedIInv ==
  ASSUME RoomNames, IInv, NEW c \in Clients, Connected(c)
  PROVE  IInv'
  <1>1. /\ link[c] = "new" /\ connected' = Put(connected, c, NoRoom)
        /\ link' = [link EXCEPT ![c] = "open"] /\ relayed' = {}
        /\ rooms' = rooms /\ lookup' = lookup /\ gauge' = gauge
        /\ view' = view /\ announced' = announced
    BY DEF Connected
  <1>2. c \notin DOMAIN connected
    BY <1>1 DEF IInv, Registered
  <1>3. /\ IsMap(connected', Clients, RoomIDs \cup {NoRoom})
        /\ DOMAIN connected' = DOMAIN connected \cup {c} /\ connected'[c] = NoRoom
        /\ \A d \in DOMAIN connected : connected'[d] = connected[d]
    BY <1>1, <1>2 DEF IInv, TypeOK, IsMap, Put
  <1>4. TypeOK' /\ Registered'
    <2>1. link' \in [Clients -> LinkStates]
      BY <1>1 DEF IInv, TypeOK, LinkStates
    <2>2. Registered'
      BY <1>1, <1>3 DEF IInv, TypeOK, Registered
    <2> QED
      BY <1>1, <1>3, <2>1, <2>2 DEF IInv, TypeOK
  <1>5. Placed(connected', rooms')
    <2>1. \A j \in DOMAIN rooms : j # NoRoom
      BY DEF IInv, AllSound, RoomNames
    <2> QED
      BY <1>1, <1>2, <1>3, <2>1 DEF IInv, Placed
  <1> QED
    BY <1>1, <1>4, <1>5 DEF IInv

LEMMA BreakIInv ==
  ASSUME IInv, NEW c \in Clients, Break(c)
  PROVE  IInv'
  <1>1. link' \in [Clients -> LinkStates]
    BY DEF IInv, TypeOK, Break, LinkStates
  <1>2. \A d \in Clients : link'[d] \in {"open", "broken"} <=> link[d] \in {"open", "broken"}
    BY DEF IInv, TypeOK, Break
  <1>3. DOMAIN view' \subseteq Clients /\ announced' \in [Clients -> SUBSET SessionIDs]
    BY DEF IInv, TypeOK, Break, Without, Restrict
  <1> QED
    BY <1>1, <1>2, <1>3, SameRoomsIInv DEF Break

\* What is relayed goes between two connections.
LEMMA RelayIInv ==
  ASSUME RoomNames, IInv, NEW c \in Clients, NEW sid \in SessionIDs,
         RelayFromHost(c, sid) \/ RelayFromClient(c, sid) \/ RelayUnknown(c, sid)
  PROVE  IInv'
  <1>1. /\ InRoom(c) /\ connected' = connected /\ rooms' = rooms /\ lookup' = lookup
        /\ gauge' = gauge /\ link' = link /\ view' = view /\ announced' = announced
    BY DEF RelayFromHost, RelayFromClient, RelayUnknown
  <1>2. Sound(rooms[connected[c]])
    BY <1>1, CurrentRoomOK DEF InRoom
  <1>3. ASSUME sid \in DOMAIN rooms[connected[c]].sessions
        PROVE  Session(c, sid) \in RoomSession
    BY <1>2, <1>3 DEF Session, Sound, RoomOK, IsMap
  <1>4. relayed' \subseteq Message
    BY <1>3 DEF RelayFromHost, RelayFromClient, RelayUnknown, Message, RoomSession
  <1> QED
    BY <1>1, <1>4, SameRoomsIInv DEF IInv, TypeOK

LEMMA IgnoreIInv ==
  ASSUME IInv, NEW c \in Clients, Ignore(c)
  PROVE  IInv'
  BY SameRoomsIInv DEF Ignore, IInv, TypeOK

-----------------------------------------------------------------------------
\* Every handler that ends the connection, at once or half-way.
LEMMA FailingIInv ==
  ASSUME RoomNames, IInv, NEW c \in Clients
  PROVE  /\ Receive(c) /\ Disconnect(c, Unchanged(c)) => IInv'
         /\ \A id \in RoomIDs, name \in Names : JoinFails(c, id, name) => IInv'
         /\ ShareFails(c) => IInv'
  <1>1. ASSUME Receive(c), Disconnect(c, Unchanged(c)) PROVE IInv'
    BY <1>1, UnchangedLeftOK, DisconnectIInv
  <1>2. ASSUME NEW id \in RoomIDs, NEW name \in Names, JoinFails(c, id, name) PROVE IInv'
    <2> DEFINE room == WithUser(rooms[id], c, name)
               s == Left(id, Put(rooms, id, room), gauge.users + 1, Shown(view, id, room))
    <2>1. Receive(c) /\ Current(c) = NoRoom /\ id \in DOMAIN rooms /\ Disconnect(c, s)
      BY <1>2 DEF JoinFails
    <2>2. LeftOK(c, s)
      BY <2>1, JoinFailsLeftOK
    <2> HIDE DEF s
    <2> QED
      BY <2>1, <2>2, DisconnectIInv
  <1>3. ASSUME ShareFails(c) PROVE IInv'
    <2> DEFINE id == connected[c]
               s == Left(id, Put(rooms, id, SetStreaming(rooms[id], c, TRUE)),
                         gauge.users, view)
    <2>1. InRoom(c) /\ Disconnect(c, s)
      BY <1>3 DEF ShareFails
    <2>2. LeftOK(c, s)
      BY <2>1, ShareFailsLeftOK
    <2> HIDE DEF s
    <2> QED
      BY <2>1, <2>2, DisconnectIInv
  <1> QED
    BY <1>1, <1>2, <1>3

\* Every step of a connection keeps the invariant.
LEMMA HandleIInv ==
  ASSUME RoomNames, IInv, NEW c \in Clients, Handle(c)
  PROVE  IInv'
  <1>1. Receive(c) /\ Disconnect(c, Unchanged(c)) => IInv'
    BY FailingIInv
  <1>2. ASSUME NEW id \in RoomIDs, NEW name \in Names, Join(c, id, name) PROVE IInv'
    BY <1>1, <1>2, JoinRoomIInv, FailingIInv DEF Join, JoinRefused
  <1>3. ASSUME NEW id \in RoomIDs, NEW mode \in CreateModes, NEW close \in BOOLEAN,
               NEW name \in Names, Create(c, id, mode, close, name)
        PROVE  IInv'
    BY <1>1, <1>2, <1>3, CreateRoomIInv DEF Create, CreateRefused
  <1>4. ASSUME NEW sid \in SessionIDs, RelayDenied(c, sid) PROVE IInv'
    BY <1>1, <1>4 DEF RelayDenied, InRoom
  <1>5. Connected(c) \/ Disconnected(c) \/ NotInRoom(c) \/ Ignore(c) => IInv'
    BY <1>1, ConnectedIInv, IgnoreIInv DEF Disconnected, NotInRoom
  <1>6. StartShare(c) \/ ShareFails(c) \/ StopShare(c) => IInv'
    BY StartShareIInv, StopShareIInv, FailingIInv
  <1>7. \A name \in Names : Name(c, name) => IInv'
    BY NameIInv
  <1>8. \A sid \in SessionIDs :
          RelayFromHost(c, sid) \/ RelayFromClient(c, sid) \/ RelayUnknown(c, sid) => IInv'
    BY RelayIInv
  <1> QED
    BY <1>2, <1>3, <1>4, <1>5, <1>6, <1>7, <1>8 DEF Handle

\* IInv is an invariant: every step keeps it, the stuttering ones included.
THEOREM Invariance ==
  ASSUME RoomNames PROVE Spec => []IInv
  <1>1. Init => IInv
    BY InitIInv
  <1>2. IInv /\ [Next]_vars => IInv'
    <2>1. ASSUME IInv, Next PROVE IInv'
      BY <2>1, HandleIInv, BreakIInv DEF Next
    <2>2. ASSUME IInv, UNCHANGED vars PROVE IInv'
      BY <2>2, SameRoomsIInv DEF vars, IInv, TypeOK
    <2> QED
      BY <2>1, <2>2
  <1> QED
    BY <1>1, <1>2, PTL DEF Spec

\* The variables of the event loop keep their types.
THEOREM TypeCorrect ==
  ASSUME RoomNames PROVE Spec => []TypeOK
  <1>1. IInv => TypeOK
    BY DEF IInv
  <1> QED
    BY <1>1, Invariance, PTL

\* The loop knows the connections it has neither missed nor told to close.
THEOREM RegistrationIsRight ==
  ASSUME RoomNames PROVE Spec => []Registered
  <1>1. IInv => Registered
    BY DEF IInv
  <1> QED
    BY <1>1, Invariance, PTL

\* The two indexes of who is where agree, and name rooms that exist; nobody is
\* in two rooms.
THEOREM MembershipIsConsistent ==
  ASSUME RoomNames PROVE Spec => [](Placement /\ RoomsExist /\ OneRoomPerClient)
  <1>1. IInv => Placement /\ RoomsExist /\ OneRoomPerClient
    BY IInvProperties
  <1> QED
    BY <1>1, Invariance, PTL

\* Nobody is registered in a room that is gone.
THEOREM RoomsAreThere ==
  ASSUME RoomNames PROVE Spec => []RoomsExist
  <1> QED
    BY MembershipIsConsistent, PTL

\* Nobody is a user of two rooms.
THEOREM OneRoomOnly ==
  ASSUME RoomNames PROVE Spec => []OneRoomPerClient
  <1> QED
    BY MembershipIsConsistent, PTL

\* The relay handlers find both ends of every session among the users.
THEOREM SessionsHaveTheirEnds ==
  ASSUME RoomNames PROVE Spec => []SessionEnds
  <1>1. IInv => SessionEnds
    BY IInvProperties
  <1> QED
    BY <1>1, Invariance, PTL

\* Whoever presents has a session with everybody else in the room.
THEOREM EveryoneIsReached ==
  ASSUME RoomNames PROVE Spec => []StreamsReachEveryone
  <1>1. IInv => StreamsReachEveryone
    BY IInvProperties
  <1> QED
    BY <1>1, Invariance, PTL

\* The TURN server accepts the credentials of the sessions of TURN rooms and no
\* others.
THEOREM CredentialsEndWithSessions ==
  ASSUME RoomNames PROVE Spec => []CredentialsOfSessions
  <1>1. IInv => CredentialsOfSessions
    BY IInvProperties
  <1> QED
    BY <1>1, Invariance, PTL
=============================================================================
