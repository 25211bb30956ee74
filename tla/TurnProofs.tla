----------------------------- MODULE TurnProofs -----------------------------
(***************************************************************************)
(* The internal TURN server answers what the event loop granted, for any   *)
(* number of names and of goroutines of the TURN library; and what is      *)
(* proved of that (TurnServer) and of the relay sockets (RelayingProofs)   *)
(* holds of the TURN server that is made of them.                          *)
(***************************************************************************)
EXTENDS Turn, TLAPS

-----------------------------------------------------------------------------
(* The user names. *)

Reading(a) == caller[a] # Idle /\ caller[a].stage \in {"locked", "read"}

Writing == loop # Idle /\ loop.stage \in {"locked", "written"}

\* The lock: a call of the loop excludes new readers from Lock on, and all of
\* them once it has the lock.
LockOK ==
  /\ pending <=> loop # Idle
  /\ \A a \in Callers : a \in readers <=> Reading(a)
  /\ Writing => readers = {}

\* The map has what value says of the name.
Has(name, value) ==
  IF value = No THEN name \notin DOMAIN lookup
                ELSE name \in DOMAIN lookup /\ lookup[name] = value

\* The name of the loop's call is granted either way; the map has the others
\* as they were granted, and that one as it will be once it is written.
MapOK ==
  \A name \in Names :
    IF loop # Idle /\ loop.name = name
      THEN granted[name] = Either /\ (loop.stage = "written" => Has(name, loop.entry))
      ELSE granted[name] # Either /\ Has(name, granted[name])

\* What is due to an authentication under way is granted still.
DueOK ==
  \A a \in Callers :
    caller[a] # Idle /\ caller[a].due # Either =>
      /\ caller[a].due = granted[caller[a].name]
      /\ caller[a].stage = "read" => caller[a].result = caller[a].due

IInv == TypeOK /\ LockOK /\ MapOK /\ DueOK

LEMMA IdleIsNone == Idle \notin LoopCalls /\ Idle \notin Authentications
BY DEF Idle, LoopCalls, Authentications

LEMMA InitIInv == Init => IInv
BY TurnAssumption, IdleIsNone
   DEF Init, IInv, TypeOK, LockOK, MapOK, DueOK, Has, Reading, Writing, IsMap, EmptyMap

LEMMA Calling ==
  ASSUME IInv, NEW name \in Names, NEW entry \in Entry \cup {No}, Call(name, entry)
  PROVE  IInv'
<1> USE TurnAssumption, IdleIsNone DEF Call, Grant, IInv
<1>1. loop' \in LoopCalls /\ loop' # Idle
  BY DEF LoopCalls
<1>2. caller' \in [Callers -> Authentications \cup {Idle}]
  BY DEF TypeOK, Authentications
<1>3. TypeOK'
  BY <1>1, <1>2 DEF TypeOK
<1>4. \A a \in Callers : (caller'[a] # Idle <=> caller[a] # Idle)
        /\ caller'[a].stage = caller[a].stage
        /\ (caller[a] # Idle => caller'[a].name = caller[a].name
              /\ caller'[a].result = caller[a].result
              /\ caller'[a].due = IF caller[a].name = name THEN Either ELSE caller[a].due)
  BY DEF TypeOK, Authentications
<1>5. LockOK'
  BY <1>1, <1>4 DEF LockOK, Reading, Writing
<1>6. MapOK'
  BY <1>1 DEF MapOK, Has, TypeOK
<1>7. DueOK'
  BY <1>4 DEF DueOK, TypeOK
<1>8. QED
  BY <1>3, <1>5, <1>6, <1>7

\* The lock and the map are touched by the loop alone, the callers are not.
LEMMA Locking ==
  ASSUME IInv, Lock
  PROVE  IInv'
<1> USE IdleIsNone DEF Lock, IInv
<1>1. loop \in LoopCalls /\ loop' \in LoopCalls /\ loop' # Idle /\ loop'.stage = "locked"
      /\ loop'.name = loop.name /\ loop'.entry = loop.entry
  BY DEF TypeOK, LoopCalls
<1>2. TypeOK'
  BY <1>1 DEF TypeOK
<1>3. LockOK'
  BY <1>1 DEF LockOK, Reading, Writing
<1>4. MapOK'
  BY <1>1 DEF MapOK, Has
<1>5. DueOK'
  BY DEF DueOK
<1>6. QED
  BY <1>2, <1>3, <1>4, <1>5

LEMMA Written ==
  ASSUME TypeOK, NEW name \in Names, NEW entry \in Entry \cup {No},
         lookup' = IF entry = No THEN Without(lookup, {name}) ELSE Put(lookup, name, entry)
  PROVE  /\ IsMap(lookup', Names, Entry)
         /\ Has(name, entry)'
         /\ \A other \in Names \ {name}, value \in Entry \cup {No} :
              Has(other, value)' <=> Has(other, value)
<1>1. CASE entry = No
  BY <1>1 DEF Has, Without, Restrict, TypeOK, IsMap
<1>2. CASE entry # No
  <2>1. /\ DOMAIN lookup' = DOMAIN lookup \cup {name}
        /\ \A n \in DOMAIN lookup' : lookup'[n] = IF n = name THEN entry ELSE lookup[n]
        /\ lookup' = [n \in DOMAIN lookup' |-> lookup'[n]]
    BY <1>2 DEF Put
  <2>2. IsMap(lookup', Names, Entry)
    BY <1>2, <2>1 DEF TypeOK, IsMap
  <2>3. QED
    BY <1>2, <2>1, <2>2 DEF Has
<1>3. QED
  BY <1>1, <1>2

LEMMA Writes ==
  ASSUME IInv, Write
  PROVE  IInv'
<1> USE IdleIsNone DEF Write, IInv
<1>1. loop \in LoopCalls /\ loop' \in LoopCalls /\ loop' # Idle /\ loop'.stage = "written"
      /\ loop'.name = loop.name /\ loop'.entry = loop.entry
      /\ loop.name \in Names /\ loop.entry \in Entry \cup {No}
  BY DEF TypeOK, LoopCalls
<1>2. /\ IsMap(lookup', Names, Entry)
      /\ Has(loop.name, loop.entry)'
      /\ \A other \in Names \ {loop.name}, value \in Entry \cup {No} :
           Has(other, value)' <=> Has(other, value)
  <2> DEFINE name == loop.name
             entry == loop.entry
  <2>1. name \in Names /\ entry \in Entry \cup {No} /\ name' = name /\ entry' = entry
    BY <1>1
  <2>2. lookup' = IF entry = No THEN Without(lookup, {name}) ELSE Put(lookup, name, entry)
    OBVIOUS
  <2>3. TypeOK
    OBVIOUS
  <2> HIDE DEF name, entry
  <2>4. /\ IsMap(lookup', Names, Entry)
        /\ Has(name, entry)'
        /\ \A other \in Names \ {name}, value \in Entry \cup {No} :
             Has(other, value)' <=> Has(other, value)
    BY <2>1, <2>2, <2>3, Written
  <2>5. QED
    BY <2>1, <2>4 DEF name, entry, Has
<1>3. TypeOK'
  BY <1>1, <1>2 DEF TypeOK
<1>4. LockOK'
  BY <1>1 DEF LockOK, Reading, Writing
<1>5. MapOK'
  <2>1. \A n \in Names : granted[n] # Either => granted[n] \in Entry \cup {No}
    BY DEF TypeOK
  <2>2. UNCHANGED granted
    OBVIOUS
  <2>3. QED
    BY <1>1, <1>2, <2>1, <2>2 DEF MapOK
<1>6. DueOK'
  BY DEF DueOK
<1>7. QED
  BY <1>3, <1>4, <1>5, <1>6

LEMMA Unlocking ==
  ASSUME IInv, Unlock
  PROVE  IInv'
<1> USE TurnAssumption, IdleIsNone DEF Unlock, Grant, IInv
<1>1. loop \in LoopCalls /\ loop.name \in Names /\ loop.entry \in Entry \cup {No}
      /\ loop' = Idle /\ loop.entry # Either
  BY DEF TypeOK, LoopCalls
<1>2. caller' \in [Callers -> Authentications \cup {Idle}]
  BY DEF TypeOK, Authentications
<1>3. TypeOK'
  BY <1>1, <1>2 DEF TypeOK
<1>4. \A a \in Callers : (caller'[a] # Idle <=> caller[a] # Idle)
        /\ caller'[a].stage = caller[a].stage
        /\ (caller[a] # Idle => caller'[a].name = caller[a].name
              /\ caller'[a].result = caller[a].result
              /\ caller'[a].due = IF caller[a].name = loop.name THEN Either ELSE caller[a].due)
  BY DEF TypeOK, Authentications
<1>5. LockOK'
  BY <1>1, <1>4 DEF LockOK, Reading, Writing
<1>6. MapOK'
  BY <1>1 DEF MapOK, Has, TypeOK
<1>7. DueOK'
  BY <1>4 DEF DueOK, TypeOK
<1>8. QED
  BY <1>3, <1>5, <1>6, <1>7

LEMMA Authenticating ==
  ASSUME IInv, NEW a \in Callers, NEW name \in Names,
         Authenticate(a, name)
  PROVE  IInv'
<1> USE TurnAssumption, IdleIsNone DEF Authenticate, IInv
<1>1. caller'[a] \in Authentications /\ caller'[a] # Idle
      /\ \A b \in Callers \ {a} : caller'[b] = caller[b]
  BY DEF TypeOK, Authentications
<1>2. TypeOK'
  BY <1>1 DEF TypeOK
<1>3. LockOK'
  BY <1>1 DEF LockOK, Reading, Writing, TypeOK
<1>4. MapOK'
  BY DEF MapOK, Has
<1>5. DueOK'
  BY <1>1 DEF DueOK, TypeOK
<1>6. QED
  BY <1>2, <1>3, <1>4, <1>5

LEMMA RLocking ==
  ASSUME IInv, NEW a \in Callers, RLock(a)
  PROVE  IInv'
<1> USE IdleIsNone DEF RLock, Stage, IInv
<1>1. caller[a] \in Authentications /\ caller'[a] \in Authentications
      /\ caller'[a] = [caller[a] EXCEPT !.stage = "locked"] /\ caller'[a] # Idle
      /\ \A b \in Callers \ {a} : caller'[b] = caller[b]
  BY DEF TypeOK, Authentications
<1>2. TypeOK'
  BY <1>1 DEF TypeOK
<1>3. LockOK'
  BY <1>1 DEF LockOK, Reading, Writing, TypeOK
<1>4. MapOK'
  BY DEF MapOK, Has
<1>5. DueOK'
  BY <1>1 DEF DueOK, TypeOK, Authentications
<1>6. QED
  BY <1>2, <1>3, <1>4, <1>5

\* The reader has the lock, so the map has what is granted.
LEMMA Reads ==
  ASSUME IInv, NEW a \in Callers, Read(a)
  PROVE  IInv'
<1> DEFINE result == IF caller[a].name \in DOMAIN lookup THEN lookup[caller[a].name] ELSE No
<1> USE TurnAssumption, IdleIsNone DEF Read, Stage, IInv
<1>1. caller[a] \in Authentications /\ result \in Entry \cup {No}
  BY DEF TypeOK, Authentications, IsMap
<1>2. caller'[a] = [stage |-> "read", name |-> caller[a].name,
                    due |-> caller[a].due, result |-> result]
      /\ \A b \in Callers \ {a} : caller'[b] = caller[b]
  BY DEF TypeOK
<1>3. caller[a].due # Either => result = caller[a].due
  <2>1. ASSUME caller[a].due # Either PROVE result = caller[a].due
    <3>1. caller[a].due = granted[caller[a].name] /\ caller[a].name \in Names
      BY <1>1, <2>1 DEF DueOK, Authentications
    <3>2. Has(caller[a].name, caller[a].due)
      BY <2>1, <3>1 DEF MapOK
    <3>3. QED
      BY <3>2 DEF Has
  <2>2. QED
    BY <2>1
<1> HIDE DEF result
<1>4. caller'[a] \in Authentications /\ caller'[a].due = caller[a].due
      /\ caller'[a].name = caller[a].name /\ caller'[a].result = result
      /\ caller'[a].stage = "read"
  BY <1>1, <1>2 DEF Authentications
<1>5. TypeOK'
  BY <1>2, <1>4 DEF TypeOK
<1>6. LockOK'
  BY <1>2, <1>4 DEF LockOK, Reading, Writing, TypeOK
<1>7. MapOK'
  BY DEF MapOK, Has
<1>8. DueOK'
  BY <1>2, <1>3, <1>4 DEF DueOK, TypeOK
<1>9. QED
  BY <1>5, <1>6, <1>7, <1>8

LEMMA RUnlocking ==
  ASSUME IInv, NEW a \in Callers, RUnlock(a)
  PROVE  IInv'
<1> USE IdleIsNone DEF RUnlock, Stage, IInv
<1>1. TypeOK'
  BY DEF TypeOK
<1>2. LockOK'
  BY DEF LockOK, Reading, Writing, TypeOK
<1>3. MapOK'
  BY DEF MapOK, Has
<1>4. DueOK'
  BY DEF DueOK, TypeOK
<1>5. QED
  BY <1>1, <1>2, <1>3, <1>4

LEMMA NextIInv == IInv /\ [Next]_vars => IInv'
<1> SUFFICES ASSUME IInv, [Next]_vars PROVE IInv'
  OBVIOUS
<1>1. ASSUME NEW name \in Names, Credentials(name) \/ Disallow(name) PROVE IInv'
  <2>1. PICK entry \in Entry \cup {No} : Call(name, entry)
    BY <1>1 DEF Credentials, Disallow, Entry
  <2>2. QED
    BY <2>1, Calling
<1>2. CASE Lock
  BY <1>2, Locking
<1>3. CASE Write
  BY <1>3, Writes
<1>4. CASE Unlock
  BY <1>4, Unlocking
<1>5. ASSUME NEW a \in Callers, NEW name \in Names,
             Authenticate(a, name)
      PROVE  IInv'
  BY <1>5, Authenticating
<1>6. ASSUME NEW a \in Callers, RLock(a) \/ Read(a) \/ RUnlock(a) PROVE IInv'
  BY <1>6, RLocking, Reads, RUnlocking
<1>7. CASE UNCHANGED vars
  BY <1>7 DEF vars, IInv, TypeOK, LockOK, MapOK, DueOK, Has, Reading, Writing
<1>8. QED
  BY <1>1, <1>2, <1>3, <1>4, <1>5, <1>6, <1>7 DEF Next

LEMMA IInvHolds == Spec => []IInv
BY InitIInv, NextIInv, PTL DEF Spec

\* The variables of the internal TURN server keep their types.
THEOREM TurnServerTypes == Spec => []TypeOK
<1>1. IInv => TypeOK
  BY DEF IInv
<1>2. QED
  BY <1>1, IInvHolds, PTL

\* Nobody reads the map while the event loop writes it (server.go:138-171).
THEOREM MapIsNotShared == Spec => []MapNotShared
<1>1. IInv => MapNotShared
  BY DEF IInv, LockOK, Writing, MapNotShared
<1>2. QED
  BY <1>1, IInvHolds, PTL

\* An authentication is answered with what was granted all through it.
THEOREM AuthenticationIsRight == Spec => []AnsweredAsGranted
<1>1. IInv => AnsweredAsGranted
  BY DEF IInv, DueOK, Stage, AnsweredAsGranted
<1>2. QED
  BY <1>1, IInvHolds, PTL

\* Between two calls the map is what the event loop takes it for.
THEOREM LookupIsRight == Spec => []LookupAsGranted
<1>1. IInv => LookupAsGranted
  <2> SUFFICES ASSUME IInv, loop = Idle
               PROVE  lookup = [n \in {m \in Names : granted[m] # No} |-> granted[n]]
    BY DEF LookupAsGranted
  <2>1. \A n \in Names : Has(n, granted[n])
    BY DEF IInv, MapOK
  <2>2. DOMAIN lookup = {m \in Names : granted[m] # No}
    BY <2>1 DEF Has, IInv, TypeOK, IsMap
  <2>3. lookup = [n \in DOMAIN lookup |-> lookup[n]]
    BY DEF IInv, TypeOK, IsMap
  <2>4. \A n \in DOMAIN lookup : lookup[n] = granted[n]
    BY <2>1, <2>2 DEF Has
  <2>5. QED
    BY <2>2, <2>3, <2>4
<1>2. QED
  BY <1>1, IInvHolds, PTL

-----------------------------------------------------------------------------
(* The sockets. *)

Proved == INSTANCE RelayingProofs

LEMMA SameRanges ==
  /\ Sockets!Ports = Proved!Ports /\ Sockets!Addresses = Proved!Addresses
  /\ Sockets!Families = Proved!Families /\ Sockets!Answers = Proved!Answers
  /\ \A min, max : /\ Sockets!UseRange(min, max) <=> Proved!UseRange(min, max)
                   /\ Sockets!Accepted(min, max) <=> Proved!Accepted(min, max)
                   /\ Sockets!Size(min, max) = Proved!Size(min, max)
                   /\ Sockets!Port(min, max) = Proved!Port(min, max)
  /\ \A family, answer : Sockets!RelayAddress(family, answer) = Proved!RelayAddress(family, answer)
<1>1. Sockets!Ports = Proved!Ports /\ Sockets!Addresses = Proved!Addresses
      /\ Sockets!Families = Proved!Families /\ Sockets!Answers = Proved!Answers
  BY DEF Sockets!Ports, Proved!Ports, Sockets!Addresses, Proved!Addresses, Sockets!Families,
         Proved!Families, Sockets!Answers, Proved!Answers
<1>2. \A n : Sockets!Wrapped(n) = Proved!Wrapped(n)
  BY DEF Sockets!Wrapped, Proved!Wrapped
<1>3. \A min, max : /\ Sockets!UseRange(min, max) <=> Proved!UseRange(min, max)
                    /\ Sockets!Accepted(min, max) <=> Proved!Accepted(min, max)
  BY DEF Sockets!UseRange, Proved!UseRange, Sockets!Accepted, Proved!Accepted
<1>4. \A min, max : /\ Sockets!Size(min, max) = Proved!Size(min, max)
                    /\ Sockets!Port(min, max) = Proved!Port(min, max)
  BY <1>2 DEF Sockets!Size, Proved!Size, Sockets!Port, Proved!Port
<1>5. \A family, answer :
         Sockets!RelayAddress(family, answer) = Proved!RelayAddress(family, answer)
  BY DEF Sockets!RelayAddress, Proved!RelayAddress
<1>6. QED
  BY <1>1, <1>3, <1>4, <1>5

LEMMA SameStates ==
  /\ Sockets!Init <=> Proved!Init
  /\ Sockets!PortsInRange <=> Proved!PortsInRange
  /\ Sockets!SocketsHeld <=> Proved!SocketsHeld
  /\ \A a : Sockets!Draws(a) <=> Proved!Draws(a)
  /\ \A a : Sockets!MayDraw(a) <=> Proved!MayDraw(a)
  /\ \A p : Sockets!Free(p) <=> Proved!Free(p)
<1>1. Sockets!Init <=> Proved!Init
  BY SameRanges DEF Sockets!Init, Proved!Init
<1>2. \A a : Sockets!Draws(a) <=> Proved!Draws(a)
  BY SameRanges DEF Sockets!Draws, Proved!Draws
<1>3. \A p : Sockets!Free(p) <=> Proved!Free(p)
  BY DEF Sockets!Free, Proved!Free
<1>4. \A a : Sockets!MayDraw(a) <=> Proved!MayDraw(a)
  BY <1>2 DEF Sockets!MayDraw, Proved!MayDraw
<1>5. Sockets!PortsInRange <=> Proved!PortsInRange
  BY <1>2 DEF Sockets!PortsInRange, Proved!PortsInRange, Sockets!Holds, Proved!Holds
<1>6. Sockets!SocketsHeld <=> Proved!SocketsHeld
  BY DEF Sockets!SocketsHeld, Proved!SocketsHeld, Sockets!Holds, Proved!Holds
<1>7. QED
  BY <1>1, <1>2, <1>3, <1>4, <1>5, <1>6

LEMMA SameSteps ==
  ASSUME NEW a
  PROVE  /\ Sockets!OpenPort(a) <=> Proved!OpenPort(a)
         /\ Sockets!OpenFails(a) <=> Proved!OpenFails(a)
         /\ Sockets!Draw(a) <=> Proved!Draw(a)
         /\ Sockets!DrawFails(a) <=> Proved!DrawFails(a)
         /\ Sockets!Serve(a) <=> Proved!Serve(a)
         /\ Sockets!LookupFails(a) <=> Proved!LookupFails(a)
         /\ Sockets!Release(a) <=> Proved!Release(a)
         /\ Sockets!OpenOther(a) <=> Proved!OpenOther(a)
         /\ Sockets!CloseOther(a) <=> Proved!CloseOther(a)
         /\ \A requested : Sockets!Allocate(a, requested) <=> Proved!Allocate(a, requested)
         /\ \A answer : Sockets!ServeWith(a, answer) <=> Proved!ServeWith(a, answer)
<1>1. \A p : Sockets!Listen(a, p) <=> Proved!Listen(a, p)
  BY SameStates DEF Sockets!Listen, Proved!Listen
<1>2. Sockets!Over(a) <=> Proved!Over(a)
  BY DEF Sockets!Over, Proved!Over
<1>3. Sockets!OpenPort(a) <=> Proved!OpenPort(a)
  BY <1>1, SameStates, SameRanges DEF Sockets!OpenPort, Proved!OpenPort
<1>4. Sockets!OpenFails(a) <=> Proved!OpenFails(a)
  BY <1>2, SameStates DEF Sockets!OpenFails, Proved!OpenFails
<1>5. Sockets!Draw(a) <=> Proved!Draw(a)
  BY <1>1, SameStates, SameRanges DEF Sockets!Draw, Proved!Draw
<1>6. Sockets!DrawFails(a) <=> Proved!DrawFails(a)
  BY <1>2, SameStates DEF Sockets!DrawFails, Proved!DrawFails
<1>7. \A answer : Sockets!ServeWith(a, answer) <=> Proved!ServeWith(a, answer)
  BY SameRanges DEF Sockets!ServeWith, Proved!ServeWith
<1>8. Sockets!Serve(a) <=> Proved!Serve(a)
  BY <1>7, SameRanges DEF Sockets!Serve, Proved!Serve
<1>9. /\ Sockets!LookupFails(a) <=> Proved!LookupFails(a)
      /\ Sockets!Release(a) <=> Proved!Release(a)
  BY <1>2 DEF Sockets!LookupFails, Proved!LookupFails, Sockets!Release, Proved!Release
<1>10. /\ Sockets!OpenOther(a) <=> Proved!OpenOther(a)
       /\ Sockets!CloseOther(a) <=> Proved!CloseOther(a)
  BY SameStates DEF Sockets!OpenOther, Proved!OpenOther, Sockets!CloseOther, Proved!CloseOther
<1>11. \A requested : Sockets!Allocate(a, requested) <=> Proved!Allocate(a, requested)
  BY DEF Sockets!Allocate, Proved!Allocate
<1>12. QED
  BY <1>3, <1>4, <1>5, <1>6, <1>7, <1>8, <1>9, <1>10, <1>11

LEMMA SameCache ==
  /\ Sockets!Provider!Init <=> Proved!Provider!Init
  /\ Sockets!Provider!Tick <=> Proved!Provider!Tick
  /\ \A response : Sockets!Provider!Change(response) <=> Proved!Provider!Change(response)
<1>1. Sockets!Provider!Init <=> Proved!Provider!Init
  BY DEF Sockets!Provider!Init, Proved!Provider!Init, Sockets!Provider!Cached,
         Proved!Provider!Cached, Sockets!Provider!Nil, Proved!Provider!Nil,
         Sockets!Provider!Never, Proved!Provider!Never, Sockets!Provider!Nobody,
         Proved!Provider!Nobody
<1>2. Sockets!Provider!Tick <=> Proved!Provider!Tick
  BY DEF Sockets!Provider!Tick, Proved!Provider!Tick
<1>3. \A response : Sockets!Provider!Change(response) <=> Proved!Provider!Change(response)
  BY DEF Sockets!Provider!Change, Proved!Provider!Change
<1>4. QED
  BY <1>1, <1>2, <1>3

LEMMA SameLookup ==
  Sockets!Provider!Lookup(records) = Proved!Provider!Lookup(records)
BY DEF Sockets!Provider!Lookup, Proved!Provider!Lookup, Sockets!Provider!Cached,
       Proved!Provider!Cached, Sockets!Provider!FirstOf, Proved!Provider!FirstOf,
       Sockets!Provider!Nil, Proved!Provider!Nil

LEMMA SameAsking ==
  ASSUME NEW a
  PROVE  /\ Sockets!Ask(a) <=> Proved!Ask(a)
         /\ Sockets!Get(a) <=> Proved!Get(a)
         /\ Sockets!Answered(a) <=> Proved!Answered(a)
<1>1. \A from, to : Sockets!Provider!At(a, from, to) <=> Proved!Provider!At(a, from, to)
  BY DEF Sockets!Provider!At, Proved!Provider!At
<1>2. /\ Sockets!Provider!Call(a) <=> Proved!Provider!Call(a)
      /\ Sockets!Provider!Lock(a) <=> Proved!Provider!Lock(a)
      /\ Sockets!Provider!UseCache(a) <=> Proved!Provider!UseCache(a)
      /\ Sockets!Provider!Refetch(a) <=> Proved!Provider!Refetch(a)
      /\ Sockets!Provider!Return(a) <=> Proved!Provider!Return(a)
  BY <1>1 DEF Sockets!Provider!Call, Proved!Provider!Call, Sockets!Provider!Lock,
              Proved!Provider!Lock, Sockets!Provider!UseCache, Proved!Provider!UseCache,
              Sockets!Provider!Refetch, Proved!Provider!Refetch, Sockets!Provider!Return,
              Proved!Provider!Return, Sockets!Provider!Nobody, Proved!Provider!Nobody
<1>3. Sockets!Provider!Resolved(a) <=> Proved!Provider!Resolved(a)
  BY <1>1, SameLookup DEF Sockets!Provider!Resolved, Proved!Provider!Resolved,
                          Sockets!Provider!Period, Proved!Provider!Period
<1>4. Sockets!Ask(a) <=> Proved!Ask(a)
  BY <1>2 DEF Sockets!Ask, Proved!Ask, Sockets!vars, Proved!vars
<1>5. Sockets!Get(a) <=> Proved!Get(a)
  BY <1>2, <1>3 DEF Sockets!Get, Proved!Get, Sockets!vars, Proved!vars
<1>6. Sockets!Answered(a) <=> Proved!Answered(a)
  BY <1>2, SameSteps DEF Sockets!Answered, Proved!Answered, Sockets!Answer, Proved!Answer,
                         Sockets!Provider!Nil, Proved!Provider!Nil
<1>7. QED
  BY <1>4, <1>5, <1>6

\* The two instances of module Relaying are the same.
LEMMA SameRelaying ==
  /\ Sockets!RelayingInit <=> Proved!RelayingInit
  /\ Sockets!RelayingNext <=> Proved!RelayingNext
  /\ Sockets!Next <=> Proved!Next
<1>1. Sockets!RelayingInit <=> Proved!RelayingInit
  BY SameStates, SameCache DEF Sockets!RelayingInit, Proved!RelayingInit
<1>2. Sockets!RelayingNext <=> Proved!RelayingNext
  BY SameSteps, SameAsking, SameCache DEF Sockets!RelayingNext, Proved!RelayingNext,
                                          Sockets!vars, Proved!vars, Sockets!dns, Proved!dns
<1>3. Sockets!Next <=> Proved!Next
  BY SameSteps DEF Sockets!Next, Proved!Next, Sockets!Progress, Proved!Progress
<1>4. QED
  BY <1>1, <1>2, <1>3

\* A step of another part leaves the sockets alone.
LEMMA SocketsFollow == TurnSpec => Proved!RelayingSpec
<1>1. TurnInit => Proved!RelayingInit
  BY SameRelaying DEF TurnInit
<1>2. [TurnNext]_<<vars, relaying, part>> => [Proved!RelayingNext]_<<Proved!vars, Proved!dns>>
  BY SameRelaying DEF TurnNext, relaying, Proved!vars, Proved!dns
<1>3. QED
  BY <1>1, <1>2, PTL DEF TurnSpec, Proved!RelayingSpec

\* The sockets of the server, whose address comes from the cache, are those of
\* module Relay, for any number of allocations and any answers of the resolver.
THEOREM SocketsAreRelays == TurnSpec => RelaySpec
<1>1. Proved!RelayingSpec => Proved!Spec
  BY Proved!RelayImplemented, WidthAssumption, RelayAssumption, ProviderAssumption DEF Ports, Proved!Ports
<1>2. Proved!Init => Sockets!Init
  BY SameStates
<1>3. [Proved!Next]_Proved!vars => [Sockets!Next]_Sockets!vars
  BY SameRelaying DEF Proved!vars, Sockets!vars
<1>4. QED
  BY <1>1, <1>2, <1>3, SocketsFollow, PTL DEF RelaySpec, Proved!Spec, Sockets!Spec

\* Allocations get ports of the configured range, whatever the resolver answers.
THEOREM TurnKeepsRange == TurnSpec => []PortsInRange
<1>1. Proved!RelayingSpec => []Proved!PortsInRange
  <2>1. Proved!RelayingSpec => Proved!Spec
    BY Proved!RelayImplemented, WidthAssumption, RelayAssumption, ProviderAssumption DEF Ports, Proved!Ports
  <2>2. Proved!Spec => []Proved!PortsInRange
    BY Proved!RangeIsKept, WidthAssumption, RelayAssumption, ProviderAssumption DEF Ports, Proved!Ports
  <2>3. QED
    BY <2>1, <2>2
<1>2. Proved!PortsInRange => PortsInRange
  BY SameStates DEF PortsInRange
<1>3. QED
  BY <1>1, <1>2, SocketsFollow, PTL

\* Each open socket is held by one allocation or was handed back with an error.
THEOREM TurnHoldsSockets == TurnSpec => []SocketsHeld
<1>1. Proved!RelayingSpec => []Proved!SocketsHeld
  <2>1. Proved!RelayingSpec => Proved!Spec
    BY Proved!RelayImplemented, WidthAssumption, RelayAssumption, ProviderAssumption DEF Ports, Proved!Ports
  <2>2. Proved!Spec => []Proved!SocketsHeld
    BY Proved!SocketsAreHeld, WidthAssumption, RelayAssumption, ProviderAssumption DEF Ports, Proved!Ports
  <2>3. QED
    BY <2>1, <2>2
<1>2. Proved!SocketsHeld => SocketsHeld
  BY SameStates DEF SocketsHeld
<1>3. QED
  BY <1>1, <1>2, SocketsFollow, PTL

\* No client is told to relay through no address, whatever families the domain of
\* the server has addresses of.
THEOREM TurnKnowsItsAddress == TurnSpec => []RelayedSomewhere
<1>1. Proved!RelayingSpec => []Proved!RelayedSomewhere
  <2>1. Proved!RelayingSpec => Proved!Spec
    BY Proved!RelayImplemented, WidthAssumption, RelayAssumption, ProviderAssumption DEF Ports, Proved!Ports
  <2>2. Proved!Spec => []Proved!RelayedSomewhere
    BY Proved!AddressIsKnown, WidthAssumption, RelayAssumption, ProviderAssumption DEF Ports, Proved!Ports
  <2>3. QED
    BY <2>1, <2>2
<1>2. Proved!RelayedSomewhere => RelayedSomewhere
  BY DEF RelayedSomewhere, Sockets!RelayedSomewhere, Proved!RelayedSomewhere
<1>3. QED
  BY <1>1, <1>2, SocketsFollow, PTL

\* Addresses and errors are answered in time, whatever else the server does.
THEOREM TurnAnswersInTime == TurnSpec => CacheInTime
<1> DEFINE InTime(Lookup(_)) ==
      /\ fetched' # fetched => fetched' - fetched > Second
      /\ \A c \in Allocs :
           asking[c] = "checking" /\ asking'[c] = "answering" =>
             \/ cache = Lookup(records)
             \/ clock - changed <= Minute /\ ~cache.failed
             \/ clock - changed <= Second
<1>1. Proved!RelayingSpec => [][InTime(Proved!Provider!Lookup)]_Proved!Provider!vars
  BY Proved!CacheIsInTime, WidthAssumption, RelayAssumption, ProviderAssumption
  DEF Ports, Proved!Ports, Proved!Provider!CacheInTime
<1>2. [InTime(Proved!Provider!Lookup)]_Proved!Provider!vars =>
        [InTime(Sockets!Provider!Lookup)]_Sockets!Provider!vars
  BY SameLookup DEF Proved!Provider!vars, Sockets!Provider!vars
<1>3. QED
  BY <1>1, <1>2, SocketsFollow, PTL DEF CacheInTime, Sockets!Provider!CacheInTime

\* The names follow module TurnServer.
LEMMA NamesFollow == TurnSpec => Spec
<1>1. TurnInit => Init
  BY DEF TurnInit
<1>2. [TurnNext]_<<vars, relaying, part>> => [Next]_vars
  BY DEF TurnNext
<1>3. QED
  BY <1>1, <1>2, PTL DEF TurnSpec, Spec

\* The TURN library's authentications are answered as the event loop has granted
\* them, whatever sockets are open meanwhile.
THEOREM TurnAnswersAsGranted == TurnSpec => []AnsweredAsGranted
  BY NamesFollow, AuthenticationIsRight, PTL

\* Between its calls the event loop knows which names are accepted.
THEOREM TurnKnowsNames == TurnSpec => []LookupAsGranted
  BY NamesFollow, LookupIsRight, PTL
=============================================================================
