------------------------------ MODULE TurnServer ------------------------------
(***************************************************************************)
(* The user names of the internal TURN server (turn/server.go).  The event *)
(* loop allows and disallows names, one call at a time; the TURN library   *)
(* authenticates its clients on goroutines of its own.  A sync.RWMutex     *)
(* guards the map between them, so every call is several steps.            *)
(***************************************************************************)
EXTENDS GoMap

CONSTANTS
  Names,       \* user names: an xid followed by "host" or "client"
  Passwords,   \* what util.RandString may return
  Callers,     \* the goroutines of the TURN library
  No,          \* an authentication that is refused
  Either       \* one that may be answered both ways

\* An entry of the map is its password: nothing reads the address beside it.
Entry == Passwords

ASSUME TurnAssumption == No \notin Entry /\ Either \notin Entry \cup {No}

VARIABLES
  lookup,    \* InternalServer.lookup
  loop,      \* the call that the event loop is in
  pending,   \* the loop waits for the lock: no reader may enter any more
  readers,   \* who has the lock for reading
  caller,    \* the authentication that each goroutine is in
  granted    \* what the callers of Credentials and Disallow can rely on

vars == <<lookup, loop, pending, readers, caller, granted>>

Idle == [stage |-> "idle"]

\* entry is what allow is to enter, or No for Disallow.
LoopCalls == [stage : {"waiting", "locked", "written"}, name : Names, entry : Entry \cup {No}]

Authentications ==
  [stage : {"called", "locked", "read"}, name : Names,
   result : Entry \cup {No}, due : Entry \cup {No, Either}]

TypeOK ==
  /\ IsMap(lookup, Names, Entry)
  /\ loop \in LoopCalls \cup {Idle}
  /\ pending \in BOOLEAN
  /\ readers \subseteq Callers
  /\ caller \in [Callers -> Authentications \cup {Idle}]
  /\ granted \in [Names -> Entry \cup {No, Either}]

Init ==
  /\ lookup = EmptyMap
  /\ loop = Idle
  /\ pending = FALSE
  /\ readers = {}
  /\ caller = [a \in Callers |-> Idle]
  /\ granted = [n \in Names |-> No]

-----------------------------------------------------------------------------
\* While granted changes, authentications of that name under way may go both ways.
Grant(name, value) ==
  /\ granted' = [granted EXCEPT ![name] = value]
  /\ caller' = [a \in Callers |->
       IF caller[a] # Idle /\ caller[a].name = name
         THEN [caller[a] EXCEPT !.due = Either] ELSE caller[a]]

\* Credentials and Disallow, up to Lock
Call(name, entry) ==
  /\ loop = Idle
  /\ loop' = [stage |-> "waiting", name |-> name, entry |-> entry]
  /\ pending' = TRUE
  /\ Grant(name, Either)
  /\ UNCHANGED <<lookup, readers>>

Credentials(name) == \E password \in Passwords : Call(name, password)

Disallow(name) == Call(name, No)

Lock ==
  /\ loop # Idle /\ loop.stage = "waiting"
  /\ readers = {}
  /\ loop' = [loop EXCEPT !.stage = "locked"]
  /\ UNCHANGED <<lookup, pending, readers, caller, granted>>

\* Mutant of Write: a name stays in the map.
WriteOnly ==
  /\ loop # Idle /\ loop.stage = "locked"
  /\ lookup' = IF loop.entry = No THEN lookup ELSE Put(lookup, loop.name, loop.entry)
  /\ loop' = [loop EXCEPT !.stage = "written"]
  /\ UNCHANGED <<pending, readers, caller, granted>>

\* Mutant of Write: a name is set to nothing instead of deleted.
WriteNothing ==
  /\ loop # Idle /\ loop.stage = "locked"
  /\ lookup' = Put(lookup, loop.name, loop.entry)
  /\ loop' = [loop EXCEPT !.stage = "written"]
  /\ UNCHANGED <<pending, readers, caller, granted>>

\* The assignment of allow, or delete
Write ==
  /\ loop # Idle /\ loop.stage = "locked"
  /\ lookup' = IF loop.entry = No THEN Without(lookup, {loop.name})
                                  ELSE Put(lookup, loop.name, loop.entry)
  /\ loop' = [loop EXCEPT !.stage = "written"]
  /\ UNCHANGED <<pending, readers, caller, granted>>

\* The deferred Unlock, and the return to the event loop
Unlock ==
  /\ loop # Idle /\ loop.stage = "written"
  /\ loop' = Idle
  /\ pending' = FALSE
  /\ Grant(loop.name, loop.entry)
  /\ UNCHANGED <<lookup, readers>>

-----------------------------------------------------------------------------
\* The library has a request of a client that names a user.
Authenticate(a, name) ==
  /\ caller[a] = Idle
  /\ caller' = [caller EXCEPT ![a] =
       [stage |-> "called", name |-> name, result |-> No, due |-> granted[name]]]
  /\ UNCHANGED <<lookup, loop, pending, readers, granted>>

Stage(a, stage) == caller[a] # Idle /\ caller[a].stage = stage

\* Mutant of RLock: a waiting writer does not keep readers out.
RLockAlways(a) ==
  /\ Stage(a, "called")
  /\ loop = Idle \/ loop.stage = "waiting"
  /\ readers' = readers \cup {a}
  /\ caller' = [caller EXCEPT ![a].stage = "locked"]
  /\ UNCHANGED <<lookup, loop, pending, granted>>

RLock(a) ==
  /\ Stage(a, "called")
  /\ ~pending
  /\ readers' = readers \cup {a}
  /\ caller' = [caller EXCEPT ![a].stage = "locked"]
  /\ UNCHANGED <<lookup, loop, pending, granted>>

Read(a) ==
  /\ Stage(a, "locked")
  /\ LET call == caller[a]
     IN caller' = [caller EXCEPT ![a] =
          [stage |-> "read", name |-> call.name, due |-> call.due,
           result |-> IF call.name \in DOMAIN lookup THEN lookup[call.name] ELSE No]]
  /\ UNCHANGED <<lookup, loop, pending, readers, granted>>

\* The deferred RUnlock, and the answer to the library
RUnlock(a) ==
  /\ Stage(a, "read")
  /\ readers' = readers \ {a}
  /\ caller' = [caller EXCEPT ![a] = Idle]
  /\ UNCHANGED <<lookup, loop, pending, granted>>

Next ==
  \/ \E name \in Names : Credentials(name) \/ Disallow(name)
  \/ Lock \/ Write \/ Unlock
  \/ \E a \in Callers :
       \/ \E name \in Names : Authenticate(a, name)
       \/ RLock(a) \/ Read(a) \/ RUnlock(a)

Spec == Init /\ [][Next]_vars

\* Goroutines that can go on do.  Unlock lets in the readers that wait before
\* the next writer: strong fairness of RLock.
Fairness ==
  /\ WF_vars(Lock) /\ WF_vars(Write) /\ WF_vars(Unlock)
  /\ \A a \in Callers : SF_vars(RLock(a)) /\ WF_vars(Read(a)) /\ WF_vars(RUnlock(a))

FairSpec == Spec /\ Fairness

-----------------------------------------------------------------------------
\* The map is never read while it is written: Go stops the whole process when
\* it notices that.
MapNotShared == loop # Idle /\ loop.stage \in {"locked", "written"} => readers = {}

\* An authentication that begins after Credentials returned and ends before the
\* name is taken back succeeds with these credentials; one that begins after
\* Disallow returned fails, whatever else is under way.
AnsweredAsGranted ==
  \A a \in Callers :
    Stage(a, "read") /\ caller[a].due # Either => caller[a].result = caller[a].due

\* Between two calls of the loop the map is what the calls have left: what the
\* event loop takes for the accepted names (lookup of module Rooms) is so.
LookupAsGranted ==
  loop = Idle => lookup = [n \in {m \in Names : granted[m] # No} |-> granted[n]]

\* Clients that keep authenticating do not hold up the event loop.
LoopGoesOn == loop # Idle ~> loop = Idle
=============================================================================
