# Screego server: TLA+ models and proofs

Screego lets the members of a room share their screens with each other. The
server is a signalling server: browsers hold a websocket to it, create and join
rooms, and learn from it with whom to set up peer-to-peer connections; a TURN
server in the same process relays the streams of those that cannot reach each
other. This directory models the server from its settings to its shutdown and the
part of the browser that answers it, checks the models with TLC and proves the
central invariants with TLAPS.

## The system

| component | state | operations | interacts with |
|---|---|---|---|
| Rooms, the event loop (`ws/rooms.go`, `ws/event_*.go`) | `connected` (connection -> room name, `""` for none), `Rooms` (name -> room), counters | one handler per message: connected, create, join, name, share, stopshare, hostoffer, hostice, clientanswer, clientice, disconnected, health | takes messages from all connections over the channel `Incoming`, writes to each over a channel of its own, calls the TURN server and the address lookup |
| Room (`ws/room.go`) | users, sessions, mode, `CloseOnOwnerLeave` | newSession, closeSession, notifyInfoChanged | the event loop is its only user |
| Client (`ws/client.go`) | socket, `once`, two channels | upgrade, reader, writer, CloseOnError, CloseOnDone | two to three goroutines per connection, all talking to the loop |
| once (`ws/once.go`) | `done`, a mutex | Do | called by reader and writer |
| codec (`ws/readwrite.go`, `ws/outgoing`) | none | JSON in and out | reader and writer |
| TURN server (`turn/server.go`) | accepted user names and their passwords under a lock | Credentials, Disallow, authenticate, relay allocation | called by the loop and, concurrently, by the TURN library |
| TURN port range (`turn/portrange.go`, `config/config.go`) | min, max | draw a port, retry ten times | configuration |
| external IP (`config/ipdns`) | cached addresses, error, time of the next lookup | Get | called by the loop and by relay allocation under a lock |
| login (`auth/auth.go`) | users file; a cookie per browser | Authenticate, Logout, CurrentUser | the result at the upgrade stays with the connection |
| HTTP server (`server/server.go`) | listener, one channel of errors | start, interrupt, wait | |
| configuration, serve command (`config/config.go`, `config/ip.go`, `cmd/serve.go`) | the environment while it starts | read files, check, derive, start one part after the other | hands its values to every part |
| router (`router/router.go`) | none | `/stream`, `/login`, `/logout`, `/config`, `/health`, `/metrics` | calls login and Rooms |
| logging, names, hash command | none | | |
| browser (`ui/src/useRoom.ts`) | peer connections per session | reacts to each message of the server | the peer of the event loop |

### What makes each part correct, and what is hard about it

* **Rooms / Room.** Two indexes of who is where must agree after every handler,
  also after those that fail half-way (the address lookup fails after a join was
  entered and announced). Every presenter has a session with every other member,
  whatever the order of joining, presenting and leaving; sessions end with their
  ends, take their TURN credentials with them, and the browsers are told. A
  connection the loop has cut off may still have messages under way.
* **Client.** Reader, writer and the loop's CloseWriter race for one `once`;
  channels have capacity zero and one; the loop gives a message up after two
  seconds. The end of a connection must be reported exactly when the loop does
  not know it yet, nothing may be written behind CloseWriter, nobody may wait for
  ever.
* **once.** `done` is read outside the lock, the lock is released before the
  function runs.
* **TURN server.** The loop changes the map of names while goroutines of the TURN
  library read it; whoever was granted a name must be let in and whoever lost it
  must not, and neither side may keep the other from going on. A relay socket is
  opened by up to ten draws from a range in 16 bit arithmetic, next to other
  programs, and then needs an address from a lookup that may fail.
* **IP lookup.** One cache for address and error, two refetch periods, a mutex
  held across the lookup, several callers.
* **Login.** The server has no sessions: what it knows is in a cookie that tabs
  share, that answers replace in any order, that survives restarts and that may be
  sent at any age.
* **HTTP server.** One receiver for the two errors of serving and shutting down.
* **Health check.** A question with a timeout whose answer may come late.
* **Configuration.** Precedence of sources, and combinations of settings of which
  only some give a server that works.
* **Browser.** Peer connections are found by session only once a promise has
  settled, while messages go on arriving; they fail on their own.

`PROJECT.json` lists each of these at its line under "hazards", with the
properties that cover it.

## Modules

| module | models | state and actions |
|---|---|---|
| `GoMap` | Go's built-in map (external) | operators `Put`, `PutAll`, `Without` |
| `Room` | `ws/room.go` and the part of each handler that changes one room | operators that return the room a method leaves |
| `Rooms` | the event loop | `connected`, `rooms`; `lookup` is the TURN server's map of accepted names, `gauge` the difference of the prometheus counters, `link` the life of each connection, `view` and `announced` what each browser was last sent about its room and its sessions, `relayed` what the last step passed on. One action per handler and outcome; `Disconnect` is `executeNoError`, which every failing handler runs in the same step on what it has changed by then |
| `ScreenShare` | what the server promises the people in a meeting: `audience`, `presenting`, `watching`, `gone` | `Enter`, `Present`, `Unpresent`, `Leave`. `Rooms` instantiates it as `Meeting`, with the members of each room, its presenters and the ends of its sessions |
| `Connections` | `ws/client.go`, `Upgrade`, `Start` and `writeTimeout` | the place of each goroutine, `once`, the socket, the channel to the writer, and `outbox`: what the handler that runs in the loop has left to write, as one set of messages per stage |
| `Once` | `ws/once.go` | a program counter per goroutine, one action per atomic step |
| `Client` | the clients, with the once of one of them in all its steps | `Connections` and `Once` |
| `TurnServer` | the internal TURN server's map of names (`turn/server.go`) under its read-write lock | the call the loop is in, the stage of each authentication, readers; `granted` is what callers can rely on. Every lock, access and unlock is a step |
| `PortRange` | which ranges are accepted and which ports are drawn, modulo `Width` | operators |
| `Relay` | `Generator`, `RelayAddressGeneratorPortRange` and `...None`, with any provider of addresses | one state per allocation, the ports in use here and by others; draws, failures, the address handed to the client |
| `IPDNS` | `config/ipdns/dns.go` | the cache, the mutex, the stage of each `Get`, a resolver that changes |
| `Relaying` | `Generator.AllocatePacketConn` with the address cache as its provider | `Relay` and `IPDNS`: an allocation with its socket open calls `Get`, waits for the mutex and the lookup, and is served or fails by what it returns |
| `RelayLimits` | | the constants of these three and their assumptions |
| `Turn` | the internal server that `turn.Start` makes | `TurnServer` and `Relaying` |
| `Login` | `auth/auth.go`, `/config`, the upgrade | the cookie of a client with several tabs, requests and answers under way, the users file of each run of the server |
| `Health` | `Rooms.Count`, `Health.Execute`, `/health` | the stage and timer of each call, its channel of capacity one, a loop that may be stuck |
| `Router` | the requests of `router/router.go` that touch state | `Login` and `Health` |
| `Startup` | the checks of `config.Get`, `config/ip.go`, and `cmd/serve.go` | one state per step of the command; uses `PortRange` |
| `HttpServer` | `server/server.go` | the place of three goroutines, the interrupt, requests in progress |
| `Process` | the serve command from its settings to its end | `Startup`, with `HttpServer` for the call of `server.Start` |
| `Browser` | `ui/src/useRoom.ts`: a presenter and a viewer | the peer connections, where they are filed, the queues of three websockets; the server between them does what `Rooms` does |
| `MC...` | | values for the constants of the module they are named after |
| `RoomProofs` | | lemmas about `Room` |
| `RoomsProofs`, `MeetingProofs` | | theorems about `Rooms`: its inductive invariant; what follows from it, and that it implements `ScreenShare` |
| `ClientProofs`, `ProcessProofs`, `RouterProofs` | | theorems about `Client`, `Process` and `Router` |
| `RelayingProofs`, `TurnProofs` | | theorems about `PortRange`, `Relay` and `Relaying`; about `TurnServer` and the whole of `Turn` |

The loop takes one message at a time and nothing else touches its state, so a
handler is one step of `Rooms`. What it writes is abstracted to what the browser
knows afterwards. `Connections` looks at the same loop from the other side: it
keeps the goroutines and channels and lets a handler write to any registered
connections in the order `executeNoError` prescribes.

Where components interact they are composed by steps that both take:
`Relaying` has the allocation and the cache move together when the cache is asked
and when it answers; `Process` has the command's last step and the goroutines of
the HTTP server share its start and its end.

`Client`, `Turn` and `Router` also put together parts that share no variable in the
code: the once and the rest of a client (in `Connections` a call of `Do` is one
step, in `Once` it is all of them), the names and sockets of a TURN server, logins
and health checks. A property of one part cannot depend
on what the other does, so a behaviour follows one part and leaves the other where
it began; that keeps the state space a sum and not a product. That each part's own
specification holds in the whole follows from the way the whole is written; the
proofs have it as a lemma.

How the other modules meet: `lookup` of `Rooms` is the map of `TurnServer`
between two calls, which `LookupAsGranted` states and `TurnProofs` proves;
the failing lookups of `Rooms` (`JoinFails`, `ShareFails`) are the errors of
`IPDNS`; a static provider answers with an address (`AddressesAsConfigured`), and so
does the cache (`RelaySpec`); `LoggedIn` of `Rooms` is what `Upgrade` of `Login` took
from a cookie; that requests find a loop and TURN listeners is `ServesWhole`.
`PortRange` is used by both `Startup`, which validates ranges, and `Relay`, which
draws from them.

Operators named "Mutant of ..." are the same operation with a plausible mistake;
they are not used by the specifications and serve to show that each property can
fail.

### Abstractions

* Names, passwords, reasons, ICE addresses and the session descriptions that are
  relayed carry no meaning for the properties and are left out or are members of
  a small set. A connection mode other than the three known ones is "unknown",
  because the mode of a request is never validated.
* xids are unique. In `Rooms` an xid of a session that nothing mentions any more
  may stand for a new one, which bounds the sessions open at a time and not their
  number in a run. A connection gets an xid of its own and is never reused.
* A browser whose link is "open" gets what is written to it. The writer's
  deadline for one message and the loop's patience are both two seconds
  (`writeWait` in `client.go`, `writeTimeout` in `room.go`), so a message is given
  up only when the writer is already failing, which is a "broken" link, or by
  a scheduling delay, which `Connections` has (`GiveUp`) and `Rooms` has not.
* `lookup` is that of the internal TURN server; for the external one Screego keeps
  nothing. Time in `IPDNS` and `Login` is a counter up to a bound; the ratio of the
  periods is kept only as far as it matters (`Second` less than `Minute`, the
  timeout of a session less than the age that the cookie store takes).
* A client in `Login` has one cookie and sends it or not, however old it is: what a
  browser does with `MaxAge` is not the server's to rely on. Answers that were
  written before a restart may arrive after it.
* An allocation calls `Get` from where its socket is open. In `IPDNS` the event
  loop is one more caller like these.
* The comparison of a peer's address with the deny list, bcrypt, CSV and JSON are
  what they accept. `Login` leaves out that saving a cookie fails. `Startup` has
  one flag for everything that envconfig parses by itself and one for whether the
  settings files load; the draw of a secret may fail.
* `Browser` leaves ICE candidates out, which take the way of the descriptions,
  and has one viewer: viewers share nothing but the presenter's stream. Closing a
  peer connection raises no event at the end that closes it, as the WebRTC
  standard has it. A peer connection that has both descriptions may fail at either
  end at any time, connected or not; `failed` remembers the sessions with that.
* `announced` follows what is written and not what a browser makes of it: a session
  enters with hostsession or clientsession and goes with endshare. That browsers
  find no session in an endshare is finding 5 and in `Browser`. The host of a
  session forgets it when it asks to stop sharing (the browser does so in
  `stopShare`), so `StopShare` takes the announcement from both ends while the
  message goes to the viewer only.
* In `Connections` a handler writes in stages: to the room that somebody has just
  joined, to the connection that is cut off, to the ends of its sessions, to the
  rest of its room. What a handler writes to one connection within a stage is one
  message; a request that succeeds has two rounds, those about sessions and those
  about the room.

## Runs

| run | instance | shows |
|---|---|---|
| `rooms_meeting` | 3 connections, 2 rooms, 4 xids, mode turn; 12918 states | types; the loop knows exactly the live connections (`Registered`); the two indexes agree (`Placement`) and rooms are attended (`RoomsAttended`); sessions have their ends and reach everybody (`SessionEnds`, `StreamsReachEveryone`); TURN credentials are those of the sessions; counters match (`GaugesMatch`); both ends are sent the beginning and the end of each session (`EndsTold`); a relayed message arrives at the other end; a session ends only with its presentation or an end (`SessionsLast`); the server implements `ScreenShare` (`MeetingSpec`) |
| `rooms_login` | 2 connections of which 1 is logged in, 2 rooms, 2 names, every mode, mode of authentication "turn", fairness; 17648 states | every reachable browser shows its room as it is (`ViewsCurrent`); a broken connection leaves everything (`BrokenLeave`) |
| `rooms_login_required` | authentication "turn" | finding: TURN credentials for somebody without a login |
| `rooms_blank` | the room name `""` | finding: its creator counts as being nowhere |
| `connections` | 2 connections, notifications may be given up; the once of 3 goroutines; 92266 states | a registered connection is served by its writer, CloseWriter is the last message, a failure is reported once, who is cut off is told, the loop always returns to its channel, and when one side fails all goroutines end; the closing function runs once (`RunsOnce`) and nobody waits for it (`NobodyWaitsForF`) |
| `connections_lost` | the same, where CloseWriter may be given up | finding: the writer that met an error stays for ever |
| `turn` | 2 names, 2 passwords, 2 authenticating goroutines; 2 allocations, every accepted range of 3 port numbers, 2 draws, other programs, a resolver with 4 responses over 3 ticks, one of which has addresses of one family only; 584875 states | answers are as granted (`AnsweredAsGranted`) and the map between calls as the loop thinks (`LookupAsGranted`); authentications do not hold up the loop (`LoopGoesOn`); ports are drawn from the range (`PortsInRange`), no socket is lost (`SocketsHeld`), with the cache as provider the allocations implement `Relay`, whose provider always answers with an address or an error (`RelaySpec`); a client is told an address, on a server with one family too (`RelayedSomewhere`); a cached answer or error is no older than its period and failed lookups stay apart (`CacheInTime`) |
| `process` | 6 port numbers; every value of one group of settings with the others valid; 2 requests, 2 ways to fail to serve; 22398 states | addresses are those configured (`AddressesAsConfigured`); what serves is whole, and nothing serves that a fatal message was about (`ServesWhole`); the command ends with the right error (`ResultTrue`), and does end when it is interrupted at any time or fails (`ProcessEnds`) |
| `router` | 2 tabs, 1 user, 2 passwords, 2 runs of the server, 2 ticks; 2 health checks, up to 2 connections; 1632723 states | who counts as logged in had an account with the run that signed the cookie (`VouchedFor`); the number of connections is one there was during the check (`CountTrue`) |
| `router_timeout` | the same, with a timeout shorter than the store's limit | finding: a cookie older than the timeout counts |
| `browser` | 3 presentations, failures at either end; 37270 states | a presentation that lasts is seen unless its connection has failed (`PresenterIsSeen`); pictures of ended or failed ones go away (`PicturesEnd`) |
| `browser_endshare` | 1 presentation | finding: endshare does not take the picture away |

Why the bounds are enough. With three connections a room has a presenter, a
viewer and somebody who comes and goes; two presenters at once, sharing twice and
presenting to each other need four xids at a time and happen. A second room
matters for who is where, since a connection is in one: two rooms show every way
of mixing them up, and sessions in both at once would need four connections
without adding an interaction. That different rooms' sessions stay apart for any
number of connections is part of the proved invariant. The mode of a room decides
about credentials only, so `rooms_meeting` has the mode with the most of them and
`rooms_login` has all. Two connections suffice for `Connections`, in which they
meet only in the loop: one is cut off while the other is written to. Nothing
bounds the length of a behaviour in these.

In `turn` a range can wrap around (its end may be the last port number), be
smaller than the number of allocations, or be taken by other programs; two draws
show success after a failure and giving up; that a wider range is left nowhere is
proved. One authentication is overtaken by a call of the loop while the other
waits; names do not interact. The clocks stop when every period has passed at
least once after the last change. In `router` a second run, a second
tab and two ticks are what it takes for a cookie to be foreign, old or replaced.
`browser` has an ended presentation whose messages are still under way, one that
is on, and one more to follow. `process` takes every input of the small sets named
in its MC module; nothing in it repeats.

Connections without a login are interchangeable and so are xids, hence the
symmetry sets of the safety runs. Liveness runs use none.

### Fairness

* `Rooms`: a "broken" connection's Disconnected is eventually handled.
  `CloseOnError` starts a goroutine that only sends this message, the loop never
  stops receiving, and `Connections` shows both (`LoopReturns`, `FailedEnds`).
  No browser is assumed to send anything.
* `Connections`: goroutines that can go on do (weak fairness). The senders on
  `Incoming` queue in order, so the loop comes to each of them although others
  keep sending: strong fairness of what a connection sends, Connected or a request
  and, from a goroutine of its own, Disconnected. A write ends by its deadline.
  Nothing makes a peer send, break or answer.
* `TurnServer`: goroutines that can go on do. `RLock` is strongly fair: `Unlock` of
  a Go `RWMutex` lets in the readers that are waiting before the next writer.
* `Process`: goroutines go on and `Shutdown` gives up after its two seconds. No
  interrupt is assumed and no request ends by assumption.
* `Browser`: messages arrive, promises settle, peers connect unless one of them has
  failed, and a peer whose other end is closed notices. Nobody is assumed to share,
  stop or fail.

The other modules state safety only and assume no fairness. `CHECK_DEADLOCK FALSE`
stands where a bound or the program's end stops the system: `turn` (clocks),
`router` (runs and ticks), `process` (the process exits) and the browser runs
(the presentations are used up).

## Findings

1. `rooms_blank`: a room may be named `""`, the zero value that means "in no
   room" in `connected` (`event_create.go:26` and `:77`). Its creator can enter a
   second room and is not taken out of the first one when it leaves.
2. `rooms_login_required`: `screego.config.example:83` says "turn: User login is
   required for TURN connections" and `docs/nat-traversal.md:10` the same, `:82` "all:
   User login is always required"; making a room takes a login and joining it none
   (`event_join.go:18`). In mode "turn" every member of a TURN room gets TURN
   credentials for its sessions, which the run shows; in mode "all" the same step
   lets anybody into a room that exists.
3. `connections_lost`: `client.go:133` says the write loop exits on errors; it
   goes on and leaves only with the loop's CloseWriter, which may be given up
   (`room.go:149`).
4. `router_timeout`: `screego.config.example:104` says that the session timeout
   "Defines how long a user session is valid in seconds"; it is the cookie's `MaxAge`
   only, and `CurrentUser` takes a cookie that is sent later, up to the limit of the
   cookie store, which is made without the timeout (`auth.go:48`, `:81`).
5. `browser_endshare`: `EndShare` (`ws/outgoing/messages.go:86`) is a new type over
   `xid.ID` and so loses its JSON encoding; the session arrives as an array of
   numbers where `message.ts:85` has a text, and the viewer's picture stays until
   its peer connection fails.

Three more places where the text and the code part, seen while modelling and
followed by no run of their own: `screego.config.example:74` says that the clients of
the TURN server are whitelisted by address, while `authenticate` never reads the
address beside a password (`turn/server.go:158`); `screego.config.example:18` enables
TLS by `SCREEGO_SERVER_TLS`, while a certificate or key file alone does
(`server.go:57`); and `server_test.go:35` has `Start` return the error of `Shutdown`,
while with a real `http.Server` `Serve` returns first and `Start` ends without an
error (`server.go:75`). `ResultTrue` states what `Start` does return.

## Proofs

Every safety invariant, action property and refinement that a passing run checks is
also a theorem about the specification of that run. The theorems about rooms
hold for any finite sets of connections and xids and any sets of names, logins and
modes (`ConfigAssumption` in `Rooms`); those about clients for any connections,
goroutines and messages that may be given up; those about the TURN server for any
names, goroutines and allocations, any width of a port number, number of draws and
periods, and any answers of the resolver (`TurnAssumption`, `WidthAssumption`,
`RelayAssumption`, `ProviderAssumption`); those about the process for all settings
and requests (`SettingsAssumption`, `ErrorsAssumption`); those about the router for
any tabs, users, users files, runs and calls (`LoginAssumption`,
`HealthAssumption`). The assumptions name types and keep apart values that the code
cannot confuse: an address is not the absent one, `nil` is not an error, no
goroutine is called nobody.

### Rooms

`RoomProofs` has the lemmas about one room. A room is `Sound` when it has its
type, the ends of each session are a presenter and another member (`EndsOK`), and
every presenter has a session with every other member (`ReachOK`). Each operation
of `Room` keeps it so, or leaves one user unfinished (`ReachOK(room, {c})`): the
state a handler is in when the address lookup fails, and from which leaving makes
the room sound again (`LeftSound`).

`RoomsProofs` proves the inductive invariant

    IInv == TypeOK, Registered, every room Sound, no xid in two rooms,
            lookup = the credentials of all sessions, Placed(connected, rooms)

None of the checked properties is inductive alone. That a room is sound after
somebody leaves needs the ends of its sessions to be members; that closing one
room's sessions removes no other credentials needs the xids of the rooms to be
disjoint; that a handler finds its user in the room needs the two indexes to
agree, in both directions, and `Registered` to rule out connections that come
back. `LeftOK` states what a failing handler may have changed; one lemma per way
to end a connection and one per succeeding handler lead to `HandleIInv` and
`Invariance`. From it follow `TypeCorrect`, `RegistrationIsRight`,
`MembershipIsConsistent`, `SessionsHaveTheirEnds`, `EveryoneIsReached` and
`CredentialsEndWithSessions`.

`MeetingProofs` builds on it. It first says once what each handler, succeeding or
failing, does to the rooms, the counters and what browsers are told; the
properties are then consequences of these descriptions and of `IInv`:

* `RoomsStayAttended`: rooms have members, and those that close with their owner have
  the owner.
* `GaugesAreRight`: the counters are the cardinalities of the rooms, members and
  sessions. It takes the sets of different rooms to be disjoint, and a failing
  handler to have counted what its disconnection takes back.
* `EndsAreTold` and `RelayedWhereItBelongs`: a browser that can be reached was sent
  the beginning of each of its sessions and the end of each other one, and what it
  sends under one arrives at the other end.
* `ViewsAreCurrent`: every change of what `Info` shows is followed by a
  notification of everybody reachable in that room, in the same step.
* `SessionsAreKept`: the action property `SessionsLast`.
* `ScreenShareImplemented`: the initial state and every step map to those of
  `ScreenShare` or a stutter. A handler that fails or closes a room maps to one
  `Leave` of all who left.

These theorems assume `RoomNames`: no request carries the room name `""`. It is
exactly what `rooms_blank` violates; without it they are false.

### Clients

`ClientProofs` begins with the once. Its invariant `OnceInv` ties the lock to the
program counters and says who was chosen to run the function. With it,
`ClosedOnce` (the function runs at most once), `DoneIsRight` (`done` is never set
without somebody to run it) and `ClosingWaitsForNobody` (the mutex is never held
while it runs) hold of the clients.

`ConnectionInv` is about the goroutines and channels. `CloseIsLast` and
`RegisteredIsServed` are not inductive: when CloseWriter moves from the outbox into
the channel nothing else may be pending for that connection, in any stage of the
handler. So `OrderedOutbox` says that CloseWriter stands once in the outbox and
behind all messages to its connection, `NothingFollows` that nothing is pending
behind one that was delivered, `ClosedUnknown` that the loop does not know whom it
has sent one, and `Unaccepted` and `PendingAccepted` that none of this begins before
`Connected` was handled. `EndIsReported` is part of it. From it follow
`RegisteredAreServed`, `ClosesAreLast` and `EndsAreReported`. `CutOffsAreTold`
has a hypothesis: no CloseWriter is given up. Where one may be, the property
is false and the writer may stay for ever, which is finding 3.

### TURN server

`RelayingProofs` proves for any `Width`, so for 16 bits, that the draws from an
accepted range are exactly its ports (`RangeIsDrawn`): `(MaxPort+1)-MinPort` wraps
twice and comes out right, except for the range 0 to Width-1, which is not one in
use. From it follows `RangeIsKept`; `SocketsAreHeld` adds to the property that an
allocation that is not open holds no port, and `AddressIsKnown` that a client is
told an address, which `TurnKnowsItsAddress` says of the composed server.

The allocations that ask the cache are those of `Relay` (`RelayImplemented`), by a
refinement mapping that forgets the cache. A step where the cache answers without
error must be one of `Relay`'s `Serve`, whose answers have an address; so the
invariant says that whoever answers does it from a cache that is `Whole`: an error
or at least one address. It needs `refetch`, too: a cache that was never filled is
not taken for a fresh one. That a lookup is whole is `LookupIsWhole`, with the
least index of a family in the answer (`FirstIsKnown`).

`CacheIsInTime` proves the action property of the cache. Its invariant `AgeInv`
says that one caller is past the mutex, that a caller who looks up has found the
cache old and nobody filled it since, and that the cache has what the resolver says
unless that changed after the cache was filled.

`TurnProofs` proves `MapIsNotShared`, `AuthenticationIsRight` and `LookupIsRight`
for any names and goroutines. The invariant says who is in the lock (`LockOK`),
that the map has of every name what was granted, or, for the name of the loop's
call, what it is about to be (`MapOK`), and that what is due to an authentication
is still granted (`DueOK`): the step that revokes a grant must make every
authentication of that name under way undecided, or this fails. Then it puts the
server together: the specification of the run `turn` implies `RelaySpec`,
`PortsInRange`, `SocketsHeld`, `RelayedSomewhere` and `CacheInTime` (through
`Relaying`), `AnsweredAsGranted` and `LookupAsGranted` (through `TurnServer`).
Lemmas before say that two instances of `Relaying`, the one `Turn` declares and
the one the theorems come from, are equal.

### Process and router

`ProcessProofs`: whatever the settings, the provider is the one they describe or
none (`AddressesAreRight`, by cases on the length and the kinds of the list), and
what serves has passed every check (`ServesAreWhole`): a range in use that was accepted
has a port to draw, also when it ends with the last one. `ResultIsTrue` needs an
invariant of the three goroutines: who sends has an error to send, `ErrServerClosed`
comes of a shutdown, a shutdown of an interrupt, and what was received is not
changed any more.

`RouterProofs`: `CountIsTrue` needs that a call is sent one answer at most, in a
channel of its own, and that the answer lies between the counts seen since the call
began. `LoggedInAreVouchedFor` needs that every cookie under way or kept was signed
by a run that had the account, which no restart undoes, also while an answer of an
earlier run is under way.

### Only model-checked

Liveness under fairness is out of the prover's reach: `BrokenLeave`, `LoopReturns`,
`FailedEnds`, `LoopGoesOn`, `ProcessEnds`, `PresenterIsSeen`,
`PicturesEnd`, and the finding on `WriterExitsOnErrors`. `Browser` has no other property
of a passing run, so nothing is proved about it. No module uses
RECURSIVE operators.

## Plan

What the server does is modelled and its safety properties are proved. What is
left, in this order:

1. Which of the theorems about rooms hold without `RoomNames`, and in what weaker
   form the others do when a room is named `""`.
2. The safety part of what the liveness properties rest on: that a handler in the
   loop can always go on (`Write` or `GiveUp` is possible while something is pending),
   and the same for `Process`.
3. `Browser` with a second viewer that comes and goes.

## Not modelled, and why

* The codec (`ws/readwrite.go`) turns texts into messages and has no state; that
  a message may be malformed is in `Connections`, that `EndShare` is encoded wrongly
  is in `Browser`.
* `/metrics` with basic authentication and the static files keep no state; access
  logging, log levels, CORS headers, the hash command and `version` are output.
* Where settings come from: `config.Get` reads several files in turn, of which
  the first to set a key counts, and the environment before them. `Startup` begins
  with the settings this results in; the parsing of single values by envconfig is
  one flag.
* Names and passwords are drawn at random. The random source of `Rooms` is shared
  by goroutines without a lock (`rooms.go:78`); the race is inside `math/rand` and
  the repository promises nothing of the names. The last entry of each list is
  never drawn (`sillyname.go`), which nothing contradicts either.
* The external TURN server: Screego puts a time 24 hours ahead into a user name and
  signs it (`turn/server.go:179`), keeps nothing and takes nothing back; whether a
  session outlasts that time is not its concern, and nothing says it should be.
* The relay socket of a failed lookup is handed to the TURN library together with the
  error (`turn/server.go:55`); what the library does with it is outside `src/`, so
  `SocketsHeld` leaves such sockets out.
* The TURN protocol, DNS, WebRTC, HTTP and websocket libraries are external.
* The components of the UI other than `useRoom.ts` are presentation.

## Running

    tlc -workers 2 -config rooms_meeting.cfg MCRooms.tla
    tlapm RoomsProofs.tla
