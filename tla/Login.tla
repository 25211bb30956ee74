-------------------------------- MODULE Login --------------------------------
(***************************************************************************)
(* Logging in and out (auth/auth.go, router/router.go): the server keeps   *)
(* no sessions, it signs the user name into a cookie.  The tabs of one     *)
(* client send requests that carry the cookie of that moment, and answers  *)
(* replace it when they arrive, in any order.  A browser drops the cookie  *)
(* when it is MaxAge old or is closed, another client when it likes: the   *)
(* server cannot tell.  The server may restart.                            *)
(***************************************************************************)
EXTENDS GoMap, Integers, Sequences

CONSTANTS
  Users,      \* user names
  Passwords,
  Tabs,       \* each has at most one request under way
  UserFiles,  \* bound: what the users file may say: pairs of name and password
  Timeouts,   \* bound: SCREEGO_SESSION_TIMEOUT_SECONDS
  StoreAge,   \* how old a cookie the cookie store takes, whatever the timeout
  Allowed,    \* the origins that SCREEGO_CORS_ALLOWED_ORIGINS match
  MaxTime, MaxRuns  \* bounds of the counters

Guest == "guest"
Origins == {"", "same", "other"}   \* the page of a request; "" is none

ASSUME LoginAssumption ==
  /\ Guest \notin Users
  /\ UserFiles \subseteq Seq(Users \X Passwords)
  /\ Timeouts \subseteq Int /\ StoreAge \in Nat
  /\ Allowed \subseteq Origins

VARIABLES
  timeout, secretSet,  \* two settings that stay
  books,      \* Users.Lookup of each run of the server so far
  clock,      \* the time
  jar,        \* the cookie that the client has
  tab,        \* the request of each tab, or its answer
  conn        \* the websocket of each tab: what Upgrade took from its cookie

vars == <<timeout, secretSet, books, clock, jar, tab, conn>>

Run == Len(books)
Accounts == books[Run]

\* The secret that a run signs with: the one that is set, or one it has drawn
\* ("user logins will be invalidated on restart", config.go:178).
Key(run) == IF secretSet THEN 0 ELSE run

\* A cookie says for whom it is, and which run signed it when.
Cookie(user) == [user |-> user, run |-> Run, since |-> clock]
NoCookie == [user |-> Guest, run |-> 1, since |-> 0]
Idle == [stage |-> "idle"]

\* What the server makes of a cookie: the user, from a cookie that was so old
\* when it was sent, and the run that says so.
NoInfo == [user |-> Guest, loggedIn |-> FALSE, cookie |-> NoCookie, age |-> 0, by |-> 1]

\* read and ReadPasswordsFile: of two entries for a user the later one counts.
Book(file) ==
  LET Last(u) == CHOOSE i \in DOMAIN file :
        file[i][1] = u /\ \A j \in DOMAIN file : file[j][1] = u => j <= i
  IN [u \in {file[i][1] : i \in DOMAIN file} |-> file[Last(u)][2]]

Init ==
  /\ timeout \in Timeouts /\ secretSet \in BOOLEAN
  /\ books \in {<<Book(file)>> : file \in UserFiles}
  /\ clock = 0
  /\ jar = NoCookie
  /\ tab = [t \in Tabs |-> Idle]
  /\ conn = [t \in Tabs |-> NoInfo]

-----------------------------------------------------------------------------
\* The client has dropped the cookie or sends it.
Request(t, kind, user, pass, origin) ==
  /\ tab[t] = Idle
  /\ \E cookie \in {jar, NoCookie} :
       tab' = [tab EXCEPT ![t] =
         [stage |-> "sent", kind |-> kind, user |-> user, pass |-> pass, origin |-> origin,
          cookie |-> cookie, age |-> clock - cookie.since]]
  /\ UNCHANGED <<timeout, secretSet, books, clock, jar, conn>>

Is(t, stage, kind) == tab[t].stage = stage /\ tab[t].kind = kind

\* The answer: the cookie it sets, if it does, and what it says.
Answer(t, sets, cookie, info) ==
  /\ tab' = [tab EXCEPT ![t] =
       [stage |-> "answered", kind |-> tab[t].kind, sets |-> sets, cookie |-> cookie,
        info |-> info, by |-> Run]]
  /\ UNCHANGED <<timeout, secretSet, books, clock, jar, conn>>

\* Mutant of CurrentUser: the signature is not looked at.
CurrentUserUnsigned(t) ==
  LET cookie == tab[t].cookie
  IN IF cookie.user # Guest /\ clock - cookie.since <= StoreAge
       THEN [user |-> cookie.user, loggedIn |-> TRUE, cookie |-> cookie,
             age |-> tab[t].age, by |-> Run]
       ELSE NoInfo

\* A cookie counts as none that this run's secret did not sign or that is older
\* than the cookie store takes; the session timeout is not looked at.
CurrentUser(t) ==
  LET cookie == tab[t].cookie
  IN IF cookie.user # Guest /\ Key(cookie.run) = Key(Run) /\ clock - cookie.since <= StoreAge
       THEN [user |-> cookie.user, loggedIn |-> TRUE, cookie |-> cookie,
             age |-> tab[t].age, by |-> Run]
       ELSE NoInfo

Validate(user, pass) == user \in DOMAIN Accounts /\ Accounts[user] = pass

Authenticate(t) ==
  /\ Is(t, "sent", "login")
  /\ LET ok == Validate(tab[t].user, tab[t].pass)
     IN Answer(t, ok, IF ok THEN Cookie(tab[t].user) ELSE NoCookie, NoInfo)

\* A new session without a user replaces the old one.
Logout(t) ==
  /\ Is(t, "sent", "logout")
  /\ Answer(t, TRUE, NoCookie, NoInfo)

Config(t) ==
  /\ Is(t, "sent", "config")
  /\ Answer(t, FALSE, NoCookie, CurrentUser(t))

CheckOrigin(origin) == origin = "" \/ origin \in Allowed

\* Rooms.Upgrade, for pages of the same host or of origins that are allowed
Upgrade(t) ==
  /\ Is(t, "sent", "stream")
  /\ LET ok == tab[t].origin = "same" \/ CheckOrigin(tab[t].origin)
     IN Answer(t, FALSE, NoCookie, IF ok THEN CurrentUser(t) ELSE NoInfo)

\* The client has the answer; a websocket that a run before gave it is broken.
Settle(t) ==
  /\ tab[t].stage = "answered"
  /\ tab' = [tab EXCEPT ![t] = Idle]
  /\ jar' = IF tab[t].sets THEN tab[t].cookie ELSE jar
  /\ conn' = IF tab[t].kind = "stream"
               THEN [conn EXCEPT ![t] = IF tab[t].by = Run THEN tab[t].info ELSE NoInfo]
               ELSE conn
  /\ UNCHANGED <<timeout, secretSet, books, clock>>

\* A new run may find another users file.  Websockets and the requests that have
\* no answer are lost; an answer that was written may still arrive.
Restart ==
  /\ Run < MaxRuns
  /\ \E file \in UserFiles : books' = Append(books, Book(file))
  /\ tab' = [t \in Tabs |-> IF tab[t].stage = "answered" THEN tab[t] ELSE Idle]
  /\ conn' = [t \in Tabs |-> NoInfo]
  /\ UNCHANGED <<timeout, secretSet, clock, jar>>

Tick ==
  /\ clock < MaxTime
  /\ clock' = clock + 1
  /\ UNCHANGED <<timeout, secretSet, books, jar, tab, conn>>

Next ==
  \/ \E t \in Tabs :
       \/ \E u \in Users, p \in Passwords : Request(t, "login", u, p, "same")
       \/ \E kind \in {"logout", "config"} : Request(t, kind, Guest, Guest, "same")
       \/ \E origin \in Origins : Request(t, "stream", Guest, Guest, origin)
       \/ Authenticate(t) \/ Logout(t) \/ Config(t) \/ Upgrade(t) \/ Settle(t)
  \/ Restart \/ Tick

Spec == Init /\ [][Next]_vars

-----------------------------------------------------------------------------
\* What the server says of its users: to /config and to its websockets
Told == {conn[t] : t \in Tabs} \cup {tab[t].info : t \in {u \in Tabs : tab[u].stage = "answered"}}

\* Whoever counts as logged in had an account with the run of the server that
\* signed the cookie, and that run's logins count with the one that takes it: it
\* is the same or, with SCREEGO_SECRET set, one before.
VouchedFor ==
  \A info \in Told :
    info.loggedIn =>
      /\ info.user \in DOMAIN books[info.cookie.run]
      /\ secretSet \/ info.cookie.run = info.by

\* screego.config.example:104 says of SCREEGO_SESSION_TIMEOUT_SECONDS that it
\* "Defines how long a user session is valid in seconds": who sends a cookie
\* later than that is not logged in.
TimeoutEnforced ==
  timeout > 0 => \A info \in Told : info.loggedIn => info.age < timeout
=============================================================================
