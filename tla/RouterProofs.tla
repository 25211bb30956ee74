---------------------------- MODULE RouterProofs ----------------------------
(***************************************************************************)
(* The safety properties of the router's requests, for any number of tabs, *)
(* users, runs of the server and health checks.                            *)
(***************************************************************************)
EXTENDS Router, TLAPS

-----------------------------------------------------------------------------
(* Health checks. *)

Counted == Checks!Counts \cup {Empty}

HealthTypes ==
  /\ connected \in Checks!Counts
  /\ loop \in Calls \cup {"idle", "busy"}
  /\ call \in [Calls -> {"idle", "asking", "waiting", "done"}]
  /\ timer \in [Calls -> BOOLEAN]
  /\ response \in [Calls -> Counted]
  /\ answer \in [Calls -> Counted \cup {Down}]
  /\ seen \in [Calls -> SUBSET Checks!Counts]

\* Nothing is sent to a call before the loop has taken it, and once only.
SentOnce ==
  \A c \in Calls :
    /\ call[c] \in {"idle", "asking"} => response[c] = Empty /\ loop # c
    /\ loop = c => response[c] = Empty

\* What a call sees, is sent and returns
CountsSeen ==
  \A c \in Calls :
    /\ call[c] \in {"asking", "waiting"} => connected \in seen[c]
    /\ call[c] = "waiting" /\ response[c] # Empty => response[c] \in seen[c]
    /\ call[c] # "done" => answer[c] = Empty
    /\ answer[c] \in Checks!Counts => answer[c] \in seen[c]

HealthInv == HealthTypes /\ SentOnce /\ CountsSeen

LEMMA Marks ==
  /\ Empty \notin Checks!Counts /\ Down \notin Checks!Counts /\ Down # Empty
  /\ \A c \in Calls : c # "idle" /\ c # "busy"
  /\ 0 \in Checks!Counts
  BY HealthAssumption DEF Checks!Counts

LEMMA InitHealth == Checks!Init => HealthInv
  BY Marks DEF Checks!Init, Checks!Idle, HealthInv, HealthTypes, Counted, SentOnce, CountsSeen

LEMMA AskHealth == ASSUME HealthInv, NEW c \in Calls, Checks!Ask(c) PROVE HealthInv'
  <1>1. HealthTypes'
    BY Marks DEF Checks!Ask, Checks!To, Checks!Channel, Checks!Idle, HealthInv, HealthTypes, Counted
  <1>2. SentOnce'
    BY Marks DEF Checks!Ask, Checks!To, Checks!Channel, Checks!Idle, HealthInv, HealthTypes, SentOnce
  <1>3. CountsSeen'
    BY Marks
    DEF Checks!Ask, Checks!To, Checks!Channel, Checks!Idle, HealthInv, HealthTypes, Counted,
        SentOnce, CountsSeen
  <1> QED
    BY <1>1, <1>2, <1>3 DEF HealthInv

LEMMA ExpireHealth == ASSUME HealthInv, NEW c \in Calls, Checks!Expire(c) PROVE HealthInv'
  <1>1. HealthTypes'
    BY Marks DEF Checks!Expire, Checks!To, Checks!Channel, Checks!Idle, HealthInv, HealthTypes, Counted
  <1>2. SentOnce'
    BY Marks DEF Checks!Expire, Checks!To, Checks!Channel, Checks!Idle, HealthInv, HealthTypes, SentOnce
  <1>3. CountsSeen'
    BY Marks
    DEF Checks!Expire, Checks!To, Checks!Channel, Checks!Idle, HealthInv, HealthTypes, Counted,
        SentOnce, CountsSeen
  <1> QED
    BY <1>1, <1>2, <1>3 DEF HealthInv

LEMMA AcceptHealth == ASSUME HealthInv, NEW c \in Calls, Checks!Accept(c) PROVE HealthInv'
  <1>1. HealthTypes'
    BY Marks DEF Checks!Accept, Checks!To, Checks!Channel, Checks!Idle, HealthInv, HealthTypes, Counted
  <1>2. SentOnce'
    BY Marks DEF Checks!Accept, Checks!To, Checks!Channel, Checks!Idle, HealthInv, HealthTypes, SentOnce
  <1>3. CountsSeen'
    BY Marks
    DEF Checks!Accept, Checks!To, Checks!Channel, Checks!Idle, HealthInv, HealthTypes, Counted,
        SentOnce, CountsSeen
  <1> QED
    BY <1>1, <1>2, <1>3 DEF HealthInv

LEMMA RespondHealth == ASSUME HealthInv, NEW c \in Calls, Checks!Respond(c) PROVE HealthInv'
  <1>1. HealthTypes'
    BY Marks DEF Checks!Respond, Checks!To, Checks!Channel, Checks!Idle, HealthInv, HealthTypes, Counted
  <1>2. SentOnce'
    BY Marks DEF Checks!Respond, Checks!To, Checks!Channel, Checks!Idle, HealthInv, HealthTypes, SentOnce
  <1>3. CountsSeen'
    BY Marks
    DEF Checks!Respond, Checks!To, Checks!Channel, Checks!Idle, HealthInv, HealthTypes, Counted,
        SentOnce, CountsSeen
  <1> QED
    BY <1>1, <1>2, <1>3 DEF HealthInv

LEMMA ReceiveHealth == ASSUME HealthInv, NEW c \in Calls, Checks!Receive(c) PROVE HealthInv'
  <1>1. HealthTypes'
    BY Marks DEF Checks!Receive, Checks!To, Checks!Channel, Checks!Idle, HealthInv, HealthTypes, Counted
  <1>2. SentOnce'
    BY Marks DEF Checks!Receive, Checks!To, Checks!Channel, Checks!Idle, HealthInv, HealthTypes, SentOnce
  <1>3. CountsSeen'
    BY Marks
    DEF Checks!Receive, Checks!To, Checks!Channel, Checks!Idle, HealthInv, HealthTypes, Counted,
        SentOnce, CountsSeen
  <1> QED
    BY <1>1, <1>2, <1>3 DEF HealthInv

LEMMA GiveUpHealth == ASSUME HealthInv, NEW c \in Calls, Checks!GiveUp(c) PROVE HealthInv'
  <1>1. HealthTypes'
    BY Marks DEF Checks!GiveUp, Checks!To, Checks!Channel, Checks!Idle, HealthInv, HealthTypes, Counted
  <1>2. SentOnce'
    BY Marks DEF Checks!GiveUp, Checks!To, Checks!Channel, Checks!Idle, HealthInv, HealthTypes, SentOnce
  <1>3. CountsSeen'
    BY Marks
    DEF Checks!GiveUp, Checks!To, Checks!Channel, Checks!Idle, HealthInv, HealthTypes, Counted,
        SentOnce, CountsSeen
  <1> QED
    BY <1>1, <1>2, <1>3 DEF HealthInv

LEMMA HandleHealth == ASSUME HealthInv, Checks!Handle PROVE HealthInv'
  BY Marks DEF Checks!Handle, Checks!Idle, Checks!Busy, HealthInv, HealthTypes, SentOnce, CountsSeen

LEMMA HandledHealth ==
  ASSUME HealthInv, NEW n \in Checks!Counts, Checks!Handled(n) PROVE HealthInv'
  <1>1. HealthTypes'
    BY DEF Checks!Handled, Checks!Idle, HealthInv, HealthTypes
  <1>2. SentOnce'
    BY Marks DEF Checks!Handled, Checks!Idle, HealthInv, SentOnce
  <1>3. CountsSeen'
    BY DEF Checks!Handled, Checks!Idle, HealthInv, HealthTypes, CountsSeen
  <1> QED
    BY <1>1, <1>2, <1>3 DEF HealthInv

LEMMA NextHealth == HealthInv /\ [Checks!Next]_Checks!vars => HealthInv'
  <1> SUFFICES ASSUME HealthInv, [Checks!Next]_Checks!vars PROVE HealthInv'
    OBVIOUS
  <1>1. CASE UNCHANGED Checks!vars
    BY <1>1 DEF Checks!vars, HealthInv, HealthTypes, SentOnce, CountsSeen
  <1> QED
    BY <1>1, AskHealth, ExpireHealth, AcceptHealth, RespondHealth, ReceiveHealth, GiveUpHealth,
       HandleHealth, HandledHealth DEF Checks!Next

\* Whatever the tabs do, health checks go as module Health says.
LEMMA HealthImplemented == RouterSpec => Checks!Spec
  <1>1. RouterInit => Checks!Init
    BY DEF RouterInit
  <1>2. [RouterNext]_<<vars, health>> => [Checks!Next]_Checks!vars
    BY DEF RouterNext, health, Checks!vars
  <1> QED
    BY <1>1, <1>2, PTL DEF RouterSpec, Checks!Spec

THEOREM HealthInvariance == Checks!Spec => []HealthInv
  BY InitHealth, NextHealth, PTL DEF Checks!Spec

\* Count returns how many connections there were at some time during the call.
THEOREM CountIsTrue == RouterSpec => []CountTrue
  <1>1. HealthInv => CountTrue
    BY DEF HealthInv, SentOnce, CountsSeen, CountTrue, Checks!CountTrue, Checks!Channel
  <1> QED
    BY <1>1, HealthImplemented, HealthInvariance, PTL

-----------------------------------------------------------------------------
(* Logins. *)

\* What a users file may be read as
BookSet == {Book(file) : file \in UserFiles}

\* A cookie with a user was signed by a run that had an account for that user.
Signed(cookie) ==
  cookie.user # Guest =>
    /\ cookie.run \in DOMAIN books
    /\ cookie.user \in DOMAIN books[cookie.run]

Vouched(info) ==
  info.loggedIn =>
    /\ info.cookie.run \in DOMAIN books
    /\ info.user \in DOMAIN books[info.cookie.run]
    /\ secretSet \/ info.cookie.run = info.by

\* A request carries such a cookie and an answer may set one.
TabInv(t) ==
  \/ tab[t] = Idle
  \/ tab[t].stage = "sent" /\ Signed(tab[t].cookie)
  \/ tab[t].stage = "answered" /\ Signed(tab[t].cookie) /\ Vouched(tab[t].info)

LoginInv ==
  /\ books \in Seq(BookSet) /\ Run > 0
  /\ secretSet \in BOOLEAN
  /\ DOMAIN tab = Tabs
  /\ Signed(jar)
  /\ \A t \in Tabs : TabInv(t)
  /\ \A t \in Tabs : Vouched(conn[t])

LEMMA NoCookieSigned == Signed(NoCookie)
  BY DEF Signed, NoCookie

LEMMA NoInfoVouched == Vouched(NoInfo)
  BY DEF Vouched, NoInfo

LEMMA RunsCounted ==
  books \in Seq(BookSet) => Run \in Nat /\ DOMAIN books = 1 .. Run
  BY DEF Run

LEMMA InitLogin == Init => LoginInv
  <1> SUFFICES ASSUME Init PROVE LoginInv
    OBVIOUS
  <1>1. books \in Seq(BookSet) /\ Run > 0
    <2>1. PICK file \in UserFiles : books = <<Book(file)>>
      BY DEF Init
    <2>2. Book(file) \in BookSet
      BY DEF BookSet
    <2> QED
      BY <2>1, <2>2 DEF Run
  <1>2. Signed(jar)
    BY NoCookieSigned DEF Init
  <1>3. \A t \in Tabs : TabInv(t) /\ Vouched(conn[t])
    BY NoInfoVouched DEF Init, TabInv
  <1> QED
    BY <1>1, <1>2, <1>3 DEF Init, LoginInv

\* A step of one tab
LEMMA TabStep ==
  ASSUME LoginInv, NEW t \in Tabs, NEW value, tab' = [tab EXCEPT ![t] = value],
         UNCHANGED <<timeout, secretSet, books>>,
         Signed(jar'), TabInv(t)', \A u \in Tabs : Vouched(conn'[u])
  PROVE  LoginInv'
  <1>1. \A x : (Signed(x)' <=> Signed(x)) /\ (Vouched(x)' <=> Vouched(x))
    BY DEF Signed, Vouched
  <1>2. ASSUME NEW u \in Tabs PROVE TabInv(u)'
    <2>1. CASE u = t
      BY <2>1
    <2>2. CASE u # t
      <3>1. tab'[u] = tab[u] /\ TabInv(u)
        BY <2>2 DEF LoginInv
      <3> QED
        BY <1>1, <3>1 DEF TabInv
    <2> QED
      BY <2>1, <2>2
  <1> QED
    BY <1>2 DEF LoginInv, Signed, Vouched, Run

LEMMA RequestLogin ==
  ASSUME LoginInv, NEW t \in Tabs, NEW kind, NEW user, NEW pass, NEW origin,
         Request(t, kind, user, pass, origin)
  PROVE  LoginInv'
  <1>1. PICK cookie \in {jar, NoCookie} :
          tab' = [tab EXCEPT ![t] =
            [stage |-> "sent", kind |-> kind, user |-> user, pass |-> pass, origin |-> origin,
             cookie |-> cookie, age |-> clock - cookie.since]]
    BY DEF Request
  <1>2. Signed(cookie)
    BY NoCookieSigned DEF LoginInv
  <1>3. UNCHANGED <<timeout, secretSet, books, clock, jar, conn>>
    BY DEF Request
  <1>4. tab'[t].stage = "sent" /\ tab'[t].cookie = cookie
    BY <1>1 DEF LoginInv
  <1>5. TabInv(t)'
    BY <1>2, <1>3, <1>4 DEF TabInv, Signed
  <1> QED
    BY <1>1, <1>3, <1>5, TabStep DEF LoginInv

\* An answer to a request
LEMMA AnswerLogin ==
  ASSUME LoginInv, NEW t \in Tabs, NEW sets, NEW cookie, NEW info, Answer(t, sets, cookie, info),
         Signed(cookie), Vouched(info)
  PROVE  LoginInv'
  <1>1. UNCHANGED <<timeout, secretSet, books, clock, jar, conn>>
    BY DEF Answer
  <1>2. tab'[t].stage = "answered" /\ tab'[t].cookie = cookie /\ tab'[t].info = info
    BY DEF Answer, LoginInv
  <1>3. TabInv(t)'
    BY <1>1, <1>2 DEF TabInv, Vouched, Signed
  <1> QED
    BY <1>1, <1>3, TabStep DEF Answer, LoginInv

\* A cookie counts only if this run, or one with the same secret, signed it.
LEMMA UserVouched ==
  ASSUME LoginInv, NEW t \in Tabs, tab[t].stage = "sent"
  PROVE  Vouched(CurrentUser(t))
  <1> DEFINE cookie == tab[t].cookie
             info == CurrentUser(t)
  <1>1. Signed(cookie)
    BY DEF LoginInv, TabInv, Idle
  <1>2. \/ info = NoInfo
        \/ /\ cookie.user # Guest /\ Key(cookie.run) = Key(Run)
           /\ info.user = cookie.user /\ info.cookie = cookie /\ info.by = Run
    BY DEF CurrentUser
  <1> HIDE DEF info, cookie
  <1>3. CASE info = NoInfo
    BY <1>3, NoInfoVouched DEF info
  <1>4. CASE /\ cookie.user # Guest /\ Key(cookie.run) = Key(Run)
             /\ info.user = cookie.user /\ info.cookie = cookie /\ info.by = Run
    <2>1. secretSet \/ cookie.run = Run
      BY <1>4 DEF Key, LoginInv
    <2>2. Vouched(info)
      BY <1>1, <1>4, <2>1 DEF Signed, Vouched
    <2> QED
      BY <2>2 DEF info
  <1> QED
    BY <1>2, <1>3, <1>4

\* Whoever has given the right password gets a cookie that this run has signed.
LEMMA CookieSigned ==
  ASSUME LoginInv, NEW user, user \in DOMAIN Accounts PROVE Signed(Cookie(user))
  BY RunsCounted DEF LoginInv, Signed, Cookie, Accounts

LEMMA HandledLogin ==
  ASSUME LoginInv, NEW t \in Tabs, Authenticate(t) \/ Logout(t) \/ Config(t) \/ Upgrade(t)
  PROVE  LoginInv'
  <1>1. CASE Authenticate(t)
    <2>1. CASE Validate(tab[t].user, tab[t].pass)
      BY <1>1, <2>1, AnswerLogin, CookieSigned, NoInfoVouched DEF Authenticate, Validate
    <2>2. CASE ~Validate(tab[t].user, tab[t].pass)
      BY <1>1, <2>2, AnswerLogin, NoCookieSigned, NoInfoVouched DEF Authenticate
    <2> QED
      BY <2>1, <2>2
  <1>2. CASE Logout(t)
    BY <1>2, AnswerLogin, NoCookieSigned, NoInfoVouched DEF Logout
  <1>3. CASE Config(t)
    BY <1>3, AnswerLogin, NoCookieSigned, UserVouched DEF Config, Is
  <1>4. CASE Upgrade(t)
    BY <1>4, AnswerLogin, NoCookieSigned, UserVouched, NoInfoVouched DEF Upgrade, Is
  <1> QED
    BY <1>1, <1>2, <1>3, <1>4

LEMMA SettleLogin == ASSUME LoginInv, NEW t \in Tabs, Settle(t) PROVE LoginInv'
  <1>1. Signed(tab[t].cookie) /\ Vouched(tab[t].info)
    BY DEF Settle, LoginInv, TabInv, Idle
  <1>2. UNCHANGED <<timeout, secretSet, books, clock>>
    BY DEF Settle
  <1>3. Signed(jar')
    BY <1>1 DEF Settle, LoginInv
  <1>4. \A u \in Tabs : Vouched(conn'[u])
    BY <1>1, NoInfoVouched DEF Settle, LoginInv
  <1>5. TabInv(t)'
    BY DEF Settle, LoginInv, TabInv
  <1> QED
    BY <1>2, <1>3, <1>4, <1>5, TabStep DEF Settle

\* A cookie, and an answer that is on its way, outlive the run that gave them.
LEMMA RestartLogin == ASSUME LoginInv, Restart PROVE LoginInv'
  <1>1. PICK file \in UserFiles : books' = Append(books, Book(file))
    BY DEF Restart
  <1>2. Book(file) \in BookSet
    BY DEF BookSet
  <1>3. /\ books' \in Seq(BookSet) /\ Run' > 0
        /\ DOMAIN books \subseteq DOMAIN books'
        /\ \A r \in DOMAIN books : books'[r] = books[r]
    BY <1>1, <1>2, RunsCounted DEF LoginInv, Run
  <1>4. secretSet' = secretSet /\ jar' = jar
    BY DEF Restart
  <1>5. \A x : (Signed(x) => Signed(x)') /\ (Vouched(x) => Vouched(x)')
    BY <1>3, <1>4 DEF Signed, Vouched
  <1>6. ASSUME NEW t \in Tabs PROVE TabInv(t)'
    <2>1. tab'[t] = IF tab[t].stage = "answered" THEN tab[t] ELSE Idle
      BY DEF Restart
    <2>2. tab[t].stage = "answered" => Signed(tab[t].cookie) /\ Vouched(tab[t].info)
      BY DEF LoginInv, TabInv, Idle
    <2> QED
      BY <1>5, <2>1, <2>2 DEF TabInv
  <1>7. \A t \in Tabs : conn'[t] = NoInfo
    BY DEF Restart
  <1>8. (\A t \in Tabs : Vouched(conn[t]))'
    BY <1>7 DEF Vouched, NoInfo
  <1>9. (Signed(jar))'
    BY <1>3, <1>4 DEF LoginInv, Signed
  <1>10. DOMAIN tab' = Tabs
    BY DEF Restart
  <1> QED
    BY <1>3, <1>4, <1>6, <1>8, <1>9, <1>10 DEF LoginInv

\* Time passes, or nothing of this happens.
LEMMA StillLogin ==
  ASSUME LoginInv, UNCHANGED <<timeout, secretSet, books, jar, tab, conn>> PROVE LoginInv'
  BY DEF LoginInv, Signed, Vouched, TabInv, Run

LEMMA NextLogin == LoginInv /\ [Next]_vars => LoginInv'
  <1> SUFFICES ASSUME LoginInv, [Next]_vars PROVE LoginInv'
    OBVIOUS
  <1>1. CASE Tick \/ UNCHANGED vars
    BY <1>1, StillLogin DEF Tick, vars
  <1> QED
    BY <1>1, RequestLogin, HandledLogin, SettleLogin, RestartLogin DEF Next

\* Logins go on as module Login says, whatever health checks do.
LEMMA LoginStep ==
  /\ RouterInit => Init
  /\ [RouterNext]_<<vars, health>> => [Next]_vars
  BY DEF RouterInit, RouterNext

THEOREM LoginInvariance == RouterSpec => []LoginInv
  BY InitLogin, NextLogin, LoginStep, PTL DEF RouterSpec

\* Whoever counts as logged in had an account with the run of the server that
\* signed the cookie, and that run's logins count with the one that takes it.
THEOREM LoggedInAreVouchedFor == RouterSpec => []VouchedFor
  <1>1. LoginInv => VouchedFor
    <2> SUFFICES ASSUME LoginInv, NEW info \in Told PROVE Vouched(info)
      BY DEF VouchedFor, Vouched
    <2> QED
      BY DEF Told, LoginInv, TabInv, Idle
  <1> QED
    BY <1>1, LoginInvariance, PTL

=============================================================================
