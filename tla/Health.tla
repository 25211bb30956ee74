-------------------------------- MODULE Health --------------------------------
(***************************************************************************)
(* The health check: /health (router/router.go) calls Rooms.Count          *)
(* (ws/rooms.go), which asks the event loop how many connections there     *)
(* are, with one timer of five seconds for handing the question over and   *)
(* for the answer.                                                         *)
(***************************************************************************)
EXTENDS Naturals

CONSTANTS
  Calls,  \* the calls of Count, of any number of HTTP requests
  Empty,  \* what is in a channel that nothing was sent to
  Down,   \* what Count returns in place of a number: -1 and a reason, status 500
  Max     \* bound: the number of connections

Counts == 0 .. Max

VARIABLES
  connected,  \* len(rooms.connected)
  loop,       \* what the event loop does: nothing, a handler, or the Health of a call
  call,       \* the stage of each call
  timer,      \* whether its five seconds are over
  response,   \* what is in each response channel, of capacity one
  answer,     \* what Count returned
  seen        \* what connected has been during the call

vars == <<connected, loop, call, timer, response, answer, seen>>

Idle == "idle"
Busy == "busy"

Init ==
  /\ connected = 0 /\ loop = Idle
  /\ call = [c \in Calls |-> Idle]
  /\ timer = [c \in Calls |-> FALSE]
  /\ response = [c \in Calls |-> Empty]
  /\ answer = [c \in Calls |-> Empty]
  /\ seen = [c \in Calls |-> {}]

-----------------------------------------------------------------------------
To(c, from, to) == call[c] = from /\ call' = [call EXCEPT ![c] = to]

\* Mutant of Channel: one channel serves all calls.
ChannelShared(c) == CHOOSE d \in Calls : TRUE

\* Count makes a channel of its own.
Channel(c) == c

Ask(c) ==
  /\ To(c, Idle, "asking")
  /\ seen' = [seen EXCEPT ![c] = {connected}]
  /\ UNCHANGED <<connected, loop, timer, response, answer>>

Expire(c) ==
  /\ call[c] \in {"asking", "waiting"} /\ ~timer[c]
  /\ timer' = [timer EXCEPT ![c] = TRUE]
  /\ UNCHANGED <<connected, loop, call, response, answer, seen>>

\* The loop takes the message; Go chooses when the timer is ready, too.
Accept(c) ==
  /\ loop = Idle
  /\ To(c, "asking", "waiting")
  /\ loop' = c
  /\ UNCHANGED <<connected, timer, response, answer, seen>>

\* Health.Execute; its writeTimeout would wait if there were no room.
Respond(c) ==
  /\ loop = c /\ response[Channel(c)] = Empty
  /\ loop' = Idle
  /\ response' = [response EXCEPT ![Channel(c)] = connected]
  /\ UNCHANGED <<connected, call, timer, answer, seen>>

Receive(c) ==
  /\ response[Channel(c)] # Empty
  /\ To(c, "waiting", "done")
  /\ answer' = [answer EXCEPT ![c] = response[Channel(c)]]
  /\ response' = [response EXCEPT ![Channel(c)] = Empty]
  /\ UNCHANGED <<connected, loop, timer, seen>>

\* "main loop didn't accept" or "didn't respond to a message within 5 second"
GiveUp(c) ==
  /\ timer[c]
  /\ To(c, "asking", "done") \/ To(c, "waiting", "done")
  /\ answer' = [answer EXCEPT ![c] = Down]
  /\ UNCHANGED <<connected, loop, timer, response, seen>>

\* Any other handler, which may take long: it writes and looks addresses up.
Handle ==
  /\ loop = Idle
  /\ loop' = Busy
  /\ UNCHANGED <<connected, call, timer, response, answer, seen>>

Handled(n) ==
  /\ loop = Busy
  /\ loop' = Idle
  /\ connected' = n
  /\ seen' = [c \in Calls |-> IF call[c] \in {"asking", "waiting"} THEN seen[c] \cup {n} ELSE seen[c]]
  /\ UNCHANGED <<call, timer, response, answer>>

Next ==
  \/ \E c \in Calls :
       Ask(c) \/ Expire(c) \/ Accept(c) \/ Respond(c) \/ Receive(c) \/ GiveUp(c)
  \/ Handle \/ \E n \in Counts : Handled(n)

Spec == Init /\ [][Next]_vars

-----------------------------------------------------------------------------
\* Count returns how many connections there were at some time during the call:
\* an answer that comes late is not taken for that of another call.  Nor does
\* the loop wait for a call that has given up (rooms.go:116): there is room
\* for its answer.
CountTrue ==
  \A c \in Calls :
    /\ answer[c] \in Counts => answer[c] \in seen[c]
    /\ loop = c => response[Channel(c)] = Empty
=============================================================================
