------------------------------- MODULE Router -------------------------------
(***************************************************************************)
(* The requests that the router serves (router/router.go): logging in and  *)
(* out, the configuration and the websocket (Login), and the health check  *)
(* (Health).  The two share no variable; a behaviour goes on with the one  *)
(* that it begins with.                                                    *)
(***************************************************************************)
EXTENDS Login

CONSTANTS Calls, Empty, Down, Max   \* of Health

ASSUME HealthAssumption ==
  /\ Max \in Nat /\ Empty \notin 0 .. Max /\ Down \notin (0 .. Max) \cup {Empty}
  /\ {"idle", "busy"} \cap Calls = {}   \* what the loop does besides

VARIABLES connected, loop, call, timer, response, answer, seen

health == <<connected, loop, call, timer, response, answer, seen>>

Checks == INSTANCE Health

RouterInit == Init /\ Checks!Init

\* Nothing has happened yet; which settings there are is of no account to
\* health checks.
Untouched ==
  /\ ~secretSet /\ Run = 1 /\ Accounts = EmptyMap
  /\ clock = 0 /\ jar = NoCookie
  /\ \A t \in Tabs : tab[t] = Idle /\ conn[t] = NoInfo

RouterNext ==
  \/ Checks!Init /\ Next /\ UNCHANGED health
  \/ Untouched /\ Checks!Next /\ UNCHANGED vars

RouterSpec == RouterInit /\ [][RouterNext]_<<vars, health>>

-----------------------------------------------------------------------------
CountTrue == Checks!CountTrue
=============================================================================
