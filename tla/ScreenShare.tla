---------------------------- MODULE ScreenShare ----------------------------
(***************************************************************************)
(* What the server promises the people in a meeting, without connections,  *)
(* sessions or messages: who enters a room watches everyone presenting     *)
(* there, at once; everybody in it watches whoever starts to present; and  *)
(* a picture ends with the presentation or with one of its two ends.       *)
(***************************************************************************)
EXTENDS FiniteSets

CONSTANTS Clients, RoomIDs

VARIABLES
  audience,     \* who is in each room
  presenting,   \* who presents
  watching,     \* the pairs of a presenter and a viewer of its picture
  gone          \* who has left, which is final: coming back is a new client

vars == <<audience, presenting, watching, gone>>

Init ==
  /\ audience = [r \in RoomIDs |-> {}]
  /\ presenting = {}
  /\ watching = {}
  /\ gone = {}

Enter(c, r) ==
  /\ c \notin gone
  /\ \A q \in RoomIDs : c \notin audience[q]
  /\ audience' = [audience EXCEPT ![r] = @ \cup {c}]
  /\ watching' = watching \cup ((presenting \cap audience[r]) \X {c})
  /\ UNCHANGED <<presenting, gone>>

Present(c, r) ==
  /\ c \in audience[r]
  /\ presenting' = presenting \cup {c}
  /\ watching' = watching \cup ({c} \X (audience[r] \ {c}))
  /\ UNCHANGED <<audience, gone>>

Unpresent(c) ==
  /\ c \in presenting
  /\ presenting' = presenting \ {c}
  /\ watching' = {w \in watching : w[1] # c}
  /\ UNCHANGED <<audience, gone>>

\* Someone leaves alone, or a room closes on everybody in it.
Leave(S) ==
  /\ S \cap gone = {}
  /\ \/ \E c \in Clients : S = {c}
     \/ \E r \in RoomIDs : S = audience[r] /\ S # {}
  /\ gone' = gone \cup S
  /\ audience' = [r \in RoomIDs |-> audience[r] \ S]
  /\ presenting' = presenting \ S
  /\ watching' = {w \in watching : w[1] \notin S /\ w[2] \notin S}

Next ==
  \/ \E c \in Clients, r \in RoomIDs : Enter(c, r) \/ Present(c, r)
  \/ \E c \in Clients : Unpresent(c)
  \/ \E S \in SUBSET Clients : Leave(S)

Spec == Init /\ [][Next]_vars

-----------------------------------------------------------------------------
=============================================================================
