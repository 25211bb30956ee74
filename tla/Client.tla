------------------------------- MODULE Client -------------------------------
(***************************************************************************)
(* The clients of ws/client.go: their goroutines and channels, where a use *)
(* of Client.once is one step (Connections), and the once itself in all    *)
(* its steps (Once).  The two parts share no variable; a behaviour goes on *)
(* with the one that it begins with.                                       *)
(***************************************************************************)
EXTENDS Connections

CONSTANT Threads   \* the goroutines that use one client's once

VARIABLES pc, done, m, ran

close == <<pc, done, m, ran>>

Do == INSTANCE Once

ClientInit == Init /\ Do!Init

Untouched == \A c \in Clients : upgrade[c] = "new"

ClientNext ==
  \/ Do!Init /\ Next /\ UNCHANGED close
  \/ Untouched /\ Do!Next /\ UNCHANGED vars

ClientSpec == ClientInit /\ [][ClientNext]_<<vars, close>> /\ Fairness

-----------------------------------------------------------------------------
RunsOnce == Do!RunsOnce
NobodyWaitsForF == Do!NobodyWaitsForF
=============================================================================
