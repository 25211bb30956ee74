------------------------------ MODULE MCRooms ------------------------------
(***************************************************************************)
(* Instances of Rooms for TLC.                                             *)
(***************************************************************************)
EXTENDS Rooms, TLC

CONSTANTS c1, c2, c3, s1, s2, s3, s4

Pair      == {c1, c2}
Trio      == {c1, c2, c3}
FirstOnly == {c1}
Nobody    == {}
TwoIDs    == {s1, s2}
FourIDs   == {s1, s2, s3, s4}
TurnModes == {"stun", "turn"}
EveryMode == ConnectionModes
TurnOnly  == {"turn"}

\* Nothing tells the connections apart when nobody is logged in; the xids of
\* sessions never differ.
Interchangeable == Permutations(Clients) \cup Permutations(SessionIDs)
=============================================================================
