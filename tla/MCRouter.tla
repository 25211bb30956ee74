------------------------------ MODULE MCRouter ------------------------------
(***************************************************************************)
(* An instance of Router for TLC.                                          *)
(***************************************************************************)
EXTENDS Router, TLC

CONSTANTS u1, p1, p2, t1, t2, h1, h2

OneUser      == {u1}
TwoPasswords == {p1, p2}
TwoTabs      == {t1, t2}
TwoCalls     == {h1, h2}
NoOrigins    == {}

\* No users, or one with two entries
SomeUserFiles == {<<>>, <<<<u1, p1>>, <<u1, p2>>>>}

Symmetry == Permutations(TwoTabs)
=============================================================================
