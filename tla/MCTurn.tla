------------------------------- MODULE MCTurn -------------------------------
(***************************************************************************)
(* An instance of Turn for TLC.                                            *)
(***************************************************************************)
EXTENDS Turn

CONSTANTS n1, n2, p1, p2, a1, a2

TwoNames     == {n1, n2}
TwoPasswords == {p1, p2}
Two          == {a1, a2}

\* The first address of a family counts, wherever it stands; a domain may have
\* addresses of one family only.
IP(family, host) == [family |-> family, host |-> host]
SomeResponses ==
  {Failure, <<>>, <<IP("v6", "b"), IP("v4", "c"), IP("v4", "a")>>, <<IP("v6", "b")>>}
=============================================================================
