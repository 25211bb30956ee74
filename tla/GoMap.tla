------------------------------- MODULE GoMap -------------------------------
(***************************************************************************)
(* The built-in map type of Go, as the server uses it: a function whose    *)
(* domain is the set of keys present.                                      *)
(***************************************************************************)
EXTENDS FiniteSets, Functions

\* m is a map whose keys are in K and whose values are in V.
IsMap(m, K, V) == DOMAIN m \subseteq K /\ m \in [DOMAIN m -> V]

EmptyMap == [k \in {} |-> {}]

\* m[k] = v
Put(m, k, v) == [j \in DOMAIN m \cup {k} |-> IF j = k THEN v ELSE m[j]]

\* Assign every entry of n in m.
PutAll(m, n) ==
  [j \in DOMAIN m \cup DOMAIN n |-> IF j \in DOMAIN n THEN n[j] ELSE m[j]]

\* delete(m, k) for every k in K
Without(m, K) == Restrict(m, DOMAIN m \ K)
=============================================================================
