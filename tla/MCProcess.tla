------------------------------ MODULE MCProcess ------------------------------
(***************************************************************************)
(* An instance of Process for TLC.                                         *)
(***************************************************************************)
EXTENDS Process

CONSTANTS r1, r2, listenErr, serveErr, timeoutErr

TwoRequests == {r1, r2}
OwnErrors == {listenErr, serveErr}
OneTimeout == {timeoutErr}

IP(kind, host) == [kind |-> kind, host |-> host]
MCEntries == {IP("v4", "a"), IP("v4", "b"), IP("v6", "c"), IP("dns", "d"), IP("none", "e")}
MCLists == UNION {[1 .. n -> MCEntries] : n \in 0 .. 3}
One == <<IP("v4", "a")>>

S(given, auth, tls, lists, ips, range) ==
  [files |-> given[1], other |-> given[2], secret |-> given[3],
   authMode |-> auth, serverTLS |-> tls[1], cert |-> tls[2], key |-> tls[3],
   origins |-> lists[1], denyPeers |-> lists[2],
   externalIP |-> ips[1], turnExternalIP |-> ips[2], turnSecret |-> ips[3], portRange |-> range]

\* One group of settings varies at a time.
Given == <<TRUE, TRUE, TRUE>>
Plain == <<FALSE, FALSE, FALSE>>
Lists == SUBSET {"good", "broken"}
MCSettings ==
  {S(Given, auth, tls, lists, <<One, <<>>, FALSE>>, <<>>) :
     auth \in {"turn", "all", "none", "unknown"},
     tls \in BOOLEAN \X BOOLEAN \X BOOLEAN, lists \in Lists \X Lists}
  \cup {S(given, "turn", Plain, <<{}, {}>>, <<One, <<>>, FALSE>>, <<>>) :
     given \in BOOLEAN \X BOOLEAN \X BOOLEAN}
  \cup {S(Given, "turn", Plain, <<{}, {}>>, ips, <<>>) :
     ips \in (MCLists \X {<<>>, One} \X BOOLEAN) \cup ({<<>>} \X MCLists \X BOOLEAN)}
  \cup {S(Given, "turn", Plain, <<{}, {}>>, <<One, <<>>, FALSE>>, range) :
     range \in UNION {[1 .. n -> Ports \cup {-1}] : n \in 0 .. 3}}
=============================================================================
