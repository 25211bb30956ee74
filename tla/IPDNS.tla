-------------------------------- MODULE IPDNS --------------------------------
(***************************************************************************)
(* The server's own address by its domain (config/ipdns/dns.go): a cache   *)
(* of one lookup, refreshed by whoever asks after it has grown old.  The   *)
(* event loop and the relay allocations of the TURN library call Get       *)
(* concurrently; a mutex is held across the lookup.                        *)
(***************************************************************************)
EXTENDS Integers, Sequences

CONSTANTS
  Callers,     \* the goroutines that call Get
  Responses,   \* bound: what the resolver may return: an error or a sequence of
               \* addresses, each with a family and a host
  Failure,     \* the response that is an error
  Minute,      \* how long an address is kept
  Second,      \* how long an error is kept
  MaxTime      \* bound: the clock stops here

Families == {"v4", "v6"}

VARIABLES
  clock,     \* the time
  records,   \* what the resolver returns now
  changed,   \* when it began to
  holder,    \* who has the mutex
  pc,        \* the stage of each call of Get
  cache,     \* DNS.v4, DNS.v6 and whether DNS.err is set
  fetched,   \* when the cache was filled
  refetch    \* DNS.refetch

vars == <<clock, records, changed, holder, pc, cache, fetched, refetch>>

Nil == "nil"
Nobody == "nobody"
Never == -1 - Minute   \* before every time

Cached(v4, v6, failed) == [v4 |-> v4, v6 |-> v6, failed |-> failed]

Init ==
  /\ clock = 0 /\ changed = 0
  /\ records \in Responses
  /\ holder = Nobody
  /\ pc = [c \in Callers |-> "idle"]
  /\ cache = Cached(Nil, Nil, FALSE)
  /\ fetched = Never /\ refetch = Never

-----------------------------------------------------------------------------
\* The host of the first address of the family, if there is any
FirstOf(ips, family) ==
  LET of == {i \in DOMAIN ips : ips[i].family = family}
  IN IF of = {} THEN Nil ELSE ips[CHOOSE i \in of : \A j \in of : i <= j].host

\* Mutant of Lookup: a record without addresses counts as an answer.
LookupEmpty(response) ==
  IF response = Failure THEN Cached(Nil, Nil, TRUE)
  ELSE Cached(FirstOf(response, "v4"), FirstOf(response, "v6"), FALSE)

\* lookup: what Get is to cache
Lookup(response) ==
  IF response = Failure \/ response = <<>> THEN Cached(Nil, Nil, TRUE)
  ELSE Cached(FirstOf(response, "v4"), FirstOf(response, "v6"), FALSE)

\* Mutant of Period: errors are kept as long as addresses.
PeriodOfAll(failed) == Minute

Period(failed) == IF failed THEN Second ELSE Minute

At(c, from, to) == pc[c] = from /\ pc' = [pc EXCEPT ![c] = to]

Call(c) ==
  /\ At(c, "idle", "waiting")
  /\ UNCHANGED <<clock, records, changed, holder, cache, fetched, refetch>>

Lock(c) ==
  /\ At(c, "waiting", "checking")
  /\ holder = Nobody
  /\ holder' = c
  /\ UNCHANGED <<clock, records, changed, cache, fetched, refetch>>

UseCache(c) ==
  /\ At(c, "checking", "answering")
  /\ ~(refetch < clock)
  /\ UNCHANGED <<clock, records, changed, holder, cache, fetched, refetch>>

Refetch(c) ==
  /\ At(c, "checking", "looking")
  /\ refetch < clock
  /\ UNCHANGED <<clock, records, changed, holder, cache, fetched, refetch>>

\* The resolver has answered, at a time of its choosing; address and error go
\* into the cache together.
Resolved(c) ==
  /\ At(c, "looking", "answering")
  /\ cache' = Lookup(records)
  /\ fetched' = clock
  /\ refetch' = clock + Period(cache'.failed)
  /\ UNCHANGED <<clock, records, changed, holder>>

\* The deferred Unlock
Return(c) ==
  /\ At(c, "answering", "idle")
  /\ holder' = Nobody
  /\ UNCHANGED <<clock, records, changed, cache, fetched, refetch>>

\* The record changes, or the name server becomes reachable or unreachable.
Change(response) ==
  /\ response # records
  /\ records' = response
  /\ changed' = clock
  /\ UNCHANGED <<clock, holder, pc, cache, fetched, refetch>>

Tick ==
  /\ clock < MaxTime
  /\ clock' = clock + 1
  /\ UNCHANGED <<records, changed, holder, pc, cache, fetched, refetch>>

Progress(c) == UseCache(c) \/ Refetch(c) \/ Resolved(c) \/ Return(c)

Next ==
  \/ \E c \in Callers : Call(c) \/ Lock(c) \/ Progress(c)
  \/ \E response \in Responses : Change(response)
  \/ Tick

Spec == Init /\ [][Next]_vars

-----------------------------------------------------------------------------
\* A call that does not look up returns what the resolver says, unless that
\* changed less than a minute ago; an error is not kept longer than a second
\* after the name server is back.  And however many wait for a lookup that
\* fails, the next one comes later ("don't spam the dns server", dns.go:44).
CacheInTime ==
  [][/\ fetched' # fetched => fetched' - fetched > Second
     /\ \A c \in Callers :
          pc[c] = "checking" /\ pc'[c] = "answering" =>
            \/ cache = Lookup(records)
            \/ clock - changed <= Minute /\ ~cache.failed
            \/ clock - changed <= Second]_vars
=============================================================================
