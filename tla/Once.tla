-------------------------------- MODULE Once --------------------------------
(***************************************************************************)
(* The once of ws/once.go: of all the calls of Do at most one runs its     *)
(* function, and, unlike with sync.Once, no call waits for that function.  *)
(* A thread is a goroutine of one connection; it may call Do repeatedly,   *)
(* as the reader does (ws/client.go:102 and 112).                          *)
(***************************************************************************)
EXTENDS Naturals

CONSTANT Threads

VARIABLES
  pc,    \* where each thread is in Do and mayExecute
  done,  \* once.done
  m,     \* who holds once.m: a set of at most one thread
  ran    \* how many calls have run their function

vars == <<pc, done, m, ran>>

TypeOK ==
  /\ pc \in [Threads -> {"out", "load", "lock", "check", "unlock", "unlockFalse", "run"}]
  /\ done \in {0, 1}
  /\ m \subseteq Threads
  /\ ran \in Nat

Init ==
  /\ pc = [t \in Threads |-> "out"]
  /\ done = 0
  /\ m = {}
  /\ ran = 0

Goto(t, label) == pc' = [pc EXCEPT ![t] = label]

Call(t) == pc[t] = "out" /\ Goto(t, "load") /\ UNCHANGED <<done, m, ran>>

\* The atomic load before the lock
Load(t) ==
  /\ pc[t] = "load"
  /\ Goto(t, IF done = 1 THEN "out" ELSE "lock")
  /\ UNCHANGED <<done, m, ran>>

Lock(t) ==
  /\ pc[t] = "lock" /\ m = {}
  /\ m' = {t}
  /\ Goto(t, "check")
  /\ UNCHANGED <<done, ran>>

\* Mutant of Check: the load before the lock is trusted.
CheckNothing(t) ==
  /\ pc[t] = "check"
  /\ done' = 1
  /\ Goto(t, "unlock")
  /\ UNCHANGED <<m, ran>>

Check(t) ==
  /\ pc[t] = "check"
  /\ \/ done = 0 /\ done' = 1 /\ Goto(t, "unlock")
     \/ done = 1 /\ UNCHANGED done /\ Goto(t, "unlockFalse")
  /\ UNCHANGED <<m, ran>>

\* Mutant of Unlock: the lock is held while f runs, as in sync.Once.
UnlockLate(t) ==
  /\ pc[t] \in {"unlock", "unlockFalse"}
  /\ m' = IF pc[t] = "unlock" THEN m ELSE {}
  /\ Goto(t, IF pc[t] = "unlock" THEN "run" ELSE "out")
  /\ UNCHANGED <<done, ran>>

Unlock(t) ==
  /\ pc[t] \in {"unlock", "unlockFalse"}
  /\ m' = {}
  /\ Goto(t, IF pc[t] = "unlock" THEN "run" ELSE "out")
  /\ UNCHANGED <<done, ran>>

\* f(): it may block for as long as it likes.
Run(t) ==
  /\ pc[t] = "run"
  /\ ran' = ran + 1
  /\ Goto(t, "out")
  /\ UNCHANGED <<done, m>>

Step(t) == Load(t) \/ Lock(t) \/ Check(t) \/ Unlock(t)

Next == \E t \in Threads : Call(t) \/ Step(t) \/ Run(t)

Spec == Init /\ [][Next]_vars

-----------------------------------------------------------------------------
Chosen == {t \in Threads : pc[t] \in {"unlock", "run"}}

\* However the calls interleave, the load outside the lock included, one runs
\* its function at most.
RunsOnce == ran + (IF Chosen = {} THEN 0 ELSE 1) <= 1 /\ \A t, u \in Chosen : t = u

\* A call finds the work taken only if somebody does it or did: done is never
\* set with nobody left to run the function.
DoneIsDone == done = 1 <=> ran = 1 \/ Chosen # {}

\* A call waits for the few steps that another one has the lock for, never for
\* its function: that may block for as long as it likes (once.go:12).
NobodyWaitsForF == \A t \in m : pc[t] \in {"check", "unlock", "unlockFalse"}
=============================================================================
