---------------------------- MODULE ClientProofs ----------------------------
(***************************************************************************)
(* The safety properties of the clients, for any number of connections and *)
(* of goroutines that use a connection's once: first the once, then the    *)
(* goroutines and the channels between them and the loop.                  *)
(***************************************************************************)
EXTENDS Client, TLAPS

-----------------------------------------------------------------------------
(* The once. *)

InLock(t) == pc[t] \in {"check", "unlock", "unlockFalse"}

\* The lock is held by whoever is between Lock and Unlock, and done says whether
\* the work was taken: by one thread that has run the function or is about to.
OnceInv ==
  /\ Do!TypeOK
  /\ \A t \in Threads : t \in m <=> InLock(t)
  /\ \A t, u \in m : t = u
  /\ done = 0 => ran = 0 /\ \A t \in Threads : pc[t] \notin {"unlock", "unlockFalse", "run"}
  /\ done = 1 => \/ ran = 1 /\ Do!Chosen = {}
                 \/ ran = 0 /\ \E t \in Threads : Do!Chosen = {t}

\* The invariant implies the checked properties.
LEMMA OnceInvProperties == OnceInv => Do!RunsOnce /\ Do!DoneIsDone
  <1> SUFFICES ASSUME OnceInv PROVE Do!RunsOnce /\ Do!DoneIsDone
    OBVIOUS
  <1>1. CASE done = 0
    <2>1. Do!Chosen = {} /\ ran = 0
      BY <1>1 DEF OnceInv, Do!Chosen
    <2> QED
      BY <1>1, <2>1 DEF Do!RunsOnce, Do!DoneIsDone
  <1>2. CASE done = 1
    BY <1>2 DEF OnceInv, Do!RunsOnce, Do!DoneIsDone
  <1> QED
    BY <1>1, <1>2 DEF OnceInv, Do!TypeOK

LEMMA InitOnceInv == Do!Init => OnceInv
  BY DEF Do!Init, OnceInv, Do!TypeOK, InLock, Do!Chosen

\* A thread that moves between places outside the lock and the choice.
LEMMA OutsideOnceInv ==
  ASSUME OnceInv, NEW t \in Threads, NEW label \in {"out", "load", "lock"},
         pc[t] \in {"out", "load"}, Do!Goto(t, label), UNCHANGED <<done, m, ran>>
  PROVE  OnceInv'
  <1>1. Do!TypeOK'
    BY DEF OnceInv, Do!TypeOK, Do!Goto
  <1>2. /\ \A u \in Threads : u # t => pc'[u] = pc[u]
        /\ pc'[t] = label
    BY DEF OnceInv, Do!TypeOK, Do!Goto
  <1>3. Do!Chosen' = Do!Chosen
    BY <1>2 DEF Do!Chosen
  <1> QED
    BY <1>1, <1>2, <1>3 DEF OnceInv, InLock

LEMMA LockOnceInv ==
  ASSUME OnceInv, NEW t \in Threads, Do!Lock(t)
  PROVE  OnceInv'
  <1>1. Do!TypeOK'
    BY DEF OnceInv, Do!TypeOK, Do!Goto, Do!Lock
  <1>2. /\ \A u \in Threads : u # t => pc'[u] = pc[u]
        /\ pc'[t] = "check" /\ pc[t] = "lock"
    BY DEF OnceInv, Do!TypeOK, Do!Goto, Do!Lock
  <1>3. Do!Chosen' = Do!Chosen
    BY <1>2 DEF Do!Chosen
  <1> QED
    BY <1>1, <1>2, <1>3 DEF OnceInv, InLock, Do!Lock

\* Only the thread in the lock changes done, so nobody else is chosen meanwhile.
LEMMA CheckOnceInv ==
  ASSUME OnceInv, NEW t \in Threads, Do!Check(t)
  PROVE  OnceInv'
  <1>1. Do!TypeOK'
    BY DEF OnceInv, Do!TypeOK, Do!Goto, Do!Check
  <1>2. /\ \A u \in Threads : u # t => pc'[u] = pc[u]
        /\ pc'[t] = (IF done = 0 THEN "unlock" ELSE "unlockFalse") /\ pc[t] = "check"
        /\ done' = 1 /\ m' = m /\ ran' = ran
    BY DEF OnceInv, Do!TypeOK, Do!Goto, Do!Check
  <1>3. \A u \in Threads : u \in m' <=> InLock(u)'
    BY <1>2 DEF OnceInv, InLock
  <1>4. CASE done = 0
    <2>1. Do!Chosen' = {t} /\ ran' = 0
      BY <1>2, <1>4 DEF OnceInv, Do!Chosen
    <2> QED
      BY <1>1, <1>2, <1>3, <2>1 DEF OnceInv
  <1>5. CASE done = 1
    <2>1. Do!Chosen' = Do!Chosen
      BY <1>2, <1>5 DEF Do!Chosen
    <2> QED
      BY <1>1, <1>2, <1>3, <1>5, <2>1 DEF OnceInv
  <1> QED
    BY <1>4, <1>5 DEF OnceInv, Do!TypeOK

LEMMA UnlockOnceInv ==
  ASSUME OnceInv, NEW t \in Threads, Do!Unlock(t)
  PROVE  OnceInv'
  <1>1. Do!TypeOK'
    BY DEF OnceInv, Do!TypeOK, Do!Goto, Do!Unlock
  <1>2. /\ \A u \in Threads : u # t => pc'[u] = pc[u]
        /\ pc'[t] = (IF pc[t] = "unlock" THEN "run" ELSE "out")
        /\ pc[t] \in {"unlock", "unlockFalse"}
        /\ done' = done /\ m' = {} /\ ran' = ran
    BY DEF OnceInv, Do!TypeOK, Do!Goto, Do!Unlock
  <1>3. Do!Chosen' = Do!Chosen
    BY <1>2 DEF Do!Chosen
  <1>4. done = 1
    BY <1>2 DEF OnceInv, Do!TypeOK
  <1>5. \A u \in Threads : ~InLock(u)'
    BY <1>2 DEF OnceInv, InLock
  <1> QED
    BY <1>1, <1>2, <1>3, <1>4, <1>5 DEF OnceInv

LEMMA RunOnceInv ==
  ASSUME OnceInv, NEW t \in Threads, Do!Run(t)
  PROVE  OnceInv'
  <1>1. Do!TypeOK'
    BY DEF OnceInv, Do!TypeOK, Do!Goto, Do!Run
  <1>2. /\ \A u \in Threads : u # t => pc'[u] = pc[u]
        /\ pc'[t] = "out" /\ pc[t] = "run"
        /\ done' = done /\ m' = m /\ ran' = ran + 1
    BY DEF OnceInv, Do!TypeOK, Do!Goto, Do!Run
  <1>3. t \in Do!Chosen /\ done = 1
    BY <1>2 DEF Do!Chosen, OnceInv, Do!TypeOK
  <1>4. ran = 0 /\ Do!Chosen = {t}
    BY <1>3 DEF OnceInv
  <1>5. Do!Chosen' = {} /\ ran' = 1
    BY <1>2, <1>4 DEF Do!Chosen
  <1> QED
    BY <1>1, <1>2, <1>3, <1>5 DEF OnceInv, InLock

\* Every atomic step of Do keeps the invariant, for any number of goroutines.
LEMMA NextOnceInv == OnceInv /\ [Do!Next]_Do!vars => OnceInv'
  <1> SUFFICES ASSUME OnceInv, [Do!Next]_Do!vars PROVE OnceInv'
    OBVIOUS
  <1>1. ASSUME NEW t \in Threads, Do!Call(t) PROVE OnceInv'
    BY <1>1, OutsideOnceInv DEF Do!Call
  <1>2. ASSUME NEW t \in Threads, Do!Load(t) PROVE OnceInv'
    BY <1>2, OutsideOnceInv DEF Do!Load
  <1>3. CASE UNCHANGED Do!vars
    BY <1>3 DEF Do!vars, OnceInv, Do!TypeOK, InLock, Do!Chosen
  <1> QED
    BY <1>1, <1>2, <1>3, LockOnceInv, CheckOnceInv, UnlockOnceInv, RunOnceInv
    DEF Do!Next, Do!Step

\* Whatever the connections do, the once behaves as module Once says: a step of
\* the one part leaves the other alone.
LEMMA OnceImplemented == ClientSpec => Do!Spec
  <1>1. ClientInit => Do!Init
    BY DEF ClientInit
  <1>2. [ClientNext]_<<vars, close>> => [Do!Next]_Do!vars
    BY DEF ClientNext, close, Do!vars
  <1> QED
    BY <1>1, <1>2, PTL DEF ClientSpec, Do!Spec

THEOREM OnceInvariance == Do!Spec => []OnceInv
  BY InitOnceInv, NextOnceInv, PTL DEF Do!Spec

\* The variables of once keep their types.
THEOREM OnceTypes == ClientSpec => []Do!TypeOK
  <1>1. OnceInv => Do!TypeOK
    BY DEF OnceInv
  <1> QED
    BY <1>1, OnceImplemented, OnceInvariance, PTL

\* Of the goroutines that close a connection at most one runs the function.
THEOREM ClosedOnce == ClientSpec => []RunsOnce
  <1>1. OnceInv => RunsOnce
    BY OnceInvProperties DEF RunsOnce
  <1> QED
    BY <1>1, OnceImplemented, OnceInvariance, PTL

\* done is set only when somebody runs the function, or has run it.
THEOREM DoneIsRight == ClientSpec => []Do!DoneIsDone
  BY OnceInvProperties, OnceImplemented, OnceInvariance, PTL

\* The mutex is never held over a call of f, so nobody waits for its end.
THEOREM ClosingWaitsForNobody == ClientSpec => []NobodyWaitsForF
  <1>1. OnceInv => NobodyWaitsForF
    BY DEF OnceInv, Do!TypeOK, InLock, NobodyWaitsForF, Do!NobodyWaitsForF
  <1> QED
    BY <1>1, OnceImplemented, OnceInvariance, PTL

-----------------------------------------------------------------------------
(* The connections. *)

Messages == [to : Clients, kind : {"msg", "close"}]

ConnectionTypes ==
  /\ upgrade \in [Clients -> {"new", "connecting", "accepted", "done"}]
  /\ reader \in [Clients -> {"off", "reading", "sending", "closing", "done"}]
  /\ writer \in [Clients -> {"off", "waiting", "writing", "closing", "leaving", "done"}]
  /\ reporter \in [Clients -> {"off", "sending", "done"}]
  /\ once \in [Clients -> BOOLEAN]
  /\ socket \in [Clients -> {"open", "closed"}]
  /\ channel \in [Clients -> {<<>>, <<"msg">>, <<"close">>}]
  /\ registered \subseteq Clients
  /\ outbox \in [Stages -> SUBSET Messages]

\* Before the loop has accepted a connection nothing happens to it.
Fresh(c) ==
  /\ c \notin registered
  /\ ~once[c]
  /\ channel[c] = <<>>
  /\ reporter[c] = "off"

Unaccepted == \A c \in Clients : upgrade[c] \in {"new", "connecting"} => Fresh(c)

\* The goroutines of a connection are started together.
Started ==
  \A c \in Clients : /\ writer[c] = "off" <=> upgrade[c] # "done"
                     /\ reader[c] = "off" <=> upgrade[c] # "done"

\* What is pending is for accepted connections.
PendingAccepted ==
  \A i \in Stages : \A w \in outbox[i] : upgrade[w.to] \in {"accepted", "done"}

\* Nothing follows a CloseWriter that a writer has or that is in the channel.
NothingFollows ==
  \A c \in Clients :
    channel[c] = <<"close">> \/ writer[c] \in {"leaving", "done"} =>
      \A i \in Stages : \A w \in outbox[i] : w.to # c

\* In the outbox it comes once and last.
OrderedOutbox ==
  \A c \in Clients, i, j \in Stages :
    [to |-> c, kind |-> "close"] \in outbox[i] =>
      /\ [to |-> c, kind |-> "close"] \in outbox[j] => j = i
      /\ [to |-> c, kind |-> "msg"] \in outbox[j] => j < i

\* The loop sends CloseWriter to those only that it does not know any more.
ClosedUnknown ==
  \A c \in registered :
    /\ writer[c] \notin {"leaving", "done"}
    /\ channel[c] # <<"close">>
    /\ \A i \in Stages : [to |-> c, kind |-> "close"] \notin outbox[i]

ConnectionInv ==
  /\ ConnectionTypes
  /\ Unaccepted
  /\ Started
  /\ PendingAccepted
  /\ NothingFollows
  /\ OrderedOutbox
  /\ ClosedUnknown
  /\ EndIsReported

LEMMA InitConnection == Init => ConnectionInv
  <1> SUFFICES ASSUME Init PROVE ConnectionInv
    OBVIOUS
  <1>1. \A i \in Stages : outbox[i] = {}
    BY DEF Init, Stages
  <1>2. ConnectionTypes
    BY DEF Init, ConnectionTypes, Stages
  <1> QED
    BY <1>1, <1>2 DEF Init, ConnectionInv, Unaccepted, Fresh, Started, PendingAccepted,
                 NothingFollows, OrderedOutbox, ClosedUnknown, EndIsReported

\* The steps of the goroutines leave the loop's state alone.
LEMMA UpgradeKeeps == ASSUME ConnectionInv, NEW c \in Clients, Upgrade(c) PROVE ConnectionInv'
  <1>1. ConnectionTypes'
    BY DEF ConnectionInv, ConnectionTypes, Upgrade
  <1>2. (Unaccepted /\ Started)'
    BY DEF ConnectionInv, ConnectionTypes, Unaccepted, Fresh, Started, Upgrade
  <1>3. (PendingAccepted /\ OrderedOutbox)'
    BY DEF ConnectionInv, ConnectionTypes, PendingAccepted, OrderedOutbox, Messages, Upgrade
  <1>4. NothingFollows'
    BY DEF ConnectionInv, ConnectionTypes, Started, NothingFollows, PendingAccepted, Upgrade
  <1>5. (ClosedUnknown /\ EndIsReported)'
    BY DEF ConnectionInv, ConnectionTypes, Started, ClosedUnknown, EndIsReported, Upgrade
  <1> QED
    BY <1>1, <1>2, <1>3, <1>4, <1>5 DEF ConnectionInv

LEMMA StartKeeps == ASSUME ConnectionInv, NEW c \in Clients, Start(c) PROVE ConnectionInv'
  <1>1. ConnectionTypes'
    BY DEF ConnectionInv, ConnectionTypes, Start
  <1>2. (Unaccepted /\ Started)'
    BY DEF ConnectionInv, ConnectionTypes, Unaccepted, Fresh, Started, Start
  <1>3. (PendingAccepted /\ OrderedOutbox)'
    BY DEF ConnectionInv, ConnectionTypes, PendingAccepted, OrderedOutbox, Messages, Start
  <1>4. NothingFollows'
    BY DEF ConnectionInv, ConnectionTypes, Started, NothingFollows, PendingAccepted, Start
  <1>5. (ClosedUnknown /\ EndIsReported)'
    BY DEF ConnectionInv, ConnectionTypes, Started, ClosedUnknown, EndIsReported, Start
  <1> QED
    BY <1>1, <1>2, <1>3, <1>4, <1>5 DEF ConnectionInv

LEMMA ReadKeeps == ASSUME ConnectionInv, NEW c \in Clients, Read(c) PROVE ConnectionInv'
  <1>1. ConnectionTypes'
    BY DEF ConnectionInv, ConnectionTypes, Read
  <1>2. (Unaccepted /\ Started)'
    BY DEF ConnectionInv, ConnectionTypes, Unaccepted, Fresh, Started, Read
  <1>3. (PendingAccepted /\ OrderedOutbox)'
    BY DEF ConnectionInv, ConnectionTypes, PendingAccepted, OrderedOutbox, Messages, Read
  <1>4. NothingFollows'
    BY DEF ConnectionInv, ConnectionTypes, Started, NothingFollows, PendingAccepted, Read
  <1>5. (ClosedUnknown /\ EndIsReported)'
    BY DEF ConnectionInv, ConnectionTypes, Started, ClosedUnknown, EndIsReported, Read
  <1> QED
    BY <1>1, <1>2, <1>3, <1>4, <1>5 DEF ConnectionInv

LEMMA ReadErrorKeeps == ASSUME ConnectionInv, NEW c \in Clients, ReadError(c) PROVE ConnectionInv'
  <1>1. ConnectionTypes'
    BY DEF ConnectionInv, ConnectionTypes, ReadError, ReportFirst
  <1>2. (Unaccepted /\ Started)'
    BY DEF ConnectionInv, ConnectionTypes, Unaccepted, Fresh, Started, ReadError, ReportFirst
  <1>3. (PendingAccepted /\ OrderedOutbox)'
    BY DEF ConnectionInv, ConnectionTypes, PendingAccepted, OrderedOutbox, Messages, ReadError
  <1>4. NothingFollows'
    BY DEF ConnectionInv, ConnectionTypes, Started, NothingFollows, PendingAccepted, ReadError
  <1>5. (ClosedUnknown /\ EndIsReported)'
    BY DEF ConnectionInv, ConnectionTypes, Started, ClosedUnknown, EndIsReported, ReadError, ReportFirst
  <1> QED
    BY <1>1, <1>2, <1>3, <1>4, <1>5 DEF ConnectionInv

LEMMA ReaderClosesKeeps == ASSUME ConnectionInv, NEW c \in Clients, ReaderCloses(c) PROVE ConnectionInv'
  <1>1. ConnectionTypes'
    BY DEF ConnectionInv, ConnectionTypes, ReaderCloses
  <1>2. (Unaccepted /\ Started)'
    BY DEF ConnectionInv, ConnectionTypes, Unaccepted, Fresh, Started, ReaderCloses
  <1>3. (PendingAccepted /\ OrderedOutbox)'
    BY DEF ConnectionInv, ConnectionTypes, PendingAccepted, OrderedOutbox, Messages, ReaderCloses
  <1>4. NothingFollows'
    BY DEF ConnectionInv, ConnectionTypes, Started, NothingFollows, PendingAccepted, ReaderCloses
  <1>5. (ClosedUnknown /\ EndIsReported)'
    BY DEF ConnectionInv, ConnectionTypes, Started, ClosedUnknown, EndIsReported, ReaderCloses
  <1> QED
    BY <1>1, <1>2, <1>3, <1>4, <1>5 DEF ConnectionInv

LEMMA TakeMessageKeeps == ASSUME ConnectionInv, NEW c \in Clients, TakeMessage(c) PROVE ConnectionInv'
  <1>1. ConnectionTypes'
    BY DEF ConnectionInv, ConnectionTypes, TakeMessage
  <1>2. (Unaccepted /\ Started)'
    BY DEF ConnectionInv, ConnectionTypes, Unaccepted, Fresh, Started, TakeMessage
  <1>3. (PendingAccepted /\ OrderedOutbox)'
    BY DEF ConnectionInv, ConnectionTypes, PendingAccepted, OrderedOutbox, Messages, TakeMessage
  <1>4. NothingFollows'
    BY DEF ConnectionInv, ConnectionTypes, Started, NothingFollows, PendingAccepted, TakeMessage
  <1>5. (ClosedUnknown /\ EndIsReported)'
    BY DEF ConnectionInv, ConnectionTypes, Started, ClosedUnknown, EndIsReported, TakeMessage
  <1> QED
    BY <1>1, <1>2, <1>3, <1>4, <1>5 DEF ConnectionInv

LEMMA WriteDoneKeeps == ASSUME ConnectionInv, NEW c \in Clients, WriteDone(c) PROVE ConnectionInv'
  <1>1. ConnectionTypes'
    BY DEF ConnectionInv, ConnectionTypes, WriteDone
  <1>2. (Unaccepted /\ Started)'
    BY DEF ConnectionInv, ConnectionTypes, Unaccepted, Fresh, Started, WriteDone
  <1>3. (PendingAccepted /\ OrderedOutbox)'
    BY DEF ConnectionInv, ConnectionTypes, PendingAccepted, OrderedOutbox, Messages, WriteDone
  <1>4. NothingFollows'
    BY DEF ConnectionInv, ConnectionTypes, Started, NothingFollows, PendingAccepted, WriteDone
  <1>5. (ClosedUnknown /\ EndIsReported)'
    BY DEF ConnectionInv, ConnectionTypes, Started, ClosedUnknown, EndIsReported, WriteDone
  <1> QED
    BY <1>1, <1>2, <1>3, <1>4, <1>5 DEF ConnectionInv

LEMMA WriteErrorKeeps == ASSUME ConnectionInv, NEW c \in Clients, WriteError(c) PROVE ConnectionInv'
  <1>1. ConnectionTypes'
    BY DEF ConnectionInv, ConnectionTypes, WriteError, ReportFirst
  <1>2. (Unaccepted /\ Started)'
    BY DEF ConnectionInv, ConnectionTypes, Unaccepted, Fresh, Started, WriteError, ReportFirst
  <1>3. (PendingAccepted /\ OrderedOutbox)'
    BY DEF ConnectionInv, ConnectionTypes, PendingAccepted, OrderedOutbox, Messages, WriteError
  <1>4. NothingFollows'
    BY DEF ConnectionInv, ConnectionTypes, Started, NothingFollows, PendingAccepted, WriteError
  <1>5. (ClosedUnknown /\ EndIsReported)'
    BY DEF ConnectionInv, ConnectionTypes, Started, ClosedUnknown, EndIsReported, WriteError, ReportFirst
  <1> QED
    BY <1>1, <1>2, <1>3, <1>4, <1>5 DEF ConnectionInv

LEMMA WriterClosesKeeps == ASSUME ConnectionInv, NEW c \in Clients, WriterCloses(c) PROVE ConnectionInv'
  <1>1. ConnectionTypes'
    BY DEF ConnectionInv, ConnectionTypes, WriterCloses
  <1>2. (Unaccepted /\ Started)'
    BY DEF ConnectionInv, ConnectionTypes, Unaccepted, Fresh, Started, WriterCloses
  <1>3. (PendingAccepted /\ OrderedOutbox)'
    BY DEF ConnectionInv, ConnectionTypes, PendingAccepted, OrderedOutbox, Messages, WriterCloses
  <1>4. NothingFollows'
    BY DEF ConnectionInv, ConnectionTypes, Started, NothingFollows, PendingAccepted, WriterCloses
  <1>5. (ClosedUnknown /\ EndIsReported)'
    BY DEF ConnectionInv, ConnectionTypes, Started, ClosedUnknown, EndIsReported, WriterCloses
  <1> QED
    BY <1>1, <1>2, <1>3, <1>4, <1>5 DEF ConnectionInv

LEMMA TakeCloseKeeps == ASSUME ConnectionInv, NEW c \in Clients, TakeClose(c) PROVE ConnectionInv'
  <1>1. ConnectionTypes'
    BY DEF ConnectionInv, ConnectionTypes, TakeClose
  <1>2. (Unaccepted /\ Started)'
    BY DEF ConnectionInv, ConnectionTypes, Unaccepted, Fresh, Started, TakeClose
  <1>3. (PendingAccepted /\ OrderedOutbox)'
    BY DEF ConnectionInv, ConnectionTypes, PendingAccepted, OrderedOutbox, Messages, TakeClose
  <1>4. NothingFollows'
    BY DEF ConnectionInv, ConnectionTypes, Started, NothingFollows, PendingAccepted, TakeClose
  <1>5. (ClosedUnknown /\ EndIsReported)'
    BY DEF ConnectionInv, ConnectionTypes, Started, ClosedUnknown, EndIsReported, TakeClose
  <1> QED
    BY <1>1, <1>2, <1>3, <1>4, <1>5 DEF ConnectionInv

LEMMA WriterLeavesKeeps == ASSUME ConnectionInv, NEW c \in Clients, WriterLeaves(c) PROVE ConnectionInv'
  <1>1. ConnectionTypes'
    BY DEF ConnectionInv, ConnectionTypes, WriterLeaves
  <1>2. (Unaccepted /\ Started)'
    BY DEF ConnectionInv, ConnectionTypes, Unaccepted, Fresh, Started, WriterLeaves
  <1>3. (PendingAccepted /\ OrderedOutbox)'
    BY DEF ConnectionInv, ConnectionTypes, PendingAccepted, OrderedOutbox, Messages, WriterLeaves
  <1>4. NothingFollows'
    BY DEF ConnectionInv, ConnectionTypes, Started, NothingFollows, PendingAccepted, WriterLeaves
  <1>5. (ClosedUnknown /\ EndIsReported)'
    BY DEF ConnectionInv, ConnectionTypes, Started, ClosedUnknown, EndIsReported, WriterLeaves
  <1> QED
    BY <1>1, <1>2, <1>3, <1>4, <1>5 DEF ConnectionInv

\* What Drop writes: who is closed, besides c, is written to before that only, and
\* everybody else is sent messages only.
DropWrites(c, first, told, shown, closed) ==
  /\ first \subseteq registered
  /\ told \subseteq registered \ {c}
  /\ shown \subseteq registered \ {c}
  /\ closed \subseteq registered \ {c}
  /\ shown = {} \/ closed = {}
  /\ registered' = registered \ ({c} \cup closed)
  /\ outbox' = <<To(first, "msg"), To({c}, "close"), To(told, "msg"),
                 To(shown, "msg") \cup To(closed, "close")>>

LEMMA DropShape ==
  ASSUME NEW c \in registered, NEW joined \in BOOLEAN, Drop(c, joined)
  PROVE  \E first, told, shown, closed \in SUBSET registered :
            DropWrites(c, first, told, shown, closed)
  <1>1. PICK others \in SUBSET (registered \ {c}), closes \in BOOLEAN :
          \E ends \in SUBSET others :
            /\ registered' = registered \ ({c} \cup Off(others, closes))
            /\ outbox' = <<IF joined THEN To(others \cup {c}, "msg") ELSE {}, To({c}, "close"),
                           To(ends, "msg"), To(others, IF closes THEN "close" ELSE "msg")>>
    BY DEF Drop
  <1>2. PICK ends \in SUBSET others :
            /\ registered' = registered \ ({c} \cup Off(others, closes))
            /\ outbox' = <<IF joined THEN To(others \cup {c}, "msg") ELSE {}, To({c}, "close"),
                           To(ends, "msg"), To(others, IF closes THEN "close" ELSE "msg")>>
    BY <1>1
  <1> DEFINE first == IF joined THEN others \cup {c} ELSE {}
             shown == IF closes THEN {} ELSE others
             closed == IF closes THEN others ELSE {}
  <1>3. /\ To(first, "msg") = IF joined THEN To(others \cup {c}, "msg") ELSE {}
        /\ To(shown, "msg") \cup To(closed, "close") = To(others, IF closes THEN "close" ELSE "msg")
    BY DEF To
  <1>4. first \subseteq registered /\ ends \subseteq registered \ {c}
        /\ shown \subseteq registered \ {c} /\ closed \subseteq registered \ {c}
        /\ (shown = {} \/ closed = {})
    OBVIOUS
  <1>5. Off(others, closes) = closed
    BY DEF Off
  <1> HIDE DEF first, shown, closed
  <1>6. DropWrites(c, first, ends, shown, closed)
    BY <1>2, <1>3, <1>4, <1>5 DEF DropWrites
  <1> QED
    BY <1>4, <1>6

\* The loop cuts c off, which it knows, and perhaps the rest of its room.
LEMMA DropKeeps ==
  ASSUME ConnectionInv, Idle, NEW c \in registered, NEW joined \in BOOLEAN, Drop(c, joined),
         UNCHANGED <<upgrade, writer, once, socket, channel>>,
         reader' \in [Clients -> {"off", "reading", "sending", "closing", "done"}],
         reporter' \in [Clients -> {"off", "sending", "done"}],
         \A b \in Clients : b # c => reporter'[b] = reporter[b],
         \A b \in Clients : reader'[b] = "off" <=> reader[b] = "off"
  PROVE  ConnectionInv'
  <1>1. PICK first, told, shown, closed \in SUBSET registered :
               DropWrites(c, first, told, shown, closed)
    BY DropShape
  <1>2. c \in Clients /\ registered \subseteq Clients
    BY DEF ConnectionInv, ConnectionTypes
  <1>3. /\ outbox' \in [Stages -> SUBSET Messages]
        /\ \A w : w \in outbox'[1] <=> \E b \in first : w = [to |-> b, kind |-> "msg"]
        /\ \A w : w \in outbox'[2] <=> w = [to |-> c, kind |-> "close"]
        /\ \A w : w \in outbox'[3] <=> \E b \in told : w = [to |-> b, kind |-> "msg"]
        /\ \A w : w \in outbox'[4] <=> \/ \E b \in shown : w = [to |-> b, kind |-> "msg"]
                                       \/ \E b \in closed : w = [to |-> b, kind |-> "close"]
    BY <1>1, <1>2 DEF DropWrites, To, Messages, Stages
  <1>4. Stages = {1, 2, 3, 4}
    BY DEF Stages
  <1>5. ConnectionTypes'
    BY <1>1, <1>3 DEF ConnectionInv, ConnectionTypes, DropWrites
  <1>6. \A b \in registered : upgrade[b] \in {"accepted", "done"}
    BY <1>2 DEF ConnectionInv, ConnectionTypes, Unaccepted, Fresh
  <1>7. (Unaccepted /\ Started)'
    BY <1>1, <1>2, <1>6 DEF ConnectionInv, ConnectionTypes, Unaccepted, Fresh, Started, DropWrites
  <1>8. PendingAccepted'
    BY <1>3, <1>4, <1>6 DEF PendingAccepted
  <1>9. \A b \in Clients :
          /\ [to |-> b, kind |-> "close"] \notin outbox'[1]
          /\ [to |-> b, kind |-> "close"] \in outbox'[2] <=> b = c
          /\ [to |-> b, kind |-> "close"] \notin outbox'[3]
          /\ [to |-> b, kind |-> "close"] \in outbox'[4] <=> b \in closed
          /\ [to |-> b, kind |-> "msg"] \notin outbox'[2]
          /\ [to |-> b, kind |-> "msg"] \in outbox'[3] => b # c
          /\ [to |-> b, kind |-> "msg"] \in outbox'[4] => b # c /\ b \notin closed
    <2> SUFFICES ASSUME NEW b \in Clients
                 PROVE  /\ [to |-> b, kind |-> "close"] \notin outbox'[1]
                        /\ [to |-> b, kind |-> "close"] \in outbox'[2] <=> b = c
                        /\ [to |-> b, kind |-> "close"] \notin outbox'[3]
                        /\ [to |-> b, kind |-> "close"] \in outbox'[4] <=> b \in closed
                        /\ [to |-> b, kind |-> "msg"] \notin outbox'[2]
                        /\ [to |-> b, kind |-> "msg"] \in outbox'[3] => b # c
                        /\ [to |-> b, kind |-> "msg"] \in outbox'[4] => b # c /\ b \notin closed
      OBVIOUS
    <2>1. \A d, k, l : [to |-> b, kind |-> k] = [to |-> d, kind |-> l] <=> b = d /\ k = l
      OBVIOUS
    <2>2. /\ told \subseteq registered \ {c} /\ shown \subseteq registered \ {c}
          /\ (shown = {} \/ closed = {})
      BY <1>1 DEF DropWrites
    <2> QED
      BY <1>3, <2>1, <2>2
  <1>10. \A i \in Stages : \A w \in outbox'[i] : w.to \in registered
    BY <1>1, <1>3, <1>4
  <1>11. NothingFollows'
    <2>1. \A b \in registered : channel[b] # <<"close">> /\ writer[b] \notin {"leaving", "done"}
      BY DEF ConnectionInv, ClosedUnknown
    <2> QED
      BY <1>10, <2>1 DEF NothingFollows
  <1>12. c \notin closed
    BY <1>1 DEF DropWrites
  <1>13. OrderedOutbox'
    BY <1>4, <1>9, <1>12 DEF OrderedOutbox
  <1>14. registered' \subseteq registered /\ \A b \in registered' : b # c /\ b \notin closed
    BY <1>1 DEF DropWrites
  <1>15. ClosedUnknown'
    BY <1>2, <1>4, <1>9, <1>14 DEF ConnectionInv, ConnectionTypes, ClosedUnknown
  <1>16. EndIsReported'
    BY <1>14 DEF ConnectionInv, ConnectionTypes, EndIsReported
  <1> QED
    BY <1>5, <1>7, <1>8, <1>11, <1>13, <1>15, <1>16 DEF ConnectionInv

\* Nothing is pending when the loop takes the next message.
LEMMA IdleIsEmpty == Idle => \A i \in Stages : outbox[i] = {}
  BY DEF Idle, Stages

LEMMA HandleConnectedKeeps ==
  ASSUME ConnectionInv, NEW c \in Clients, HandleConnected(c)
  PROVE  ConnectionInv'
  <1>1. \A i \in Stages : outbox[i] = {}
    BY IdleIsEmpty DEF HandleConnected
  <1>2. ConnectionTypes'
    BY DEF ConnectionInv, ConnectionTypes, HandleConnected
  <1>3. (Unaccepted /\ Started)'
    BY DEF ConnectionInv, ConnectionTypes, Unaccepted, Fresh, Started, HandleConnected
  <1>4. (PendingAccepted /\ NothingFollows /\ OrderedOutbox)'
    BY <1>1 DEF PendingAccepted, NothingFollows, OrderedOutbox, HandleConnected
  <1>5. (ClosedUnknown /\ EndIsReported)'
    BY <1>1 DEF ConnectionInv, ConnectionTypes, Unaccepted, Fresh, Started, ClosedUnknown,
                EndIsReported, HandleConnected
  <1> QED
    BY <1>2, <1>3, <1>4, <1>5 DEF ConnectionInv

LEMMA HandleRequestKeeps ==
  ASSUME ConnectionInv, NEW c \in Clients, HandleRequest(c)
  PROVE  ConnectionInv'
  <1>1. \A i \in Stages : outbox[i] = {}
    BY IdleIsEmpty DEF HandleRequest
  <1>2. /\ reader' \in [Clients -> {"off", "reading", "sending", "closing", "done"}]
        /\ \A b \in Clients : reader'[b] = "off" <=> reader[b] = "off"
        /\ UNCHANGED <<upgrade, writer, reporter, once, socket, channel>>
    BY DEF ConnectionInv, ConnectionTypes, HandleRequest
  <1>3. ASSUME c \in registered, NEW joined \in BOOLEAN, Drop(c, joined) PROVE ConnectionInv'
    BY <1>2, <1>3, DropKeeps DEF ConnectionInv, ConnectionTypes, HandleRequest
  <1>4. ASSUME registered' = registered,
               outbox' \in [Stages -> SUBSET Messages],
               \A i \in Stages : \A w \in outbox'[i] :
                 \E b \in registered : w = [to |-> b, kind |-> "msg"]
        PROVE  ConnectionInv'
    <2>1. ConnectionTypes'
      BY <1>2, <1>4 DEF ConnectionInv, ConnectionTypes
    <2>2. (Unaccepted /\ Started)'
      BY <1>2, <1>4 DEF ConnectionInv, Unaccepted, Fresh, Started
    <2>3. \A i \in Stages : \A w \in outbox'[i] : w.to \in registered
      BY <1>4
    <2>4. \A b \in registered : /\ upgrade[b] \in {"accepted", "done"}
                                /\ channel[b] # <<"close">>
                                /\ writer[b] \notin {"leaving", "done"}
      BY DEF ConnectionInv, ConnectionTypes, Unaccepted, Fresh, ClosedUnknown
    <2>5. (PendingAccepted /\ NothingFollows)'
      BY <1>2, <2>3, <2>4 DEF PendingAccepted, NothingFollows
    <2>6. \A i \in Stages, b \in Clients : [to |-> b, kind |-> "close"] \notin outbox'[i]
      BY <1>4
    <2>7. (OrderedOutbox /\ ClosedUnknown /\ EndIsReported)'
      BY <1>2, <1>4, <2>6 DEF ConnectionInv, ConnectionTypes, OrderedOutbox, ClosedUnknown,
                              EndIsReported
    <2> QED
      BY <2>1, <2>2, <2>5, <2>7 DEF ConnectionInv
  <1>5. ASSUME NEW first \in SUBSET registered, NEW second \in SUBSET registered,
               outbox' = <<To(first, "msg"), {}, To(second, "msg"), {}>>
        PROVE  /\ outbox' \in [Stages -> SUBSET Messages]
               /\ \A i \in Stages : \A w \in outbox'[i] :
                    \E b \in registered : w = [to |-> b, kind |-> "msg"]
    BY <1>5 DEF ConnectionInv, ConnectionTypes, Stages, To, Messages
  <1>6. CASE UNCHANGED <<registered, outbox>>
    BY <1>1, <1>4, <1>6 DEF ConnectionInv, ConnectionTypes
  <1> QED
    BY <1>3, <1>4, <1>5, <1>6 DEF HandleRequest

LEMMA HandleDisconnectedKeeps ==
  ASSUME ConnectionInv, NEW c \in Clients, HandleDisconnected(c)
  PROVE  ConnectionInv'
  <1>1. \A i \in Stages : outbox[i] = {}
    BY IdleIsEmpty DEF HandleDisconnected
  <1>2. /\ reporter' \in [Clients -> {"off", "sending", "done"}]
        /\ \A b \in Clients : b # c => reporter'[b] = reporter[b]
        /\ UNCHANGED <<upgrade, reader, writer, once, socket, channel>>
    BY DEF ConnectionInv, ConnectionTypes, HandleDisconnected
  <1>3. CASE c \in registered /\ Drop(c, FALSE)
    <2>1. Idle /\ FALSE \in BOOLEAN
      BY DEF HandleDisconnected
    <2>2. reader' = reader /\ reader \in [Clients -> {"off", "reading", "sending", "closing", "done"}]
      BY <1>2 DEF ConnectionInv, ConnectionTypes
    <2> QED
      BY <1>2, <1>3, <2>1, <2>2, DropKeeps
  <1>4. CASE c \notin registered /\ UNCHANGED <<registered, outbox>>
    <2>1. ConnectionTypes'
      BY <1>2, <1>4 DEF ConnectionInv, ConnectionTypes
    <2>2. (Unaccepted /\ Started)'
      BY <1>2, <1>4 DEF ConnectionInv, ConnectionTypes, Unaccepted, Fresh, Started,
                        HandleDisconnected
    <2>3. (PendingAccepted /\ NothingFollows /\ OrderedOutbox /\ ClosedUnknown)'
      BY <1>1, <1>2, <1>4 DEF ConnectionInv, PendingAccepted, NothingFollows, OrderedOutbox,
                              ClosedUnknown
    <2>4. EndIsReported'
      BY <1>2, <1>4 DEF ConnectionInv, ConnectionTypes, EndIsReported
    <2> QED
      BY <2>1, <2>2, <2>3, <2>4 DEF ConnectionInv
  <1> QED
    BY <1>3, <1>4 DEF HandleDisconnected

\* Taking a message from the outbox adds nothing to it.
LEMMA PopTakes ==
  ASSUME ConnectionInv, NEW i \in Stages, NEW w \in outbox[i], Pop(i, w)
  PROVE  /\ outbox' \in [Stages -> SUBSET Messages]
         /\ \A j \in Stages : outbox'[j] \subseteq outbox[j]
         /\ outbox'[i] = outbox[i] \ {w}
  BY DEF ConnectionInv, ConnectionTypes, Pop

LEMMA GiveUpKeeps == ASSUME ConnectionInv, GiveUp PROVE ConnectionInv'
  <1>1. PICK i \in Stages : \E w \in outbox[i] : Pop(i, w)
    BY DEF GiveUp
  <1>2. /\ outbox' \in [Stages -> SUBSET Messages]
        /\ \A j \in Stages : outbox'[j] \subseteq outbox[j]
    BY <1>1, PopTakes
  <1>3. UNCHANGED <<upgrade, reader, writer, reporter, once, socket, channel, registered>>
    BY DEF GiveUp
  <1>4. (ConnectionTypes /\ Unaccepted /\ Started /\ EndIsReported)'
    BY <1>2, <1>3 DEF ConnectionInv, ConnectionTypes, Unaccepted, Fresh, Started, EndIsReported
  <1>5. (PendingAccepted /\ NothingFollows /\ OrderedOutbox /\ ClosedUnknown)'
    BY <1>2, <1>3 DEF ConnectionInv, PendingAccepted, NothingFollows, OrderedOutbox, ClosedUnknown
  <1> QED
    BY <1>4, <1>5 DEF ConnectionInv

\* The message that is written was the first one left for its connection, so if
\* it is CloseWriter it was the last one.
LEMMA WriteKeeps == ASSUME ConnectionInv, Write PROVE ConnectionInv'
  <1>1. PICK i \in Stages : \E w \in outbox[i] :
               /\ Due(i, w) /\ channel[w.to] = <<>>
               /\ channel' = [channel EXCEPT ![w.to] = <<w.kind>>]
               /\ Pop(i, w)
    BY DEF Write
  <1>2. PICK w \in outbox[i] :
               /\ Due(i, w) /\ channel[w.to] = <<>>
               /\ channel' = [channel EXCEPT ![w.to] = <<w.kind>>]
               /\ Pop(i, w)
    BY <1>1
  <1>3. /\ outbox' \in [Stages -> SUBSET Messages]
        /\ \A j \in Stages : outbox'[j] \subseteq outbox[j]
        /\ outbox'[i] = outbox[i] \ {w}
    BY <1>2, PopTakes
  <1>4. UNCHANGED <<upgrade, reader, writer, reporter, once, socket, registered>>
    BY DEF Write
  <1>5. w \in Messages /\ w.to \in Clients /\ w.kind \in {"msg", "close"}
        /\ w = [to |-> w.to, kind |-> w.kind]
    BY DEF ConnectionInv, ConnectionTypes, Messages
  <1>6. (ConnectionTypes /\ Started /\ EndIsReported)'
    BY <1>2, <1>3, <1>4, <1>5 DEF ConnectionInv, ConnectionTypes, Started, EndIsReported
  <1>7. Unaccepted'
    BY <1>2, <1>4, <1>5 DEF ConnectionInv, ConnectionTypes, Unaccepted, Fresh, PendingAccepted
  <1>8. (PendingAccepted /\ OrderedOutbox)'
    BY <1>3, <1>4 DEF ConnectionInv, PendingAccepted, OrderedOutbox
  <1>9. ASSUME w.kind = "close"
        PROVE  \A j \in Stages : \A v \in outbox'[j] : v.to # w.to
    <2> SUFFICES ASSUME NEW j \in Stages, NEW v \in outbox'[j], v.to = w.to
                 PROVE  FALSE
      OBVIOUS
    <2>1. v \in outbox[j] /\ v \in Messages
      BY <1>3 DEF ConnectionInv, ConnectionTypes
    <2>2. v = [to |-> w.to, kind |-> "close"] \/ v = [to |-> w.to, kind |-> "msg"]
      BY <2>1 DEF Messages
    <2>3. w = [to |-> w.to, kind |-> "close"]
      BY <1>5, <1>9
    <2>4. CASE v = [to |-> w.to, kind |-> "close"]
      <3>1. j = i
        BY <1>5, <2>1, <2>3, <2>4 DEF ConnectionInv, OrderedOutbox
      <3> QED
        BY <1>3, <2>3, <2>4, <3>1
    <2>5. CASE v = [to |-> w.to, kind |-> "msg"]
      <3>1. j < i
        BY <1>5, <2>1, <2>3, <2>5 DEF ConnectionInv, OrderedOutbox
      <3>2. outbox[j] = {}
        BY <1>2, <3>1 DEF Due, Stages
      <3> QED
        BY <2>1, <3>2
    <2> QED
      BY <2>2, <2>4, <2>5
  <1>10. NothingFollows'
    <2> SUFFICES ASSUME NEW c \in Clients, NEW j \in Stages, NEW v \in outbox'[j],
                        channel'[c] = <<"close">> \/ writer'[c] \in {"leaving", "done"}
                 PROVE  v.to # c
      BY DEF NothingFollows
    <2>1. CASE c = w.to
      <3>1. writer[c] \notin {"leaving", "done"}
        BY <2>1, <1>5 DEF ConnectionInv, NothingFollows
      <3>2. w.kind = "close"
        BY <1>2, <1>4, <1>5, <2>1, <3>1 DEF ConnectionInv, ConnectionTypes
      <3> QED
        BY <1>9, <2>1, <3>2
    <2>2. CASE c # w.to
      <3>1. channel'[c] = channel[c] /\ v \in outbox[j]
        BY <1>2, <1>3, <1>5, <2>2 DEF ConnectionInv, ConnectionTypes
      <3> QED
        BY <1>4, <3>1 DEF ConnectionInv, NothingFollows
    <2> QED
      BY <2>1, <2>2
  <1>11. ClosedUnknown'
    <2> SUFFICES ASSUME NEW c \in registered
                 PROVE  /\ writer[c] \notin {"leaving", "done"}
                        /\ channel'[c] # <<"close">>
                        /\ \A j \in Stages : [to |-> c, kind |-> "close"] \notin outbox'[j]
      BY <1>4 DEF ClosedUnknown
    <2>1. c \in Clients
      BY DEF ConnectionInv, ConnectionTypes
    <2>2. c = w.to => w.kind # "close"
      BY <1>5 DEF ConnectionInv, ClosedUnknown
    <2> QED
      BY <1>2, <1>3, <1>5, <2>1, <2>2 DEF ConnectionInv, ConnectionTypes, ClosedUnknown
  <1> QED
    BY <1>6, <1>7, <1>8, <1>10, <1>11 DEF ConnectionInv

\* Whatever the loop and the goroutines do next, the invariant holds after it.
LEMMA NextConnection == ConnectionInv /\ [Next]_vars => ConnectionInv'
  <1> SUFFICES ASSUME ConnectionInv, [Next]_vars PROVE ConnectionInv'
    OBVIOUS
  <1>1. ASSUME NEW c \in Clients, Handle(c) PROVE ConnectionInv'
    BY <1>1, HandleConnectedKeeps, HandleRequestKeeps, HandleDisconnectedKeeps DEF Handle
  <1>2. ASSUME NEW c \in Clients, ReaderStep(c) PROVE ConnectionInv'
    BY <1>2, ReadKeeps, ReadErrorKeeps, ReaderClosesKeeps DEF ReaderStep
  <1>3. ASSUME NEW c \in Clients, WriterStep(c) PROVE ConnectionInv'
    BY <1>3, TakeMessageKeeps, WriteDoneKeeps, WriteErrorKeeps, WriterClosesKeeps,
       TakeCloseKeeps, WriterLeavesKeeps DEF WriterStep
  <1>4. CASE UNCHANGED vars
    BY <1>4 DEF vars, ConnectionInv, ConnectionTypes, Unaccepted, Fresh, Started,
       PendingAccepted, NothingFollows, OrderedOutbox, ClosedUnknown, EndIsReported
  <1> QED
    BY <1>1, <1>2, <1>3, <1>4, WriteKeeps, GiveUpKeeps, UpgradeKeeps, StartKeeps
    DEF Next, Terminated

\* The connections of Client behave as module Connections says.
LEMMA ConnectionsStep ==
  /\ ClientInit => Init
  /\ [ClientNext]_<<vars, close>> => [Next]_vars
  BY DEF ClientInit, ClientNext

THEOREM ConnectionInvariance == ClientSpec => []ConnectionInv
  BY InitConnection, NextConnection, ConnectionsStep, PTL DEF ClientSpec

\* The variables of the connections keep their types.
THEOREM ConnectionsTyped == ClientSpec => []ConnectionTypes
  <1>1. ConnectionInv => ConnectionTypes
    BY DEF ConnectionInv
  <1> QED
    BY <1>1, ConnectionInvariance, PTL

\* As long as the loop knows a connection its writer serves it.
THEOREM RegisteredAreServed == ClientSpec => []RegisteredIsServed
  <1>1. ConnectionInv => RegisteredIsServed
    BY DEF ConnectionInv, ClosedUnknown, RegisteredIsServed, Pending
  <1> QED
    BY <1>1, ConnectionInvariance, PTL

\* Nothing is written to a connection behind its CloseWriter.
THEOREM ClosesAreLast == ClientSpec => []CloseIsLast
  <1>1. ConnectionInv => CloseIsLast
    <2> SUFFICES ASSUME ConnectionInv PROVE CloseIsLast
      OBVIOUS
    <2>1. \A i, j \in Stages : j >= i => ~(j < i)
      BY DEF Stages
    <2>2. \A w : w \in Pending <=> \E i \in Stages : w \in outbox[i]
      BY DEF Pending
    <2>3. ASSUME NEW c \in Clients, channel[c] = <<"close">> \/ writer[c] \in {"leaving", "done"}
          PROVE  \A w \in Pending : w.to # c
      BY <2>2, <2>3 DEF ConnectionInv, NothingFollows
    <2>4. ASSUME NEW c \in Clients, NEW i \in Stages, NEW j \in Stages,
                 [to |-> c, kind |-> "close"] \in outbox[i], j >= i
          PROVE  [to |-> c, kind |-> "msg"] \notin outbox[j]
      BY <2>1, <2>4 DEF ConnectionInv, OrderedOutbox
    <2> QED
      BY <2>3, <2>4 DEF CloseIsLast
  <1> QED
    BY <1>1, ConnectionInvariance, PTL

\* Whoever uses up the once of a connection the loop knows has the loop told.
THEOREM EndsAreReported == ClientSpec => []EndIsReported
  <1>1. ConnectionInv => EndIsReported
    BY DEF ConnectionInv
  <1> QED
    BY <1>1, ConnectionInvariance, PTL

-----------------------------------------------------------------------------
(* If the writers let the loop wait for less than 2 seconds with CloseWriter. *)

LEMMA InPending == \A w : w \in Pending <=> \E i \in Stages : w \in outbox[i]
  BY DEF Pending

\* The steps that neither end a connection nor touch the outbox.
LEMMA UntouchedTold ==
  ASSUME ConnectionInv, CutOffIsTold, UNCHANGED <<registered, outbox>>,
         \A c \in Clients : upgrade'[c] \in {"accepted", "done"} =>
                              upgrade[c] \in {"accepted", "done"},
         \A c \in Clients : channel[c] = <<"close">> =>
                              channel'[c] = <<"close">> \/ writer'[c] = "leaving",
         \A c \in Clients : writer[c] \in {"leaving", "done"} =>
                              writer'[c] \in {"leaving", "done"}
  PROVE  CutOffIsTold'
  <1>1. Pending' = Pending
    BY DEF Pending
  <1> QED
    BY <1>1 DEF CutOffIsTold

LEMMA ConnectionTold ==
  ASSUME ConnectionInv, CutOffIsTold, NEW c \in Clients,
         Upgrade(c) \/ Start(c) \/ ReaderStep(c) \/ WriterStep(c)
  PROVE  CutOffIsTold'
  <1>1. CASE Upgrade(c)
    BY <1>1, UntouchedTold DEF Upgrade, ConnectionInv, ConnectionTypes
  <1>2. CASE Start(c)
    BY <1>2, UntouchedTold DEF Start, ConnectionInv, ConnectionTypes, Started
  <1>3. CASE ReaderStep(c)
    BY <1>3, UntouchedTold DEF ReaderStep, Read, ReadError, ReaderCloses
  <1>4. CASE TakeMessage(c)
    BY <1>4, UntouchedTold DEF TakeMessage, ConnectionInv, ConnectionTypes
  <1>5. CASE WriteDone(c) \/ WriteError(c) \/ WriterCloses(c)
    BY <1>5, UntouchedTold DEF WriteDone, WriteError, WriterCloses, ConnectionInv, ConnectionTypes
  <1>6. CASE TakeClose(c) \/ WriterLeaves(c)
    BY <1>6, UntouchedTold DEF TakeClose, WriterLeaves, ConnectionInv, ConnectionTypes
  <1> QED
    BY <1>1, <1>2, <1>3, <1>4, <1>5, <1>6 DEF WriterStep

\* Those that the loop cuts off have their CloseWriter in the outbox.
LEMMA HandleTold ==
  ASSUME ConnectionInv, CutOffIsTold, NEW c \in Clients, Handle(c)
  PROVE  CutOffIsTold'
  <1>1. Idle /\ UNCHANGED <<writer, channel>>
    BY DEF Handle, HandleConnected, HandleRequest, HandleDisconnected
  <1>2. Pending = {}
    BY <1>1, InPending, IdleIsEmpty
  <1>3. \A b \in Clients : upgrade[b] \in {"accepted", "done"} /\ b \notin registered =>
                             channel[b] = <<"close">> \/ writer[b] \in {"leaving", "done"}
    BY <1>2 DEF CutOffIsTold
  <1>4. CASE HandleConnected(c)
    BY <1>1, <1>3, <1>4 DEF HandleConnected, CutOffIsTold, ConnectionInv, ConnectionTypes
  <1>5. CASE UNCHANGED <<upgrade, registered>>
    BY <1>1, <1>3, <1>5 DEF CutOffIsTold
  <1>6. ASSUME c \in registered, NEW joined \in BOOLEAN, Drop(c, joined), UNCHANGED upgrade
        PROVE  CutOffIsTold'
    <2>1. PICK first, told, shown, closed \in SUBSET registered :
                 DropWrites(c, first, told, shown, closed)
      BY <1>6, DropShape
    <2>2. outbox' = <<To(first, "msg"), To({c}, "close"), To(told, "msg"),
                      To(shown, "msg") \cup To(closed, "close")>>
      BY <2>1 DEF DropWrites
    <2>3. outbox'[2] = To({c}, "close") /\ outbox'[4] = To(shown, "msg") \cup To(closed, "close")
      BY <2>2
    <2>4. \A b, d : b \in d => [to |-> b, kind |-> "close"] \in To(d, "close")
      BY DEF To
    <2>5. /\ [to |-> c, kind |-> "close"] \in outbox'[2]
          /\ \A b \in closed : [to |-> b, kind |-> "close"] \in outbox'[4]
          /\ 2 \in Stages /\ 4 \in Stages
      BY <2>3, <2>4 DEF Stages
    <2>6. \A b \in Clients : b \notin registered' =>
            b \notin registered \/ \E i \in Stages : [to |-> b, kind |-> "close"] \in outbox'[i]
      BY <2>1, <2>5 DEF DropWrites
    <2>7. \A b \in Clients : b \notin registered' =>
            b \notin registered \/ ([to |-> b, kind |-> "close"] \in Pending')
      BY <2>6 DEF Pending
    <2> QED
      BY <1>1, <1>3, <1>6, <2>7 DEF CutOffIsTold
  <1> QED
    BY <1>4, <1>5, <1>6 DEF Handle, HandleRequest, HandleDisconnected

\* A CloseWriter leaves the outbox for the channel only.
LEMMA OutboxTold ==
  ASSUME ConnectionInv, CutOffIsTold, "close" \notin Droppable, Write \/ GiveUp
  PROVE  CutOffIsTold'
  <1>1. PICK i \in Stages : \E w \in outbox[i] :
               /\ Pop(i, w)
               /\ \/ w.kind # "close" /\ channel' = channel
                  \/ channel[w.to] = <<>> /\ channel' = [channel EXCEPT ![w.to] = <<w.kind>>]
    BY DEF Write, GiveUp
  <1>2. PICK w \in outbox[i] :
               /\ Pop(i, w)
               /\ \/ w.kind # "close" /\ channel' = channel
                  \/ channel[w.to] = <<>> /\ channel' = [channel EXCEPT ![w.to] = <<w.kind>>]
    BY <1>1
  <1>3. UNCHANGED <<upgrade, writer, registered>>
    BY DEF Write, GiveUp
  <1>4. outbox'[i] = outbox[i] \ {w} /\ \A j \in Stages : j # i => outbox'[j] = outbox[j]
    BY <1>2 DEF Pop, ConnectionInv, ConnectionTypes
  <1>5. w.to \in Clients
    BY DEF ConnectionInv, ConnectionTypes, Messages
  <1> SUFFICES ASSUME NEW c \in Clients, upgrade[c] \in {"accepted", "done"}, c \notin registered
               PROVE  \/ [to |-> c, kind |-> "close"] \in Pending'
                      \/ channel'[c] = <<"close">>
                      \/ writer[c] \in {"leaving", "done"}
    BY <1>3 DEF CutOffIsTold
  <1>6. CASE w = [to |-> c, kind |-> "close"]
    BY <1>2, <1>6 DEF ConnectionInv, ConnectionTypes
  <1>7. CASE [to |-> c, kind |-> "close"] \in Pending /\ w # [to |-> c, kind |-> "close"]
    <2>1. PICK j \in Stages : [to |-> c, kind |-> "close"] \in outbox[j]
      BY <1>7, InPending
    <2>2. [to |-> c, kind |-> "close"] \in outbox'[j]
      BY <1>4, <1>7, <2>1
    <2> QED
      BY <2>2 DEF Pending
  <1>8. CASE channel[c] = <<"close">>
    BY <1>2, <1>5, <1>8 DEF ConnectionInv, ConnectionTypes
  <1> QED
    BY <1>6, <1>7, <1>8 DEF CutOffIsTold

\* A connection that the loop has cut off has its CloseWriter before it or behind
\* it, if no writer can keep a CloseWriter waiting for 2 seconds.
THEOREM CutOffsAreTold == "close" \notin Droppable => (ClientSpec => []CutOffIsTold)
  <1> SUFFICES ASSUME "close" \notin Droppable PROVE ClientSpec => []CutOffIsTold
    OBVIOUS
  <1>1. Init => CutOffIsTold
    BY DEF Init, CutOffIsTold
  <1>2. ConnectionInv /\ CutOffIsTold /\ [Next]_vars => CutOffIsTold'
    <2>1. ASSUME CutOffIsTold, UNCHANGED vars PROVE CutOffIsTold'
      BY <2>1 DEF CutOffIsTold, Pending, vars
    <2> QED
      BY <2>1, ConnectionTold, HandleTold, OutboxTold DEF Next, Terminated
  <1> QED
    BY <1>1, <1>2, ConnectionsStep, ConnectionInvariance, PTL DEF ClientSpec

=============================================================================
