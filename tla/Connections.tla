---------------------------- MODULE Connections ----------------------------
(***************************************************************************)
(* The goroutines behind the websocket connections (ws/client.go) and the  *)
(* channels between them and the event loop (ws/rooms.go).  A connection   *)
(* has the handler that upgrades it, a reader, a writer, and the goroutine *)
(* that CloseOnError starts to report the end.  They hand messages to the  *)
(* loop over one unbuffered channel; the loop writes to each connection    *)
(* over a channel of capacity one and gives a message up after 2 seconds.  *)
(* Which connections a handler writes to and cuts off is decided by module *)
(* Rooms, and is any set of the registered ones here.  Bound: a handler    *)
(* writes to a connection once at most in each of its stages.              *)
(***************************************************************************)
EXTENDS Naturals

CONSTANTS
  Clients,
  Droppable   \* the messages that a writer may keep waiting for 2 seconds

ASSUME DroppableAssumption == Droppable \subseteq {"msg", "close"}

VARIABLES
  upgrade,    \* Rooms.Upgrade
  reader,     \* startReading
  writer,     \* startWriteHandler
  reporter,   \* the goroutine that sends Disconnected
  once,       \* Client.once has been used
  socket,     \* conn is open or was closed by the server
  channel,    \* ClientInfo.Write, by what is in it
  registered, \* the keys of Rooms.connected
  outbox      \* what the handler that runs in the loop has left to write, by stage

vars == <<upgrade, reader, writer, reporter, once, socket, channel, registered, outbox>>

-----------------------------------------------------------------------------
Init ==
  /\ upgrade = [c \in Clients |-> "new"]
  /\ reader = [c \in Clients |-> "off"]
  /\ writer = [c \in Clients |-> "off"]
  /\ reporter = [c \in Clients |-> "off"]
  /\ once = [c \in Clients |-> FALSE]
  /\ socket = [c \in Clients |-> "open"]
  /\ channel = [c \in Clients |-> <<>>]
  /\ registered = {}
  /\ outbox = <<{}, {}, {}, {}>>

-----------------------------------------------------------------------------
(* The loop.  It takes the next message when the handler of the last one has
   returned; a handler writes its messages in four stages, of which some may be
   empty, and those of a stage in the order of a map iteration. *)

Stages == 1 .. 4

Idle == outbox = <<{}, {}, {}, {}>>

To(cs, kind) == {[to |-> c, kind |-> kind] : c \in cs}

HandleConnected(c) ==
  /\ Idle /\ upgrade[c] = "connecting"
  /\ upgrade' = [upgrade EXCEPT ![c] = "accepted"]
  /\ registered' = registered \cup {c}
  /\ UNCHANGED <<reader, writer, reporter, once, socket, channel, outbox>>

\* The others in the room of c are cut off with it when the room closes.
Off(others, closes) == IF closes THEN others ELSE {}

\* Mutant of Drop: the members of a room that closes stay registered.
DropAlone(c, joined) ==
  \E others \in SUBSET (registered \ {c}), closes \in BOOLEAN : \E ends \in SUBSET others :
    /\ registered' = registered \ {c}
    /\ outbox' = <<IF joined THEN To(others \cup {c}, "msg") ELSE {}, To({c}, "close"),
                   To(ends, "msg"), To(others, IF closes THEN "close" ELSE "msg")>>

\* Mutant of Drop: a room that closes ends its sessions last.
DropEndsSessionsLast(c, joined) ==
  \E others \in SUBSET (registered \ {c}), closes \in BOOLEAN : \E ends \in SUBSET others :
    /\ registered' = registered \ ({c} \cup Off(others, closes))
    /\ outbox' = <<IF joined THEN To(others \cup {c}, "msg") ELSE {}, To({c}, "close"),
                   To(others, IF closes THEN "close" ELSE "msg"), To(ends, "msg")>>

\* Mutant of Drop: who is dropped is not sent CloseWriter.
DropSilently(c, joined) ==
  \E others \in SUBSET (registered \ {c}), closes \in BOOLEAN : \E ends \in SUBSET others :
    /\ registered' = registered \ ({c} \cup Off(others, closes))
    /\ outbox' = <<IF joined THEN To(others \cup {c}, "msg") ELSE {}, {},
                   To(ends, "msg"), To(others, IF closes THEN "close" ELSE "msg")>>

\* executeNoError.  c, who may have joined and been shown to the room before, is
\* cut off; the ends of its sessions get an endshare; then the others in its
\* room are either shown who is left or, when the room closes, cut off too.
Drop(c, joined) ==
  \E others \in SUBSET (registered \ {c}), closes \in BOOLEAN : \E ends \in SUBSET others :
    /\ registered' = registered \ ({c} \cup Off(others, closes))
    /\ outbox' = <<IF joined THEN To(others \cup {c}, "msg") ELSE {}, To({c}, "close"),
                   To(ends, "msg"), To(others, IF closes THEN "close" ELSE "msg")>>

\* A request is handled, which takes two rounds of messages at most, those about
\* sessions and those about the room; or it fails, or is ignored as c is not
\* registered.
HandleRequest(c) ==
  /\ Idle /\ reader[c] = "sending"
  /\ reader' = [reader EXCEPT ![c] = "reading"]
  /\ \/ /\ c \in registered
        /\ \E first, second \in SUBSET registered :
             outbox' = <<To(first, "msg"), {}, To(second, "msg"), {}>>
        /\ UNCHANGED registered
     \/ c \in registered /\ \E joined \in BOOLEAN : Drop(c, joined)
     \/ c \notin registered /\ UNCHANGED <<registered, outbox>>
  /\ UNCHANGED <<upgrade, writer, reporter, once, socket, channel>>

HandleDisconnected(c) ==
  /\ Idle /\ reporter[c] = "sending"
  /\ reporter' = [reporter EXCEPT ![c] = "done"]
  /\ \/ c \in registered /\ Drop(c, FALSE)
     \/ c \notin registered /\ UNCHANGED <<registered, outbox>>
  /\ UNCHANGED <<upgrade, reader, writer, once, socket, channel>>

\* m is of the first stage that is not done.
Due(i, m) == m \in outbox[i] /\ \A j \in 1 .. (i - 1) : outbox[j] = {}

Pop(i, m) == outbox' = [outbox EXCEPT ![i] = @ \ {m}]

\* writeTimeout, when there is room in the channel ...
Write ==
  /\ \E i \in Stages : \E m \in outbox[i] :
       /\ Due(i, m)
       /\ channel[m.to] = <<>>
       /\ channel' = [channel EXCEPT ![m.to] = <<m.kind>>]
       /\ Pop(i, m)
  /\ UNCHANGED <<upgrade, reader, writer, reporter, once, socket, registered>>

\* ... and when there is none for 2 seconds, the writer being in a write or in
\* the closing of the socket, which may both take as long.
GiveUp ==
  /\ \E i \in Stages : \E m \in outbox[i] :
       /\ Due(i, m)
       /\ channel[m.to] # <<>> /\ writer[m.to] # "waiting"
       /\ m.kind \in Droppable
       /\ Pop(i, m)
  /\ UNCHANGED <<upgrade, reader, writer, reporter, once, socket, channel, registered>>

-----------------------------------------------------------------------------
(* The connection. *)

\* Mutant of ReportFirst: an error is treated like the end that the loop ordered.
ReportNothing(c) == once' = [once EXCEPT ![c] = TRUE] /\ UNCHANGED reporter

\* CloseOnError's once.Do: the first caller starts the reporter.
ReportFirst(c) ==
  /\ once' = [once EXCEPT ![c] = TRUE]
  /\ reporter' = [reporter EXCEPT ![c] = IF once[c] THEN @ ELSE "sending"]

\* The websocket is there; Connected waits for the loop.
Upgrade(c) ==
  /\ upgrade[c] = "new"
  /\ upgrade' = [upgrade EXCEPT ![c] = "connecting"]
  /\ UNCHANGED <<reader, writer, reporter, once, socket, channel, registered, outbox>>

\* The two goroutines start when the loop has taken Connected.
Start(c) ==
  /\ upgrade[c] = "accepted"
  /\ upgrade' = [upgrade EXCEPT ![c] = "done"]
  /\ reader' = [reader EXCEPT ![c] = "reading"]
  /\ writer' = [writer EXCEPT ![c] = "waiting"]
  /\ UNCHANGED <<reporter, once, socket, channel, registered, outbox>>

Read(c) ==
  /\ reader[c] = "reading" /\ socket[c] = "open"
  /\ reader' = [reader EXCEPT ![c] = "sending"]
  /\ UNCHANGED <<upgrade, writer, reporter, once, socket, channel, registered, outbox>>

\* The read fails, or the message is malformed or binary.
ReadError(c) ==
  /\ reader[c] = "reading"
  /\ reader' = [reader EXCEPT ![c] = IF once[c] THEN "done" ELSE "closing"]
  /\ ReportFirst(c)
  /\ UNCHANGED <<upgrade, writer, socket, channel, registered, outbox>>

\* writeCloseMessage, which may take the reader 2 seconds
ReaderCloses(c) ==
  /\ reader[c] = "closing"
  /\ reader' = [reader EXCEPT ![c] = "done"]
  /\ socket' = [socket EXCEPT ![c] = "closed"]
  /\ UNCHANGED <<upgrade, writer, reporter, once, channel, registered, outbox>>

TakeMessage(c) ==
  /\ writer[c] = "waiting" /\ channel[c] = <<"msg">>
  /\ channel' = [channel EXCEPT ![c] = <<>>]
  /\ writer' = [writer EXCEPT ![c] = "writing"]
  /\ UNCHANGED <<upgrade, reader, reporter, once, socket, registered, outbox>>

WriteDone(c) ==
  /\ writer[c] = "writing" /\ socket[c] = "open"
  /\ writer' = [writer EXCEPT ![c] = "waiting"]
  /\ UNCHANGED <<upgrade, reader, reporter, once, socket, channel, registered, outbox>>

\* Mutant of WriteError: the writer returns, and nobody empties its channel.
WriteErrorReturns(c) ==
  /\ writer[c] \in {"waiting", "writing"}
  /\ writer' = [writer EXCEPT ![c] = "leaving"]
  /\ ReportFirst(c)
  /\ UNCHANGED <<upgrade, reader, socket, channel, registered, outbox>>

\* A message or a ping cannot be written.  The loop of the writer goes on.
WriteError(c) ==
  /\ writer[c] \in {"waiting", "writing"}
  /\ writer' = [writer EXCEPT ![c] = IF once[c] THEN "waiting" ELSE "closing"]
  /\ ReportFirst(c)
  /\ UNCHANGED <<upgrade, reader, socket, channel, registered, outbox>>

WriterCloses(c) ==
  /\ writer[c] = "closing"
  /\ writer' = [writer EXCEPT ![c] = "waiting"]
  /\ socket' = [socket EXCEPT ![c] = "closed"]
  /\ UNCHANGED <<upgrade, reader, reporter, once, channel, registered, outbox>>

\* Mutant of TakeClose: the writer does not return.
TakeCloseAndStay(c) ==
  /\ writer[c] = "waiting" /\ channel[c] = <<"close">>
  /\ channel' = [channel EXCEPT ![c] = <<>>]
  /\ once' = [once EXCEPT ![c] = TRUE]
  /\ writer' = [writer EXCEPT ![c] = IF once[c] THEN "waiting" ELSE "closing"]
  /\ UNCHANGED <<upgrade, reader, reporter, socket, registered, outbox>>

\* CloseOnDone: nobody is to report the end of a connection the loop cut off.
TakeClose(c) ==
  /\ writer[c] = "waiting" /\ channel[c] = <<"close">>
  /\ channel' = [channel EXCEPT ![c] = <<>>]
  /\ once' = [once EXCEPT ![c] = TRUE]
  /\ writer' = [writer EXCEPT ![c] = "leaving"]
  /\ UNCHANGED <<upgrade, reader, reporter, socket, registered, outbox>>

WriterLeaves(c) ==
  /\ writer[c] = "leaving"
  /\ writer' = [writer EXCEPT ![c] = "done"]
  /\ socket' = [socket EXCEPT ![c] = "closed"]
  /\ UNCHANGED <<upgrade, reader, reporter, once, channel, registered, outbox>>

Handle(c) == HandleConnected(c) \/ HandleRequest(c) \/ HandleDisconnected(c)

ReaderStep(c) == Read(c) \/ ReadError(c) \/ ReaderCloses(c)

WriterStep(c) ==
  \/ TakeMessage(c) \/ WriteDone(c) \/ WriteError(c)
  \/ WriterCloses(c) \/ TakeClose(c) \/ WriterLeaves(c)

\* Every goroutine has returned.
Over == \A c \in Clients : reader[c] = "done" /\ writer[c] = "done" /\ reporter[c] # "sending"

Terminated == Idle /\ Over /\ UNCHANGED vars

Next ==
  \/ Write
  \/ GiveUp
  \/ \E c \in Clients : Upgrade(c) \/ Start(c) \/ Handle(c) \/ ReaderStep(c) \/ WriterStep(c)
  \/ Terminated

Spec == Init /\ [][Next]_vars

\* What a writer does without a ping that fails: a write ends by its deadline.
WriterWork(c) ==
  \/ TakeMessage(c) \/ TakeClose(c)
  \/ WriteDone(c) \/ (writer[c] = "writing" /\ WriteError(c))
  \/ WriterCloses(c) \/ WriterLeaves(c)

\* What a reader does when its peer sends nothing, and how it comes to start.
ReaderWork(c) ==
  Start(c) \/ ReaderCloses(c) \/ (socket[c] = "closed" /\ ReadError(c))

\* Goroutines that can go on do.  A channel serves its waiting senders in turn,
\* so the loop comes to each of them; a connection sends either Connected or what
\* its reader read.  Nothing makes a peer send or break.
Fairness ==
  /\ WF_vars(Write \/ GiveUp)
  /\ \A c \in Clients :
       /\ SF_vars(HandleConnected(c) \/ HandleRequest(c)) /\ SF_vars(HandleDisconnected(c))
       /\ WF_vars(ReaderWork(c)) /\ WF_vars(WriterWork(c))

FairSpec == Spec /\ Fairness

-----------------------------------------------------------------------------
Pending == UNION {outbox[i] : i \in Stages}

\* As long as the loop knows a connection its writer serves it, and no
\* CloseWriter waits for it anywhere.
RegisteredIsServed ==
  \A c \in registered :
    /\ writer[c] \notin {"leaving", "done"}
    /\ channel[c] # <<"close">>
    /\ [to |-> c, kind |-> "close"] \notin Pending

\* CloseWriter is sent once and is the last message to its connection: what
\* the loop wrote after it would fill a channel that nobody empties.
CloseIsLast ==
  \A c \in Clients :
    /\ channel[c] = <<"close">> \/ writer[c] \in {"leaving", "done"} =>
         \A m \in Pending : m.to # c
    /\ \A i, j \in Stages :
         [to |-> c, kind |-> "close"] \in outbox[i] /\ j >= i =>
           [to |-> c, kind |-> "msg"] \notin outbox[j]

\* Whoever uses up once on a connection the loop still knows has the loop told:
\* the reader and the writer may fail together with the loop cutting them off,
\* and the one that comes first decides.
EndIsReported ==
  \A c \in registered : once[c] => reporter[c] = "sending"

\* A connection that the loop has cut off and that no message was given up for
\* has its CloseWriter before it or behind it.
CutOffIsTold ==
  \A c \in Clients :
    upgrade[c] \in {"accepted", "done"} /\ c \notin registered =>
      \/ [to |-> c, kind |-> "close"] \in Pending
      \/ channel[c] = <<"close">>
      \/ writer[c] \in {"leaving", "done"}

\* The loop never waits on a writer for ever, nor a writer on the loop.
LoopReturns == []<>Idle

\* When one side of a connection has failed, all of it ends: the loop forgets
\* it, the socket is closed and its goroutines return.
FailedEnds ==
  \A c \in Clients :
    once[c] ~> /\ c \notin registered
               /\ socket[c] = "closed"
               /\ reader[c] = "done" /\ writer[c] = "done" /\ reporter[c] # "sending"

\* client.go:133 says of the write loop: "on errors exit the loop".
WriterExitsOnErrors ==
  \A c \in Clients : writer[c] = "closing" ~> writer[c] = "done"
=============================================================================
