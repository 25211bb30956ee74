------------------------------ MODULE HttpServer ------------------------------
(***************************************************************************)
(* Start and stop of the HTTP server (server/server.go): one goroutine     *)
(* listens and serves, one waits for an interrupt and shuts down, and      *)
(* Start returns the first error that either puts into one unbuffered      *)
(* channel.  http.Server, a library, is modelled as far as its Serve and   *)
(* Shutdown affect each other.                                             *)
(***************************************************************************)
CONSTANTS
  Requests,       \* the requests that may be in progress
  ServeErrors,    \* why listening or serving may fail
  ShutdownErrors, \* why Shutdown may fail: its two seconds are over, or a listener does not close
  Closed,         \* http.ErrServerClosed
  Nil             \* no error

VARIABLES
  pc,          \* the stage of the three goroutines
  returned,    \* what Start, listenAndServe and Shutdown have returned
  signalled,   \* the process was sent an interrupt
  interrupt,   \* which is in the channel of capacity one
  closing,     \* Shutdown was called: http.Server.inShutdown
  busy         \* the requests in progress

vars == <<pc, returned, signalled, interrupt, closing, busy>>

Init ==
  /\ pc = [start |-> "starting", serve |-> "listening", stop |-> "unstarted"]
  /\ returned = [start |-> Nil, serve |-> Nil, stop |-> Nil]
  /\ signalled = FALSE /\ interrupt = FALSE /\ closing = FALSE
  /\ busy = {}

-----------------------------------------------------------------------------
At(goroutine, from, to) ==
  pc[goroutine] = from /\ pc' = [pc EXCEPT ![goroutine] = to]

Return(goroutine, err) == returned' = [returned EXCEPT ![goroutine] = err]

\* shutdownOnInterruptSignal, and on to waitForServerToClose
Notify ==
  /\ pc.start = "starting"
  /\ pc' = [start |-> "receiving", serve |-> pc.serve, stop |-> "waiting"]
  /\ UNCHANGED <<returned, signalled, interrupt, closing, busy>>

\* Mutant of Signal: the channel has no room, its receiver must be there.
SignalUnbuffered ==
  /\ ~signalled /\ pc.start # "starting"
  /\ signalled' = TRUE
  /\ interrupt' \in BOOLEAN
  /\ UNCHANGED <<pc, returned, closing, busy>>

\* Before Notify an interrupt just ends the process.
Signal ==
  /\ ~signalled /\ pc.start # "starting"
  /\ signalled' = TRUE /\ interrupt' = TRUE
  /\ UNCHANGED <<pc, returned, closing, busy>>

\* net.Listen
Listen ==
  /\ \/ At("serve", "listening", "listens") /\ UNCHANGED returned
     \/ /\ At("serve", "listening", "sending")
        /\ \E err \in ServeErrors : Return("serve", err)
  /\ UNCHANGED <<signalled, interrupt, closing, busy>>

\* Serve, or ServeTLS, which may fail to read the certificate; neither begins
\* when Shutdown was called before.
Serve ==
  /\ \/ At("serve", "listens", "serving") /\ ~closing /\ UNCHANGED returned
     \/ /\ At("serve", "listens", "sending")
        /\ \E err \in ServeErrors \cup {Closed} : (err = Closed => closing) /\ Return("serve", err)
  /\ UNCHANGED <<signalled, interrupt, closing, busy>>

\* The listener fails, or Shutdown has closed it.
ServeReturns ==
  /\ At("serve", "serving", "sending")
  /\ \E err \in IF closing THEN {Closed} ELSE ServeErrors : Return("serve", err)
  /\ UNCHANGED <<signalled, interrupt, closing, busy>>

Request(r) ==
  /\ pc.serve = "serving" /\ ~closing
  /\ r \notin busy
  /\ busy' = busy \cup {r}
  /\ UNCHANGED <<pc, returned, signalled, interrupt, closing>>

Answer(r) ==
  /\ r \in busy
  /\ busy' = busy \ {r}
  /\ UNCHANGED <<pc, returned, signalled, interrupt, closing>>

TakeInterrupt ==
  /\ interrupt
  /\ At("stop", "waiting", "interrupted")
  /\ interrupt' = FALSE
  /\ UNCHANGED <<returned, signalled, closing, busy>>

Shutdown ==
  /\ At("stop", "interrupted", "closing")
  /\ closing' = TRUE
  /\ UNCHANGED <<returned, signalled, interrupt, busy>>

\* Mutant of ShutdownReturns: what it returned is sent even when it is nil.
ShutdownReturnsAlways ==
  /\ pc.stop = "closing"
  /\ \E err \in ShutdownErrors \cup {Nil} :
       /\ err = Nil => busy = {}
       /\ At("stop", "closing", "sending")
       /\ Return("stop", err)
  /\ UNCHANGED <<signalled, interrupt, closing, busy>>

\* Shutdown waits for the requests in progress.  Only an error is sent.
ShutdownReturns ==
  /\ \E err \in ShutdownErrors \cup {Nil} :
       /\ err = Nil => busy = {}
       /\ At("stop", "closing", IF err = Nil THEN "done" ELSE "sending")
       /\ Return("stop", err)
  /\ UNCHANGED <<signalled, interrupt, closing, busy>>

\* waitForServerToClose
Result(err) == IF err = Closed THEN Nil ELSE err

\* The one receive from the unbuffered channel: one of two may be sending.
Receive(sender) ==
  /\ pc.start = "receiving" /\ pc[sender] = "sending"
  /\ pc' = [g \in DOMAIN pc |-> IF g \in {"start", sender} THEN "done" ELSE pc[g]]
  /\ Return("start", Result(returned[sender]))
  /\ UNCHANGED <<signalled, interrupt, closing, busy>>

Next ==
  \/ Notify \/ Signal \/ Listen \/ Serve \/ ServeReturns
  \/ TakeInterrupt \/ Shutdown \/ ShutdownReturns
  \/ \E sender \in {"serve", "stop"} : Receive(sender)
  \/ \E r \in Requests : Request(r) \/ Answer(r)

Spec == Init /\ [][Next]_vars

-----------------------------------------------------------------------------
\* Start reports success only after an interrupt that closed the server; what
\* it reports otherwise is the error of what failed (serve.go:54 ends the
\* process with it).
ResultTrue ==
  pc.start = "done" =>
    IF returned.start = Nil THEN signalled /\ returned.serve = Closed
    ELSE returned.start \in {returned.serve, returned.stop}
=============================================================================
