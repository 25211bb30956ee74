------------------------------- MODULE Process -------------------------------
(***************************************************************************)
(* The serve command from its settings to its end (cmd/serve.go): Startup, *)
(* whose last step calls server.Start, with HttpServer for that call.      *)
(***************************************************************************)
EXTENDS Startup

CONSTANTS Requests, ServeErrors, ShutdownErrors, Closed, NoError   \* of HttpServer

ASSUME ErrorsAssumption ==
  /\ Closed \notin ServeErrors \cup ShutdownErrors
  /\ NoError \notin ServeErrors \cup ShutdownErrors \cup {Closed}

VARIABLES pc, returned, signalled, interrupt, closing, busy

http == <<pc, returned, signalled, interrupt, closing, busy>>

Http == INSTANCE HttpServer WITH Nil <- NoError

ProcessInit == Init /\ Http!Init

\* The steps of the goroutines under server.Start: the server is up when Serve
\* succeeds, and the process ends when Start has received.
Progress ==
  /\ stage \in {"http", "serving"}
  /\ \/ Http!Serve /\ IF pc'.serve = "serving" THEN Serve ELSE UNCHANGED vars
     \/ \E sender \in {"serve", "stop"} : Http!Receive(sender) /\ ServeEnds
     \/ /\ \/ Http!Notify \/ Http!Listen
           \/ Http!TakeInterrupt \/ Http!Shutdown \/ Http!ShutdownReturns
           \/ closing /\ Http!ServeReturns
        /\ UNCHANGED vars

ProcessNext ==
  \/ (Get \/ Lookup \/ ReadUsers \/ StartTurn) /\ UNCHANGED http
  \/ Progress
  \/ /\ stage \in {"http", "serving"}
     /\ \/ Http!Signal \/ Http!ServeReturns
        \/ \E r \in Requests : Http!Request(r) \/ Http!Answer(r)
     /\ UNCHANGED vars

\* Goroutines go on, and Shutdown gives up after two seconds: requests need
\* not end.
ProcessSpec == ProcessInit /\ [][ProcessNext]_<<vars, http>> /\ WF_<<vars, http>>(Progress)

-----------------------------------------------------------------------------
ResultTrue == Http!ResultTrue

\* An interrupt at any time once the HTTP server starts, and any failure to
\* listen or serve, end the process and all that runs in it, with requests in
\* progress or not.
ProcessEnds ==
  signalled \/ pc.serve = "sending" ~> stage = "exited" /\ running = {}
=============================================================================
