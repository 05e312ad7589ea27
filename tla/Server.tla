------------------------------- MODULE Server -------------------------------
(***************************************************************************)
(* The process (cmd/server): start, the goroutines main starts, signals,   *)
(* and the shutdown, with the requests and the event stream it meets.      *)
(*                                                                         *)
(* net/http is external: ListenAndServe accepts connections until Shutdown *)
(* closes the listener, then returns ErrServerClosed at once, or until it  *)
(* fails; Shutdown closes idle connections and waits until none is new or  *)
(* active, or until its context ends.  Connections accepted before it may  *)
(* have their request read after it, the event stream's included, and are  *)
(* closed if none comes.  It does not end a request's context, so an event *)
(* stream is an active connection for as long as its browser stays.        *)
(* Accepting a connection and entering it in the server's list is one step *)
(* here.                                                                   *)
(* When main returns, the process ends with whatever still runs.           *)
(***************************************************************************)
EXTENDS Naturals, Sequences

CONSTANTS
  Conns,    \* HTTP connections of ordinary requests
  Messages, MaxSent  \* of EventStream

VARIABLES
  main,      \* where main is
  exit,      \* how the process ended, "none" while it runs
  listener,  \* the ListenAndServe goroutine
  pending,   \* a signal in the channel sigc, which has room for one
  signalled, \* history: a signal arrived
  conn,      \* the state of each ordinary connection
  stdio,     \* the goroutine of StartStdio
  open, sent, at, name, fields, events  \* of EventStream

process == <<main, exit, listener, pending, signalled>>
streaming == <<open, sent, at, name, fields, events>>
vars == <<process, conn, stdio, streaming>>

\* The one event stream; its browser reconnects to no process.
Stream == INSTANCE EventStream

ASSUME MessagesAssumption == Messages \subseteq Seq(Stream!Text) \ {<<>>}
ASSUME MaxSentAssumption == MaxSent \in Nat

Mains == {"setup", "started", "waiting", "draining", "returned"}
Exits == {"none", "fatal", "killed", "drained", "deadline"}
Listeners == {"off", "starting", "serving", "closed", "returned"}
Running == exit = "none"

Init ==
  /\ main = "setup"
  /\ exit = "none"
  /\ listener = "off"
  /\ pending = FALSE
  /\ signalled = FALSE
  /\ conn = [c \in Conns |-> "none"]
  /\ stdio = "off"
  /\ Stream!Init
-----------------------------------------------------------------------------
\* Mistake: the goroutine that ends the process does not stop main.
ExitAlone(how) ==
  /\ exit' = how
  /\ IF Stream!Alive THEN Stream!Cut ELSE UNCHANGED streaming
  /\ UNCHANGED main

\* The process ends; the streams its handlers write are cut.
Exit(how) ==
  /\ exit' = how
  /\ main' = "returned"
  /\ IF Stream!Alive THEN Stream!Cut ELSE UNCHANGED streaming

\* A template directory that is missing or does not parse is fatal.
SetupFails ==
  /\ Running /\ main = "setup"
  /\ Exit("fatal")
  /\ UNCHANGED <<listener, pending, signalled, conn, stdio>>

\* main starts the goroutines, the MCP server only if it is asked for ...
StartGoroutines ==
  /\ Running /\ main = "setup"
  /\ main' = "started"
  /\ listener' = "starting"
  /\ stdio' \in {"off", "serving"}
  /\ UNCHANGED <<exit, pending, signalled, conn, streaming>>

\* ... and asks for signals after that.
Notify ==
  /\ Running /\ main = "started"
  /\ main' = "waiting"
  /\ UNCHANGED <<exit, listener, pending, signalled, conn, stdio, streaming>>

\* SIGINT or SIGTERM: fatal before Notify; later it waits in the channel for main,
\* or is dropped if one waits already.
Signal ==
  /\ Running
  /\ signalled' = TRUE
  /\ IF main \in {"setup", "started"}
     THEN Exit("killed") /\ UNCHANGED pending
     ELSE pending' = TRUE /\ UNCHANGED <<main, exit, streaming>>
  /\ UNCHANGED <<listener, conn, stdio>>

\* Mistake: the wait for the connections begins without closing the listener.
TakeSignalListening ==
  /\ Running /\ main = "waiting"
  /\ pending
  /\ pending' = FALSE
  /\ main' = "draining"
  /\ UNCHANGED <<exit, listener, signalled, conn, stdio, streaming>>

\* main receives the signal; Shutdown closes the listener and what is idle.
TakeSignal ==
  /\ Running /\ main = "waiting"
  /\ pending
  /\ pending' = FALSE
  /\ main' = "draining"
  /\ listener' = IF listener = "serving" THEN "closed" ELSE listener
  /\ conn' = [c \in Conns |-> IF conn[c] = "idle" THEN "closed" ELSE conn[c]]
  /\ UNCHANGED <<exit, signalled, stdio, streaming>>

\* Shutdown returns: no connection is new or active.
Drained ==
  /\ Running /\ main = "draining"
  /\ \A c \in Conns : conn[c] \notin {"new", "active"}
  /\ ~Stream!Alive
  /\ Exit("drained")
  /\ UNCHANGED <<listener, pending, signalled, conn, stdio>>

\* Mistake: Shutdown is given a context without a deadline.
NoDeadline ==
  /\ Running /\ main = "draining"
  /\ FALSE
  /\ Exit("deadline")
  /\ UNCHANGED <<listener, pending, signalled, conn, stdio>>

\* Shutdown's ten seconds are over; main logs the error and returns.
Deadline ==
  /\ Running /\ main = "draining"
  /\ Exit("deadline")
  /\ UNCHANGED <<listener, pending, signalled, conn, stdio>>
-----------------------------------------------------------------------------
\* ListenAndServe: it returns ErrServerClosed if Shutdown came first.
Listen ==
  /\ Running /\ listener = "starting"
  /\ listener' = IF main = "draining" THEN "closed" ELSE "serving"
  /\ UNCHANGED <<main, exit, pending, signalled, conn, stdio, streaming>>

\* The port is taken: log.Fatalf ends the process, MCP session included.
ListenFails ==
  /\ Running /\ listener = "starting"
  /\ Exit("fatal")
  /\ UNCHANGED <<listener, pending, signalled, conn, stdio>>

\* Serve gives up accepting: log.Fatalf again, whatever is being served.
ServeFails ==
  /\ Running /\ listener = "serving"
  /\ Exit("fatal")
  /\ UNCHANGED <<listener, pending, signalled, conn, stdio>>

\* Mistake: ErrServerClosed is treated like any other error.
ServeReturnsFatal ==
  /\ Running /\ listener = "closed"
  /\ listener' = "returned"
  /\ Exit("fatal")
  /\ UNCHANGED <<pending, signalled, conn, stdio>>

\* ErrServerClosed is the expected end of the goroutine.
ServeReturns ==
  /\ Running /\ listener = "closed"
  /\ listener' = "returned"
  /\ UNCHANGED <<main, exit, pending, signalled, conn, stdio, streaming>>

\* A connection is accepted, its request is read (also while Shutdown waits) and
\* answered, or its header does not come in time and it is closed.
Accept(c) ==
  /\ Running /\ listener = "serving"
  /\ conn[c] \in {"none", "closed"}
  /\ conn' = [conn EXCEPT ![c] = "new"]
  /\ UNCHANGED <<process, stdio, streaming>>

ReadRequest(c) ==
  /\ Running
  /\ conn[c] \in {"new", "idle"}
  /\ conn' = [conn EXCEPT ![c] = "active"]
  /\ UNCHANGED <<process, stdio, streaming>>

\* An answered connection is kept for the next request unless Shutdown has begun.
Answer(c) ==
  /\ Running
  /\ conn[c] = "active"
  /\ conn' = [conn EXCEPT ![c] = IF main = "draining" THEN "closed" ELSE "idle"]
  /\ UNCHANGED <<process, stdio, streaming>>

Hangup(c) ==
  /\ Running
  /\ conn[c] \in {"new", "idle"}
  /\ conn' = [conn EXCEPT ![c] = "closed"]
  /\ UNCHANGED <<process, stdio, streaming>>

\* The event stream: opened like any request, also during a shutdown if its
\* connection was accepted before, and served until the browser leaves.
StreamStep ==
  /\ Running
  /\ \/ listener = "serving" /\ Stream!Accept
     \/ Stream!Open
     \/ \E m \in Messages : Stream!Write(m)
     \/ Stream!Read
     \/ Stream!Cut
  /\ UNCHANGED <<process, conn, stdio>>

\* The MCP client closes the pipe: StartStdio returns, the process goes on.
EndOfStdin ==
  /\ Running /\ stdio = "serving"
  /\ stdio' = "off"
  /\ UNCHANGED <<process, conn, streaming>>

\* What the browser had received when the process ended, it still reads.
Exited == exit # "none" /\ UNCHANGED vars

Main == StartGoroutines \/ Notify \/ TakeSignal \/ Drained \/ Deadline

Next ==
  \/ SetupFails \/ Main \/ Signal
  \/ Listen \/ ListenFails \/ ServeFails \/ ServeReturns
  \/ \E c \in Conns : Accept(c) \/ ReadRequest(c) \/ Answer(c) \/ Hangup(c)
  \/ StreamStep
  \/ EndOfStdin
  \/ Exited

Spec == Init /\ [][Next]_vars

\* The main goroutine is scheduled and its timer fires.  Browsers, MCP clients and
\* even handlers need never do anything.
FairSpec == Spec /\ WF_vars(Main)
-----------------------------------------------------------------------------
\* Every variable has its type; main has returned exactly when the process ended.
TypeOK ==
  /\ main \in Mains
  /\ exit \in Exits
  /\ listener \in Listeners
  /\ pending \in BOOLEAN
  /\ signalled \in BOOLEAN
  /\ conn \in [Conns -> {"none", "new", "active", "idle", "closed"}]
  /\ stdio \in {"off", "serving"}
  /\ Stream!TypeOK
  /\ main = "returned" <=> exit # "none"

\* A shutdown only drains: from the signal on no connection is accepted, also when
\* the listener opens late, and no idle one is used again, so what Shutdown waits
\* for only gets less.  Requests may still be read, and the stream
\* opened, on connections accepted before.
Unfinished == {c \in Conns : conn[c] \in {"new", "active"}}
ShutdownOnlyDrains ==
  [][main = "draining" /\ main' = "draining" =>
       /\ Unfinished' \subseteq Unfinished
       /\ Stream!Alive' => Stream!Alive]_vars

\* A shutdown that has closed the listener is not cut short: neither by the
\* goroutine of ListenAndServe, which is fatal on any other error and returns
\* while requests are still served, nor by another signal.
ShutdownNotCutShort ==
  listener \in {"closed", "returned"} => exit \in {"none", "drained", "deadline"}

\* The events a browser sees stay in step with the messages sent to it, also when
\* the process ends in the middle of a frame.
EventsInStep == Stream!EventsInStep

\* A signal ends the process, whatever browsers and handlers do: an
\* event stream nobody closes holds the shutdown up to its deadline and no longer.
SignalEnds == signalled ~> exit # "none"
=============================================================================
