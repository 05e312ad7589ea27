------------------------------- MODULE Broker -------------------------------
(***************************************************************************)
(* The broker (internal/stream) between the engine's workers, which        *)
(* publish HTML, and the /stream handlers (internal/engine), each of which *)
(* serves one browser's event stream after another.                        *)
(*                                                                         *)
(* sync.RWMutex as the broker uses it: a writer announces itself and then  *)
(* waits for the readers that hold the lock; from the announcement on new  *)
(* readers wait.  One writer is announced at a time.  The body of          *)
(* Subscribe and of its cancel callback runs under the write lock and is   *)
(* one action; Publish holds the read lock across one send per client.     *)
(***************************************************************************)
EXTENDS Naturals, Sequences, FiniteSets

CONSTANTS
  Publishers,  \* goroutines that call Publish
  Handlers,    \* goroutines that serve GET /stream
  Msgs,        \* published HTML
  Capacity,    \* size of a client's channel, 16 in the code
  MaxID,       \* bound on the client ids handed out, a model bound
  None

ASSUME CapacityAssumption == Capacity \in Nat \ {0}
ASSUME MaxIDAssumption == MaxID \in Nat
ASSUME MarkerAssumption == None \notin Handlers /\ None \notin Msgs

IDs == 0 .. MaxID - 1

VARIABLES
  nextID,    \* Broker.nextID
  clients,   \* the ids with a channel in Broker.clients
  queue,     \* the buffered messages of each channel
  closed,    \* the ids whose channel was closed
  writer,    \* the handler whose Lock is announced, or None
  readers,   \* the publishers that hold the read lock
  pending,   \* the clients a publisher's loop has still to visit
  msg,       \* the message a publisher publishes, None when it does not
  hpc,       \* where a handler is
  hid,       \* the id of a handler's subscription, MaxID when it has none
  gone       \* the handlers whose request context is done

broker == <<nextID, clients, queue, closed>>
publishing == <<readers, pending, msg>>
handling == <<writer, hpc, hid, gone>>
vars == <<broker, publishing, handling>>

HandlerPCs == {"off", "connected", "subscribing", "loop", "cancel", "cancelling"}

Init ==
  /\ nextID = 0
  /\ clients = {}
  /\ queue = [i \in IDs |-> <<>>]
  /\ closed = {}
  /\ writer = None
  /\ readers = {}
  /\ pending = [p \in Publishers |-> {}]
  /\ msg = [p \in Publishers |-> None]
  /\ hpc = [h \in Handlers |-> "off"]
  /\ hid = [h \in Handlers |-> MaxID]
  /\ gone = {}
-----------------------------------------------------------------------------
\* Mistake: no read lock, the loop starts whoever is announced.
PublishUnlocked(p, m) ==
  /\ msg[p] = None
  /\ msg' = [msg EXCEPT ![p] = m]
  /\ readers' = readers \cup {p}
  /\ pending' = [pending EXCEPT ![p] = clients]
  /\ UNCHANGED <<broker, handling>>

\* Publish.  The engine may publish at any time; the read lock is there at once
\* unless a writer is announced.
Publish(p, m) ==
  /\ msg[p] = None
  /\ msg' = [msg EXCEPT ![p] = m]
  /\ IF writer = None
     THEN /\ readers' = readers \cup {p}
          /\ pending' = [pending EXCEPT ![p] = clients]
     ELSE UNCHANGED <<readers, pending>>
  /\ UNCHANGED <<broker, handling>>

\* Unlock: the publishers that wait for the read lock get it before the next
\* writer does; cs are the clients they find.
Waiting == {p \in Publishers : msg[p] # None /\ p \notin readers}
Unlock(cs) ==
  /\ writer' = None
  /\ readers' = Waiting
  /\ pending' = [p \in Publishers |-> IF p \in Waiting THEN cs ELSE {}]

\* Mistakes: the send waits for room; a full channel's oldest message is dropped.
SendBlocks(p, i) ==
  /\ p \in readers
  /\ i \in pending[p]
  /\ Len(queue[i]) < Capacity
  /\ queue' = [queue EXCEPT ![i] = Append(@, msg[p])]
  /\ pending' = [pending EXCEPT ![p] = @ \ {i}]
  /\ UNCHANGED <<nextID, clients, closed, readers, msg, handling>>

SendDropsOldest(p, i) ==
  /\ p \in readers
  /\ i \in pending[p]
  /\ queue' = [queue EXCEPT ![i] = Append(IF Len(@) < Capacity THEN @ ELSE Tail(@), msg[p])]
  /\ pending' = [pending EXCEPT ![p] = @ \ {i}]
  /\ UNCHANGED <<nextID, clients, closed, readers, msg, handling>>

\* The loop visits the clients in Go's random map order; a full channel takes
\* the select's default branch and misses the message.
Send(p, i) ==
  /\ p \in readers
  /\ i \in pending[p]
  /\ queue' = IF Len(queue[i]) < Capacity
              THEN [queue EXCEPT ![i] = Append(@, msg[p])] ELSE queue
  /\ pending' = [pending EXCEPT ![p] = @ \ {i}]
  /\ UNCHANGED <<nextID, clients, closed, readers, msg, handling>>

\* Mistake: Publish returns with the read lock.
PublishedLocked(p) ==
  /\ p \in readers
  /\ pending[p] = {}
  /\ msg' = [msg EXCEPT ![p] = None]
  /\ UNCHANGED <<broker, readers, pending, handling>>

\* Every client was visited: Publish returns and its read lock is released.
Published(p) ==
  /\ p \in readers
  /\ pending[p] = {}
  /\ readers' = readers \ {p}
  /\ msg' = [msg EXCEPT ![p] = None]
  /\ UNCHANGED <<broker, pending, handling>>
-----------------------------------------------------------------------------
\* GET /stream: the comment frame is written and flushed first ...
Unsubscribed == {h \in Handlers : hpc[h] \in {"connected", "subscribing"}}
Connect(h) ==
  /\ hpc[h] = "off"
  /\ nextID + Cardinality(Unsubscribed) < MaxID
  /\ hpc' = [hpc EXCEPT ![h] = "connected"]
  /\ UNCHANGED <<broker, publishing, writer, hid, gone>>

\* ... then Subscribe (and, at the end, cancel) asks for the write lock.
Lock(h) ==
  /\ hpc[h] \in {"connected", "cancel"}
  /\ writer = None
  /\ writer' = h
  /\ hpc' = [hpc EXCEPT ![h] = IF @ = "connected" THEN "subscribing" ELSE "cancelling"]
  /\ UNCHANGED <<broker, publishing, hid, gone>>

Subscribe(h) ==
  /\ hpc[h] = "subscribing"
  /\ readers = {}
  /\ nextID < MaxID
  /\ nextID' = nextID + 1
  /\ clients' = clients \cup {nextID}
  /\ hid' = [hid EXCEPT ![h] = nextID]
  /\ hpc' = [hpc EXCEPT ![h] = "loop"]
  /\ Unlock(clients')
  /\ UNCHANGED <<queue, closed, msg, gone>>

\* The loop's select: a message is sent on to the browser ...
Receive(h) ==
  /\ hpc[h] = "loop"
  /\ queue[hid[h]] # <<>>
  /\ queue' = [queue EXCEPT ![hid[h]] = Tail(@)]
  /\ UNCHANGED <<nextID, clients, closed, publishing, handling>>

\* Mistake: the loop watches the channel only, which nobody else closes.
OverIfClosed(h) == hid[h] \in closed /\ queue[hid[h]] = <<>>

\* ... or the handler returns: the context is done, or its channel is closed and
\* drained.
Over(h) == h \in gone \/ (hid[h] \in closed /\ queue[hid[h]] = <<>>)
Leave(h) ==
  /\ hpc[h] = "loop"
  /\ Over(h)
  /\ hpc' = [hpc EXCEPT ![h] = "cancel"]
  /\ UNCHANGED <<broker, publishing, writer, hid, gone>>

\* Mistakes: the channel is closed while publishers hold the lock; the channel
\* stays registered.
CancelUnlocked(h) ==
  /\ hpc[h] = "cancelling"
  /\ closed' = closed \cup ({hid[h]} \cap clients)
  /\ clients' = clients \ {hid[h]}
  /\ writer' = None
  /\ hpc' = [hpc EXCEPT ![h] = "off"]
  /\ hid' = [hid EXCEPT ![h] = MaxID]
  /\ queue' = [queue EXCEPT ![hid[h]] = <<>>]
  /\ gone' = gone \ {h}
  /\ UNCHANGED <<nextID, publishing>>

CancelForgotten(h) ==
  /\ hpc[h] = "cancelling"
  /\ readers = {}
  /\ Unlock(clients)
  /\ hpc' = [hpc EXCEPT ![h] = "off"]
  /\ hid' = [hid EXCEPT ![h] = MaxID]
  /\ gone' = gone \ {h}
  /\ UNCHANGED <<nextID, clients, queue, closed, msg>>

\* The callback Subscribe returned, deferred by the handler; nobody reads what is
\* left in the channel.
Cancel(h) ==
  /\ hpc[h] = "cancelling"
  /\ readers = {}
  /\ closed' = closed \cup ({hid[h]} \cap clients)
  /\ clients' = clients \ {hid[h]}
  /\ Unlock(clients')
  /\ hpc' = [hpc EXCEPT ![h] = "off"]
  /\ hid' = [hid EXCEPT ![h] = MaxID]
  /\ queue' = [queue EXCEPT ![hid[h]] = <<>>]
  /\ gone' = gone \ {h}
  /\ UNCHANGED <<nextID, msg>>

\* The browser goes away (or the server closes the connection).
Disconnect(h) ==
  /\ hpc[h] # "off"
  /\ h \notin gone
  /\ gone' = gone \cup {h}
  /\ UNCHANGED <<broker, publishing, writer, hpc, hid>>
-----------------------------------------------------------------------------
Next ==
  \/ \E p \in Publishers, m \in Msgs : Publish(p, m)
  \/ \E p \in Publishers : Published(p) \/ \E i \in IDs : Send(p, i)
  \/ \E h \in Handlers :
       Connect(h) \/ Lock(h) \/ Subscribe(h) \/ Receive(h) \/ Leave(h)
       \/ Cancel(h) \/ Disconnect(h)

Spec == Init /\ [][Next]_vars

\* Goroutines that can run do run, and a Go mutex serves a waiter that is passed
\* over (starvation mode).  Nothing is assumed of browsers: a handler that is
\* stuck writing to one need never receive again.
FairSpec ==
  /\ Spec
  /\ \A p \in Publishers : WF_vars(Published(p) \/ \E i \in IDs : Send(p, i))
  /\ \A h \in Handlers : WF_vars(Subscribe(h)) /\ WF_vars(Leave(h)) /\ WF_vars(Cancel(h))
  /\ \A h \in Handlers : SF_vars(Lock(h))
-----------------------------------------------------------------------------

\* Every variable has its type; who holds the read lock is publishing.
TypeOK ==
  /\ nextID \in 0 .. MaxID
  /\ clients \subseteq IDs
  /\ queue \in [IDs -> Seq(Msgs)]
  /\ closed \subseteq IDs
  /\ writer \in Handlers \cup {None}
  /\ readers \subseteq Publishers
  /\ pending \in [Publishers -> SUBSET IDs]
  /\ msg \in [Publishers -> Msgs \cup {None}]
  /\ hpc \in [Handlers -> HandlerPCs]
  /\ hid \in [Handlers -> IDs \cup {MaxID}]
  /\ gone \subseteq Handlers
  /\ \A p \in readers : msg[p] # None

\* A publisher never sends on a closed channel, which would end the process:
\* every client its loop has still to visit is registered and open.
NoSendOnClosed == \A p \in readers : pending[p] \subseteq clients \ closed

\* A registered client has a handler that drains it, its own and no other's; a
\* channel is never registered without a handler (it would fill and stay).
Draining == {"loop", "cancel", "cancelling"}
OneHandlerPerClient ==
  /\ clients = {hid[h] : h \in {g \in Handlers : hpc[g] \in Draining}}
  /\ \A g, h \in Handlers : hpc[g] \in Draining /\ hid[g] = hid[h] => g = h

\* The lock makes a publication atomic towards Subscribe and cancel: every
\* message is offered once to each of exactly the clients registered when
\* Publish got the lock.
Abstract == INSTANCE Fanout WITH
  Subscribers <- IDs, members <- clients, inbox <- queue, rest <- pending,
  offer <- [p \in Publishers |-> IF p \in readers THEN msg[p] ELSE None]
ImplementsFanout == Abstract!Spec

\* Publish returns, whatever browsers do: a full channel, a handler that never
\* receives again or one that waits for the lock does not hold it up.
PublishReturns == \A p \in Publishers : msg[p] # None ~> msg[p] = None

\* A handler whose browser has gone gives its subscription up, however many
\* publishers keep publishing.
GoneUnsubscribes == \A h \in Handlers : h \in gone ~> hpc[h] = "off"

\* engine.go:584 tells the browser it is connected and http_test.go:165-210
\* expects the update it then triggers: a stream that was opened before a publish
\* begins is among its clients.
OpenStreamsHear ==
  [][\A p \in Publishers : p \notin readers /\ p \in readers' =>
       \A h \in Handlers \ gone : hpc[h] \in {"connected", "subscribing", "loop"} =>
         hpc'[h] = "loop" /\ hid'[h] \in pending'[p]]_vars
=============================================================================
