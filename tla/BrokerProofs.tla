---------------------------- MODULE BrokerProofs ----------------------------
(***************************************************************************)
(* Proofs about Broker, for any number of publishers, handlers, messages   *)
(* and ids and any capacity.                                               *)
(***************************************************************************)
EXTENDS Broker, TLAPS

\* What the lock protects.  Whoever has announced itself as the writer is in
\* Subscribe or cancel; a loop in progress visits registered clients only; ids
\* are handed out once, so a new channel is neither closed nor in use; and a
\* registered client belongs to one handler.
LockInv ==
  /\ \A h \in Handlers : hpc[h] \in {"subscribing", "cancelling"} <=> writer = h
  /\ \A p \in Publishers : p \in readers => msg[p] # None /\ pending[p] \subseteq clients
  /\ \A p \in Publishers : p \notin readers => pending[p] = {}
IdInv ==
  /\ clients \cap closed = {}
  /\ \A i \in clients \cup closed : i < nextID
  /\ \A i \in IDs \ clients : queue[i] = <<>>
HandlerInv == \A h \in Handlers : hid[h] = MaxID <=> hpc[h] \notin Draining
Inv == TypeOK /\ LockInv /\ IdInv /\ HandlerInv /\ OneHandlerPerClient

\* Subscribe and cancel run while nobody publishes; what Unlock hands over.
LEMMA UnlockGrants ==
  ASSUME TypeOK, LockInv, readers = {}, NEW cs \in SUBSET IDs, Unlock(cs),
         clients' = cs, msg' = msg
  PROVE  /\ writer' = None
         /\ readers' \subseteq Publishers
         /\ pending' \in [Publishers -> SUBSET IDs]
         /\ \A p \in Publishers : p \in readers' => msg'[p] # None /\ pending'[p] \subseteq clients'
         /\ \A p \in Publishers : p \notin readers' => pending'[p] = {}
  BY DEF Unlock, Waiting

\* The invariant holds at the start.
LEMMA InitInv == Init => Inv
  BY CapacityAssumption, MaxIDAssumption, MarkerAssumption
  DEF Init, Inv, TypeOK, LockInv, IdInv, HandlerInv, OneHandlerPerClient, HandlerPCs, Draining, IDs

\* Every step keeps the invariant.
LEMMA StepInv == Inv /\ [Next]_vars => Inv'
<1> SUFFICES ASSUME Inv, [Next]_vars PROVE Inv'
  OBVIOUS
<1> USE CapacityAssumption, MaxIDAssumption, MarkerAssumption DEF IDs
<1>1. ASSUME NEW p \in Publishers, NEW m \in Msgs, Publish(p, m) PROVE Inv'
  <2>1. m # None /\ msg' \in [Publishers -> Msgs \cup {None}] /\ msg'[p] = m
        /\ \A q \in Publishers : q # p => msg'[q] = msg[q]
    BY <1>1 DEF Inv, Publish, TypeOK
  <2>2. /\ readers' \subseteq Publishers
        /\ pending' \in [Publishers -> SUBSET IDs]
        /\ \A q \in Publishers : q # p =>
             (q \in readers' <=> q \in readers) /\ pending'[q] = pending[q]
        /\ p \in readers' => pending'[p] \subseteq clients
        /\ p \notin readers' => pending'[p] = {}
    <3>1. /\ readers \subseteq Publishers /\ clients \subseteq IDs
          /\ pending \in [Publishers -> SUBSET IDs]
      BY DEF Inv, TypeOK
    <3>2. p \in readers => pending[p] \subseteq clients
      BY DEF Inv, LockInv
    <3>3. p \notin readers => pending[p] = {}
      BY DEF Inv, LockInv
    <3>4. CASE writer = None
      BY <1>1, <3>1, <3>4 DEF Publish
    <3>5. CASE writer # None
      BY <1>1, <3>1, <3>2, <3>3, <3>5 DEF Publish
    <3> QED
      BY <3>4, <3>5
  <2>3. UNCHANGED <<broker, handling>>
    BY <1>1 DEF Publish
  <2>4. TypeOK'
    BY <2>1, <2>2, <2>3 DEF Inv, TypeOK, broker, handling
  <2>5. LockInv'
    BY <2>1, <2>2, <2>3 DEF Inv, LockInv, broker, handling
  <2> QED
    BY <2>3, <2>4, <2>5 DEF Inv, IdInv, HandlerInv, OneHandlerPerClient, broker, handling
<1>2. ASSUME NEW p \in Publishers, NEW i \in IDs, Send(p, i) PROVE Inv'
  <2>1. i \in clients /\ msg[p] \in Msgs
    BY <1>2 DEF Inv, Send, LockInv, TypeOK
  <2>2. queue' \in [IDs -> Seq(Msgs)]
    BY <1>2, <2>1 DEF Inv, Send, TypeOK
  <2>3. \A j \in IDs \ clients : queue'[j] = queue[j]
    BY <1>2, <2>1 DEF Inv, Send, TypeOK
  <2>4. pending' \in [Publishers -> SUBSET IDs] /\ \A q \in Publishers : pending'[q] \subseteq pending[q]
    BY <1>2 DEF Inv, Send, TypeOK
  <2>5. UNCHANGED <<nextID, clients, closed, readers, msg, handling>>
    BY <1>2 DEF Send
  <2>6. TypeOK'
    BY <2>2, <2>4, <2>5 DEF Inv, TypeOK, handling
  <2>7. LockInv'
    BY <2>4, <2>5 DEF Inv, LockInv, handling
  <2> QED
    BY <2>3, <2>5, <2>6, <2>7 DEF Inv, IdInv, HandlerInv, OneHandlerPerClient, handling
<1>3. ASSUME NEW p \in Publishers, Published(p) PROVE Inv'
  <2> USE <1>3 DEF Published, broker, handling
  <2>1. TypeOK'
    BY DEF Inv, TypeOK, HandlerPCs
  <2>2. LockInv'
    BY DEF Inv, TypeOK, LockInv
  <2>3. IdInv'
    BY DEF Inv, IdInv
  <2>4. HandlerInv'
    BY DEF Inv, TypeOK, HandlerInv, HandlerPCs, Draining
  <2>5. OneHandlerPerClient'
    BY DEF Inv, TypeOK, OneHandlerPerClient, HandlerPCs, Draining
  <2> QED
    BY <2>1, <2>2, <2>3, <2>4, <2>5 DEF Inv
<1>4. ASSUME NEW h \in Handlers, Connect(h) PROVE Inv'
  <2> USE <1>4 DEF Connect, broker, publishing
  <2>1. TypeOK'
    BY DEF Inv, TypeOK, HandlerPCs
  <2>2. LockInv'
    BY DEF Inv, TypeOK, LockInv
  <2>3. IdInv'
    BY DEF Inv, IdInv
  <2>4. HandlerInv'
    BY DEF Inv, TypeOK, HandlerInv, HandlerPCs, Draining
  <2>5. OneHandlerPerClient'
    BY DEF Inv, TypeOK, OneHandlerPerClient, HandlerPCs, Draining
  <2> QED
    BY <2>1, <2>2, <2>3, <2>4, <2>5 DEF Inv
<1>5. ASSUME NEW h \in Handlers, Lock(h) PROVE Inv'
  <2> USE <1>5 DEF Lock, broker, publishing
  <2>1. TypeOK'
    BY DEF Inv, TypeOK, HandlerPCs
  <2>2. LockInv'
    BY DEF Inv, TypeOK, LockInv
  <2>3. IdInv'
    BY DEF Inv, IdInv
  <2>4. HandlerInv'
    BY DEF Inv, TypeOK, HandlerInv, HandlerPCs, Draining
  <2>5. OneHandlerPerClient'
    BY DEF Inv, TypeOK, OneHandlerPerClient, HandlerPCs, Draining
  <2> QED
    BY <2>1, <2>2, <2>3, <2>4, <2>5 DEF Inv
<1>6. ASSUME NEW h \in Handlers, Subscribe(h) PROVE Inv'
  <2>1. nextID \in IDs /\ nextID \notin clients \cup closed
    BY <1>6 DEF Inv, Subscribe, TypeOK, IdInv
  <2>2. clients' \in SUBSET IDs
    BY <1>6, <2>1 DEF Inv, Subscribe, TypeOK
  <2>3. /\ hid' \in [Handlers -> IDs \cup {MaxID}] /\ hid'[h] = nextID
        /\ hpc' \in [Handlers -> HandlerPCs] /\ hpc'[h] = "loop"
        /\ \A g \in Handlers : g # h => hid'[g] = hid[g] /\ hpc'[g] = hpc[g]
    BY <1>6, <2>1 DEF Inv, Subscribe, TypeOK, HandlerPCs
  <2>4. writer = h
    BY <1>6 DEF Inv, Subscribe, LockInv
  <2>5. TypeOK' /\ LockInv'
    <3>1. Unlock(clients') /\ readers = {} /\ msg' = msg
      BY <1>6 DEF Subscribe
    <3>2. /\ writer' = None
          /\ readers' \subseteq Publishers
          /\ pending' \in [Publishers -> SUBSET IDs]
          /\ \A p \in Publishers : p \in readers' => msg'[p] # None /\ pending'[p] \subseteq clients'
          /\ \A p \in Publishers : p \notin readers' => pending'[p] = {}
      BY <2>2, <3>1, UnlockGrants DEF Inv
    <3>3. TypeOK'
      BY <1>6, <2>1, <2>2, <2>3, <3>2 DEF Inv, Subscribe, TypeOK
    <3>4. \A g \in Handlers : hpc'[g] \notin {"subscribing", "cancelling"}
      BY <2>3, <2>4 DEF Inv, LockInv
    <3> QED
      BY <3>2, <3>3, <3>4 DEF LockInv
  <2>6. IdInv'
    BY <1>6, <2>1 DEF Inv, Subscribe, TypeOK, IdInv
  <2>7. HandlerInv'
    BY <2>1, <2>3 DEF Inv, HandlerInv, Draining
  <2>8. OneHandlerPerClient'
    <3>1. clients' = clients \cup {nextID} /\ hpc[h] \notin Draining
      BY <1>6 DEF Subscribe, Draining
    <3>2. {g \in Handlers : hpc'[g] \in Draining} = {g \in Handlers : hpc[g] \in Draining} \cup {h}
      BY <2>3, <3>1 DEF Draining
    <3>3. \A g \in Handlers : hpc[g] \in Draining => hid[g] # nextID /\ hid[g] \in clients
      BY <2>1 DEF Inv, OneHandlerPerClient
    <3>4. clients' = {hid'[g] : g \in {f \in Handlers : hpc'[f] \in Draining}}
      BY <2>3, <3>1, <3>2 DEF Inv, OneHandlerPerClient
    <3>5. \A f, g \in Handlers : hpc'[f] \in Draining /\ hid'[f] = hid'[g] => f = g
      BY <2>1, <2>3, <3>1, <3>3 DEF Inv, HandlerInv, OneHandlerPerClient
    <3> QED
      BY <3>4, <3>5 DEF OneHandlerPerClient
  <2> QED
    BY <2>5, <2>6, <2>7, <2>8 DEF Inv
<1>7. ASSUME NEW h \in Handlers, Receive(h) PROVE Inv'
  <2>1. hid[h] \in clients
    BY <1>7 DEF Inv, Receive, OneHandlerPerClient, Draining
  <2>2. hid[h] \in IDs /\ queue[hid[h]] \in Seq(Msgs) /\ queue[hid[h]] # <<>>
    BY <1>7, <2>1 DEF Inv, Receive, TypeOK
  <2>3. queue' \in [IDs -> Seq(Msgs)] /\ \A j \in IDs \ clients : queue'[j] = queue[j]
    BY <1>7, <2>1, <2>2 DEF Inv, Receive, TypeOK
  <2>4. UNCHANGED <<nextID, clients, closed, publishing, handling>>
    BY <1>7 DEF Receive
  <2>5. TypeOK'
    BY <2>3, <2>4 DEF Inv, TypeOK, publishing, handling
  <2>6. LockInv'
    BY <2>4 DEF Inv, LockInv, publishing, handling
  <2>7. IdInv'
    BY <2>3, <2>4 DEF Inv, IdInv
  <2>8. HandlerInv' /\ OneHandlerPerClient'
    BY <2>4 DEF Inv, HandlerInv, OneHandlerPerClient, handling
  <2> QED
    BY <2>5, <2>6, <2>7, <2>8 DEF Inv
<1>8. ASSUME NEW h \in Handlers, Leave(h) PROVE Inv'
  <2> USE <1>8 DEF Leave, broker, publishing
  <2>1. TypeOK'
    BY DEF Inv, TypeOK, HandlerPCs
  <2>2. LockInv'
    BY DEF Inv, TypeOK, LockInv
  <2>3. IdInv'
    BY DEF Inv, IdInv
  <2>4. HandlerInv'
    BY DEF Inv, TypeOK, HandlerInv, HandlerPCs, Draining
  <2>5. OneHandlerPerClient'
    BY DEF Inv, TypeOK, OneHandlerPerClient, HandlerPCs, Draining
  <2> QED
    BY <2>1, <2>2, <2>3, <2>4, <2>5 DEF Inv
<1>9. ASSUME NEW h \in Handlers, Cancel(h) PROVE Inv'
  <2>1. hid[h] \in clients
    BY <1>9 DEF Inv, Cancel, OneHandlerPerClient, Draining
  <2>2. clients' = clients \ {hid[h]} /\ closed' = closed \cup {hid[h]}
    BY <1>9, <2>1 DEF Cancel
  <2>3. /\ hid' \in [Handlers -> IDs \cup {MaxID}] /\ hid'[h] = MaxID
        /\ hpc' \in [Handlers -> HandlerPCs] /\ hpc'[h] = "off"
        /\ \A g \in Handlers : g # h => hid'[g] = hid[g] /\ hpc'[g] = hpc[g]
    BY <1>9 DEF Inv, Cancel, TypeOK, HandlerPCs
  <2>4. hid[h] \in IDs /\ queue' \in [IDs -> Seq(Msgs)] /\ queue'[hid[h]] = <<>>
        /\ \A i \in IDs : i # hid[h] => queue'[i] = queue[i]
    BY <1>9, <2>1 DEF Inv, Cancel, TypeOK
  <2>5. TypeOK' /\ LockInv'
    <3>1. Unlock(clients') /\ readers = {} /\ msg' = msg /\ writer = h
      BY <1>9 DEF Inv, LockInv, Cancel
    <3>2. clients' \in SUBSET IDs
      BY <2>2 DEF Inv, TypeOK
    <3>3. /\ writer' = None
          /\ readers' \subseteq Publishers
          /\ pending' \in [Publishers -> SUBSET IDs]
          /\ \A p \in Publishers : p \in readers' => msg'[p] # None /\ pending'[p] \subseteq clients'
          /\ \A p \in Publishers : p \notin readers' => pending'[p] = {}
      BY <3>1, <3>2, UnlockGrants DEF Inv
    <3>4. TypeOK'
      BY <1>9, <2>2, <2>3, <2>4, <3>2, <3>3 DEF Inv, Cancel, TypeOK
    <3>5. \A g \in Handlers : hpc'[g] \notin {"subscribing", "cancelling"}
      BY <2>3, <3>1 DEF Inv, LockInv
    <3> QED
      BY <3>3, <3>4, <3>5 DEF LockInv
  <2>6. IdInv'
    BY <1>9, <2>2, <2>1, <2>4 DEF Inv, Cancel, TypeOK, IdInv
  <2>7. HandlerInv'
    BY <2>3 DEF Inv, HandlerInv, Draining
  <2>8. OneHandlerPerClient'
    <3>1. hpc[h] \in Draining
      BY <1>9 DEF Cancel, Draining
    <3>2. {g \in Handlers : hpc'[g] \in Draining} = {g \in Handlers : hpc[g] \in Draining} \ {h}
      BY <2>3 DEF Draining
    <3>3. \A g \in Handlers : g # h => hid[g] # hid[h]
      BY <3>1 DEF Inv, OneHandlerPerClient
    <3>4. clients' = {hid'[g] : g \in {f \in Handlers : hpc'[f] \in Draining}}
      BY <2>2, <2>3, <3>2, <3>3 DEF Inv, OneHandlerPerClient
    <3>5. \A f, g \in Handlers : hpc'[f] \in Draining /\ hid'[f] = hid'[g] => f = g
      BY <2>3, <2>4, <3>3 DEF Inv, HandlerInv, OneHandlerPerClient, Draining
    <3> QED
      BY <3>4, <3>5 DEF OneHandlerPerClient
  <2> QED
    BY <2>5, <2>6, <2>7, <2>8 DEF Inv
<1>10. ASSUME NEW h \in Handlers, Disconnect(h) PROVE Inv'
  <2> USE <1>10 DEF Disconnect, broker, publishing
  <2>1. TypeOK'
    BY DEF Inv, TypeOK, HandlerPCs
  <2>2. LockInv'
    BY DEF Inv, TypeOK, LockInv
  <2>3. IdInv'
    BY DEF Inv, IdInv
  <2>4. HandlerInv'
    BY DEF Inv, TypeOK, HandlerInv, HandlerPCs, Draining
  <2>5. OneHandlerPerClient'
    BY DEF Inv, TypeOK, OneHandlerPerClient, HandlerPCs, Draining
  <2> QED
    BY <2>1, <2>2, <2>3, <2>4, <2>5 DEF Inv
<1>11. CASE UNCHANGED vars
  <2> USE <1>11 DEF vars, broker, publishing, handling
  <2>1. TypeOK'
    BY DEF Inv, TypeOK
  <2>2. LockInv' /\ IdInv'
    BY DEF Inv, LockInv, IdInv
  <2>3. HandlerInv' /\ OneHandlerPerClient'
    BY DEF Inv, HandlerInv, OneHandlerPerClient
  <2> QED
    BY <2>1, <2>2, <2>3 DEF Inv
<1> QED
  BY <1>1, <1>2, <1>3, <1>4, <1>5, <1>6, <1>7, <1>8, <1>9, <1>10, <1>11 DEF Next

\* The inductive invariant holds in every reachable state of the broker.
THEOREM Invariance == Spec => []Inv
  BY InitInv, StepInv, PTL DEF Spec

\* The broker's variables keep their types, and who holds the read lock has a
\* message to publish.
THEOREM TypeCorrect == Spec => []TypeOK
<1>1. Inv => TypeOK
  BY DEF Inv
<1> QED
  BY <1>1, Invariance, PTL

\* Publish never sends on a channel that cancel has closed, so no order of
\* Subscribe, cancel and Publish calls makes the process panic.
THEOREM SendsAreSafe == Spec => []NoSendOnClosed
<1>1. Inv => NoSendOnClosed
  BY DEF Inv, LockInv, IdInv, TypeOK, NoSendOnClosed
<1> QED
  BY <1>1, Invariance, PTL

\* Every registered client is drained by exactly one handler.
THEOREM ClientsAreOwned == Spec => []OneHandlerPerClient
<1>1. Inv => OneHandlerPerClient
  BY DEF Inv
<1> QED
  BY <1>1, Invariance, PTL
-----------------------------------------------------------------------------
Offered(p) == IF p \in readers THEN msg[p] ELSE None

\* A broker without publishers, clients and messages is an empty Fanout.
LEMMA AbstractInit == Init => Abstract!Init
  BY DEF Init, Abstract!Init

\* What Unlock hands over is the start of the publications that waited.
LEMMA UnlockStarts ==
  ASSUME TypeOK, LockInv, readers = {}, Unlock(clients'), msg' = msg
  PROVE  Abstract!Quiet /\ Abstract!Start
<1>1. Waiting \in SUBSET Publishers /\ msg \in [Publishers -> Msgs \cup {None}]
  BY DEF Waiting, TypeOK
<1>2. \A p \in Waiting : Offered(p) = None /\ msg[p] # None
  BY DEF Offered, Waiting
<1>3. \A p \in Publishers : Offered(p)' = IF p \in Waiting THEN msg[p] ELSE Offered(p)
  BY DEF Offered, Unlock
<1>4. pending' = [p \in Publishers |-> IF p \in Waiting THEN clients' ELSE pending[p]]
  BY DEF Unlock, LockInv
<1>5. Abstract!Start
  BY <1>1, <1>2, <1>3, <1>4 DEF Abstract!Start, Offered
<1>6. Abstract!Quiet
  BY DEF Abstract!Quiet
<1> QED
  BY <1>5, <1>6

\* Every step of the broker is a step of Fanout or changes nothing of it.
LEMMA AbstractStep == Inv /\ [Next]_vars => [Abstract!Next]_(Abstract!vars)
<1> SUFFICES ASSUME Inv, [Next]_vars PROVE Abstract!Next \/ UNCHANGED Abstract!vars
  OBVIOUS
<1> USE MaxIDAssumption, MarkerAssumption DEF IDs
<1>1. ASSUME NEW p \in Publishers, NEW m \in Msgs, Publish(p, m)
      PROVE Abstract!Next \/ UNCHANGED Abstract!vars
  <2>1. p \notin readers /\ UNCHANGED <<clients, queue>>
    BY <1>1 DEF Inv, LockInv, Publish, broker
  <2>2. CASE writer = None
    <3>1. \A q \in Publishers : Offered(q)' = IF q \in {p} THEN m ELSE Offered(q)
      BY <1>1, <2>2 DEF Publish, Offered, Inv, TypeOK
    <3>2. pending' = [q \in Publishers |-> IF q \in {p} THEN clients' ELSE pending[q]]
      BY <1>1, <2>1, <2>2 DEF Publish, Inv, TypeOK
    <3>3. [q \in Publishers |-> m] \in [Publishers -> Msgs \cup {None}] /\ m # None
      OBVIOUS
    <3>4. Abstract!Start
      BY <2>1, <3>1, <3>2, <3>3 DEF Abstract!Start, Offered
    <3> QED
      BY <2>1, <3>4 DEF Abstract!Begin, Abstract!Next
  <2>3. CASE writer # None
    <3>1. \A q \in Publishers : Offered(q)' = Offered(q)
      BY <1>1, <2>1, <2>3 DEF Publish, Offered, Inv, TypeOK
    <3> QED
      BY <1>1, <2>1, <2>3, <3>1 DEF Publish, Abstract!vars, Offered
  <2> QED
    BY <2>2, <2>3
<1>2. ASSUME NEW p \in Publishers, NEW i \in IDs, Send(p, i) PROVE Abstract!Offer(p, i)
  BY <1>2 DEF Send, Abstract!Offer, Inv, LockInv, handling
<1>3. ASSUME NEW p \in Publishers, Published(p) PROVE Abstract!Finish(p)
  <2>1. \A q \in Publishers : Offered(q)' = IF q = p THEN None ELSE Offered(q)
    BY <1>3 DEF Published, Offered, Inv, TypeOK
  <2> QED
    BY <1>3, <2>1 DEF Published, Abstract!Finish, Offered, broker, Inv, LockInv
<1>4. ASSUME NEW h \in Handlers, Connect(h) \/ Lock(h) \/ Leave(h) \/ Disconnect(h)
      PROVE UNCHANGED Abstract!vars
  BY <1>4 DEF Connect, Lock, Leave, Disconnect, broker, publishing, Abstract!vars
<1>5. ASSUME NEW h \in Handlers, Subscribe(h) PROVE Abstract!Join(nextID)
  <2>1. nextID \in IDs \ clients
    BY <1>5 DEF Subscribe, Inv, TypeOK, IdInv
  <2>2. queue[nextID] = <<>>
    BY <2>1 DEF Inv, IdInv
  <2>3. Abstract!Quiet /\ Abstract!Start
    BY <1>5, UnlockStarts DEF Inv, Subscribe
  <2> QED
    BY <1>5, <2>1, <2>2, <2>3 DEF Subscribe, Abstract!Join
<1>6. ASSUME NEW h \in Handlers, Receive(h) PROVE Abstract!Take(hid[h])
  <2>1. hid[h] \in clients
    BY <1>6 DEF Receive, Inv, OneHandlerPerClient, Draining
  <2> QED
    BY <1>6, <2>1 DEF Receive, Abstract!Take, publishing
<1>7. ASSUME NEW h \in Handlers, Cancel(h) PROVE Abstract!Quit(hid[h])
  <2>1. hid[h] \in clients
    BY <1>7 DEF Cancel, Inv, OneHandlerPerClient, Draining
  <2>2. Abstract!Quiet /\ Abstract!Start
    BY <1>7, UnlockStarts DEF Inv, Cancel
  <2> QED
    BY <1>7, <2>1, <2>2 DEF Cancel, Abstract!Quit
<1>8. CASE UNCHANGED vars
  BY <1>8 DEF vars, broker, publishing, handling, Abstract!vars
<1>9. \A h \in Handlers : hid[h] \in clients => hid[h] \in IDs
  BY DEF Inv, TypeOK
<1>10. ASSUME NEW h \in Handlers, Receive(h) \/ Cancel(h) PROVE hid[h] \in IDs
  BY <1>10, <1>9 DEF Receive, Cancel, Inv, OneHandlerPerClient, Draining
<1>11. ASSUME NEW h \in Handlers, Subscribe(h) PROVE nextID \in IDs
  BY <1>11 DEF Subscribe, Inv, TypeOK
<1> QED
  BY <1>1, <1>2, <1>3, <1>4, <1>5, <1>6, <1>7, <1>8, <1>10, <1>11 DEF Next, Abstract!Next

\* The broker implements Fanout: whatever the lock's handovers, every message is
\* offered once to each of exactly the clients registered when its publication
\* began, and nobody joins or leaves during it.
THEOREM Refinement == Spec => ImplementsFanout
<1>1. Inv /\ [Next]_vars => [Abstract!Next]_(Abstract!vars)
  BY AbstractStep
<1> QED
  BY <1>1, AbstractInit, Invariance, PTL DEF Spec, ImplementsFanout, Abstract!Spec
=============================================================================
