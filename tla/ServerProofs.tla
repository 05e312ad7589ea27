---------------------------- MODULE ServerProofs ----------------------------
(***************************************************************************)
(* Proofs about Server, for any number of connections and any messages:    *)
(* the shutdown, then the event stream, whose events stay in step with its *)
(* messages.                                                               *)
(***************************************************************************)
EXTENDS Server, SequenceTheorems, TLAPS

\* What the shutdown relies on.  Nothing listens before main has started the
\* goroutines, and the listener is not closed before main drains; once it does, the
\* listener is closed or will be as soon as it opens, and no connection is idle, so
\* none can start a request.
DrainInv ==
  /\ conn \in [Conns -> {"none", "new", "active", "idle", "closed"}]
  /\ main = "setup" => listener = "off"
  /\ main \in {"started", "waiting"} => listener \notin {"closed", "returned"}
  /\ main = "draining" => listener # "serving" /\ \A c \in Conns : conn[c] # "idle"
  /\ main = "returned" <=> exit # "none"
Inv == DrainInv /\ ShutdownNotCutShort

\* The invariant holds when the process starts.
LEMMA InitInv == Init => Inv
  BY DEF Init, Inv, DrainInv, ShutdownNotCutShort

\* What a step does to the variables of the invariant.
LEMMA StepInv == Inv /\ [Next]_vars => Inv'
<1> SUFFICES ASSUME Inv, [Next]_vars PROVE Inv'
  OBVIOUS
<1> USE DEF Inv, DrainInv, ShutdownNotCutShort, Running
<1>1. SetupFails => Inv'
  BY DEF SetupFails, Exit
<1>2. StartGoroutines \/ Notify => Inv'
  BY DEF StartGoroutines, Notify
<1>3. Signal => Inv'
  BY DEF Signal, Exit
<1>4. ASSUME TakeSignal PROVE Inv'
  <2>1. conn' \in [Conns -> {"none", "new", "active", "idle", "closed"}]
    BY <1>4 DEF TakeSignal
  <2>2. \A c \in Conns : conn'[c] # "idle"
    BY <1>4 DEF TakeSignal
  <2> QED
    BY <1>4, <2>1, <2>2 DEF TakeSignal
<1>5. Drained \/ Deadline => Inv'
  BY DEF Drained, Deadline, Exit
<1>6. Listen \/ ServeReturns => Inv'
  BY DEF Listen, ServeReturns
<1>7. ListenFails \/ ServeFails => Inv'
  BY DEF ListenFails, ServeFails, Exit
<1>8. ASSUME NEW c \in Conns, Accept(c) \/ ReadRequest(c) \/ Answer(c) \/ Hangup(c)
      PROVE  Inv'
  <2>1. UNCHANGED process
    BY <1>8 DEF Accept, ReadRequest, Answer, Hangup
  <2>2. conn' \in [Conns -> {"none", "new", "active", "idle", "closed"}]
    BY <1>8 DEF Accept, ReadRequest, Answer, Hangup
  <2>3. main = "draining" => \A d \in Conns : conn'[d] # "idle"
    BY <1>8 DEF Accept, ReadRequest, Answer, Hangup
  <2> QED
    BY <2>1, <2>2, <2>3 DEF process
<1>9. StreamStep \/ EndOfStdin \/ Exited \/ UNCHANGED vars => Inv'
  BY DEF StreamStep, EndOfStdin, Exited, vars, process
<1> QED
  BY <1>1, <1>2, <1>3, <1>4, <1>5, <1>6, <1>7, <1>8, <1>9 DEF Next, Main

\* The invariant holds as long as the process runs.
THEOREM Invariance == Spec => []Inv
  BY InitInv, StepInv, PTL DEF Spec

\* Once Shutdown has closed the listener, the process ends when the connections are
\* drained or the deadline has come.
THEOREM NothingCutsShutdownShort == Spec => []ShutdownNotCutShort
<1>1. Inv => ShutdownNotCutShort
  BY DEF Inv
<1> QED
  BY <1>1, Invariance, PTL

\* A step of a shutdown takes up no connection, nor the stream's.
LEMMA Drains ==
  ASSUME Inv, [Next]_vars, main = "draining", main' = "draining"
  PROVE  Unfinished' \subseteq Unfinished /\ (Stream!Alive' => Stream!Alive)
<1> USE DEF Inv, DrainInv, Unfinished, Stream!Alive
<1>1. SetupFails \/ StartGoroutines \/ Notify \/ TakeSignal \/ ServeFails => FALSE
  BY DEF SetupFails, StartGoroutines, Notify, TakeSignal, ServeFails
<1>2. Signal \/ Drained \/ Deadline \/ Listen \/ ListenFails \/ ServeReturns
      => UNCHANGED <<conn, open>>
  BY DEF Signal, Drained, Deadline, Listen, ListenFails, ServeReturns, Exit, streaming
<1>3. ASSUME NEW c \in Conns, Accept(c) \/ ReadRequest(c) \/ Answer(c) \/ Hangup(c)
      PROVE  Unfinished' \subseteq Unfinished /\ UNCHANGED open
  BY <1>3 DEF Accept, ReadRequest, Answer, Hangup, streaming
<1>4. StreamStep => UNCHANGED conn /\ (Stream!Alive' => Stream!Alive)
  BY DEF StreamStep, Stream!Accept, Stream!Open, Stream!Write, Stream!Read, Stream!Cut
<1>5. EndOfStdin \/ Exited \/ UNCHANGED vars => UNCHANGED <<conn, open>>
  BY DEF EndOfStdin, Exited, vars, streaming
<1> QED
  BY <1>1, <1>2, <1>3, <1>4, <1>5 DEF Next, Main

\* From the signal on, what Shutdown waits for only gets less, however many
\* connections are open and whenever the listener opens.
THEOREM ShutdownsDrain == Spec => ShutdownOnlyDrains
<1>1. Inv /\ [Next]_vars =>
        [main = "draining" /\ main' = "draining" =>
           /\ Unfinished' \subseteq Unfinished
           /\ Stream!Alive' => Stream!Alive]_vars
  BY Drains
<1> QED
  BY <1>1, Invariance, PTL DEF Spec, ShutdownOnlyDrains
-----------------------------------------------------------------------------
\* Short sequences.
LEMMA OneElement ==
  ASSUME NEW S, NEW x \in S
  PROVE  /\ <<x>> \in Seq(S) /\ Len(<<x>>) = 1 /\ <<x>>[1] = x
         /\ <<x>> # <<>> /\ DOMAIN <<x>> = 1 .. 1
  OBVIOUS

LEMMA TwoElements ==
  ASSUME NEW S, NEW x \in S, NEW y \in S
  PROVE  <<x, y>> \in Seq(S) /\ Len(<<x, y>>) = 2 /\ <<x, y>>[1] = x /\ <<x, y>>[2] = y
  OBVIOUS

LEMMA ThreeParts ==
  ASSUME NEW S, NEW a \in Seq(S), NEW b \in Seq(S), NEW c \in Seq(S)
  PROVE  /\ (a \o b) \o c \in Seq(S)
         /\ Len((a \o b) \o c) = Len(a) + Len(b) + Len(c)
         /\ \A i \in 1 .. Len(a) + Len(b) + Len(c) : ((a \o b) \o c)[i] =
              IF i <= Len(a) THEN a[i]
              ELSE IF i <= Len(a) + Len(b) THEN b[i - Len(a)]
              ELSE c[i - (Len(a) + Len(b))]
<1>1. PICK ab \in Seq(S) : ab = a \o b
  BY ConcatProperties
<1>2. Len(a) \in Nat /\ Len(b) \in Nat /\ Len(c) \in Nat
  BY LenProperties
<1>3. /\ Len(ab) = Len(a) + Len(b)
      /\ \A i \in 1 .. Len(a) + Len(b) : ab[i] = IF i <= Len(a) THEN a[i] ELSE b[i - Len(a)]
  BY <1>1, ConcatProperties
<1>4. /\ ab \o c \in Seq(S) /\ Len(ab \o c) = Len(ab) + Len(c)
      /\ \A i \in 1 .. Len(ab) + Len(c) :
           (ab \o c)[i] = IF i <= Len(ab) THEN ab[i] ELSE c[i - Len(ab)]
  BY ConcatProperties
<1>5. ASSUME NEW i \in 1 .. Len(a) + Len(b) + Len(c)
      PROVE  (ab \o c)[i] = IF i <= Len(a) THEN a[i]
                            ELSE IF i <= Len(a) + Len(b) THEN b[i - Len(a)]
                            ELSE c[i - (Len(a) + Len(b))]
  <2>1. CASE i <= Len(a) + Len(b)
    <3>1. i \in 1 .. Len(a) + Len(b) /\ i \in 1 .. Len(ab) + Len(c) /\ i <= Len(ab)
      BY <1>2, <1>3, <2>1
    <3>2. (ab \o c)[i] = ab[i]
      BY <1>4, <3>1
    <3> QED
      BY <1>3, <2>1, <3>1, <3>2
  <2>2. CASE ~(i <= Len(a) + Len(b))
    <3>1. i \in 1 .. Len(ab) + Len(c) /\ ~(i <= Len(ab)) /\ ~(i <= Len(a))
      BY <1>2, <1>3, <2>2
    <3> QED
      BY <1>3, <1>4, <2>2, <3>1
  <2> QED
    BY <2>1, <2>2
<1> QED
  BY <1>1, <1>3, <1>4, <1>5

\* What a line of HTML is on the wire.
LEMMA LineKinds ==
  ASSUME NEW t \in Stream!Text
  PROVE  /\ Stream!Line(t).kind \in {"event", "data", "other", "blank"}
         /\ Stream!Line(t).text \in Stream!Names
         /\ Stream!Line(t) \in Stream!WireLine
BY DEF Stream!Line, Stream!Field, Stream!Text, Stream!Names, Stream!WireLine

\* A frame names its event, has its message's first line in a data field, then the
\* other lines as they are, and ends with a blank line.
LEMMA FrameLines ==
  ASSUME NEW m \in Messages
  PROVE  /\ m \in Seq(Stream!Text) /\ Len(m) \in Nat \ {0}
         /\ \A i \in 1 .. Len(m) : m[i] \in Stream!Text
         /\ Len(Stream!Frame(m)) = Len(m) + 2
         /\ Stream!Frame(m)[1] = Stream!Field("event", "update")
         /\ Stream!Frame(m)[2] = Stream!Field("data", m[1])
         /\ \A i \in 3 .. Len(m) + 1 : Stream!Frame(m)[i] = Stream!Line(m[i - 1])
         /\ Stream!Frame(m)[Len(m) + 2] = Stream!Field("blank", "")
<1> DEFINE A == <<Stream!Field("event", "update"), Stream!Field("data", m[1])>>
           B == [k \in 1 .. Len(m) - 1 |-> Stream!Line(m[k + 1])]
           C == <<Stream!Field("blank", "")>>
           S == Stream!WireLine
<1>1. m \in Seq(Stream!Text) /\ m # <<>>
  BY MessagesAssumption
<1>2. Len(m) \in Nat \ {0} /\ \A i \in 1 .. Len(m) : m[i] \in Stream!Text
  BY <1>1
<1>3. /\ A \in Seq(S) /\ Len(A) = 2 /\ A[1] = Stream!Field("event", "update")
      /\ A[2] = Stream!Field("data", m[1])
  <2>1. Stream!Field("event", "update") \in S /\ Stream!Field("data", m[1]) \in S
    BY <1>2 DEF Stream!Field, Stream!WireLine, Stream!Names
  <2> QED
    BY <2>1, TwoElements
<1>4. /\ B \in Seq(S) /\ Len(B) = Len(m) - 1
      /\ \A k \in 1 .. Len(m) - 1 : B[k] = Stream!Line(m[k + 1])
  <2>1. \A k \in 1 .. Len(m) - 1 : m[k + 1] \in Stream!Text
    BY <1>2
  <2>2. \A k \in 1 .. Len(m) - 1 : Stream!Line(m[k + 1]) \in S
    BY <2>1, LineKinds
  <2> HIDE DEF S
  <2> QED
    BY <1>2, <2>2
<1>5. C \in Seq(S) /\ Len(C) = 1 /\ C[1] = Stream!Field("blank", "")
  <2>1. Stream!Field("blank", "") \in S
    BY DEF Stream!Field, Stream!WireLine, Stream!Names, Stream!Text
  <2> QED
    BY <2>1, OneElement
<1>6. Stream!Frame(m) = (A \o B) \o C
  BY DEF Stream!Frame
<1> HIDE DEF A, B, C, S
<1>7. /\ Len((A \o B) \o C) = Len(m) + 2
      /\ \A i \in 1 .. Len(m) + 2 : ((A \o B) \o C)[i] =
           IF i <= 2 THEN A[i] ELSE IF i <= Len(m) + 1 THEN B[i - 2] ELSE C[i - (Len(m) + 1)]
  <2>1. Len(A) = 2 /\ Len(B) = Len(m) - 1 /\ Len(C) = 1 /\ Len(m) \in Nat
    BY <1>2, <1>3, <1>4, <1>5
  <2>2. Len(A) + Len(B) = Len(m) + 1 /\ Len(A) + Len(B) + Len(C) = Len(m) + 2
    BY <2>1
  <2>3. A \in Seq(S) /\ B \in Seq(S) /\ C \in Seq(S)
    BY <1>3, <1>4, <1>5
  <2>4. /\ (A \o B) \o C \in Seq(S)
        /\ Len((A \o B) \o C) = Len(A) + Len(B) + Len(C)
        /\ \A i \in 1 .. Len(A) + Len(B) + Len(C) : ((A \o B) \o C)[i] =
             IF i <= Len(A) THEN A[i]
             ELSE IF i <= Len(A) + Len(B) THEN B[i - Len(A)]
             ELSE C[i - (Len(A) + Len(B))]
    BY <2>3, ThreeParts
  <2> QED
    BY <2>1, <2>2, <2>4
<1>8. ASSUME NEW i \in 3 .. Len(m) + 1 PROVE ((A \o B) \o C)[i] = Stream!Line(m[i - 1])
  <2>1. ((A \o B) \o C)[i] = B[i - 2] /\ i - 2 \in 1 .. Len(m) - 1 /\ (i - 2) + 1 = i - 1
    BY <1>2, <1>7
  <2> QED
    BY <1>4, <2>1
<1>9. /\ ((A \o B) \o C)[1] = A[1] /\ ((A \o B) \o C)[2] = A[2]
      /\ ((A \o B) \o C)[Len(m) + 2] = C[1]
  BY <1>2, <1>7
<1> QED
  BY <1>1, <1>2, <1>3, <1>5, <1>6, <1>7, <1>8, <1>9

-----------------------------------------------------------------------------
StreamTypes == Stream!TypeOK

\* Where the browser is: in the comment, in a frame, or past the last one.
Position ==
  /\ at.msg <= Len(sent) + 1
  /\ at.msg = Len(sent) + 1 => at.line = 1
  /\ at.msg = 0 => at.line <= 2
  /\ at.msg \in 1 .. Len(sent) => at.line <= Len(sent[at.msg]) + 2

\* Events of messages up to the one under way, in order, each of one message, and
\* one only of a quiet message.
Sound(ev, top) ==
  /\ \A e \in DOMAIN ev :
       /\ ev[e].data # <<>>
       /\ ev[e].data[1].of \in 1 .. top
       /\ \A i \in DOMAIN ev[e].data : ev[e].data[i].of = ev[e].data[1].of
  /\ \A e, f \in DOMAIN ev : e < f => ev[e].data[1].of <= ev[f].data[1].of
  /\ \A e, f \in DOMAIN ev :
       ev[e].data[1].of = ev[f].data[1].of /\ Stream!Quiet(ev[e].data[1].of) =>
         e = f /\ ev[e] = [name |-> "update", data |-> <<Stream!First(ev[e].data[1].of)>>]

Begun(ev, k) == \E e \in DOMAIN ev : ev[e].data[1] = Stream!First(k)
NoneOf(ev, k) == \A e \in DOMAIN ev : ev[e].data[1].of # k

\* What the events and the browser's buffers have of the message under way, whose
\* data field is line 2 of its frame.
Buffers(ev, buf, nm, k, line) ==
  /\ \A i \in DOMAIN buf : buf[i].of = k
  /\ k = 0 \/ line <= 2 => buf = <<>> /\ NoneOf(ev, k)
  /\ k \in 1 .. Len(sent) /\ line = 2 => nm = "update"
  /\ k \in 1 .. Len(sent) /\ line > 2 =>
       /\ Begun(ev, k) \/ (buf # <<>> /\ buf[1] = Stream!First(k))
       /\ Stream!Quiet(k) /\ buf # <<>> =>
            buf = <<Stream!First(k)>> /\ nm = "update" /\ NoneOf(ev, k)

StreamInv ==
  /\ StreamTypes
  /\ Position
  /\ Sound(events, Len(sent)) /\ (\A e \in DOMAIN events : events[e].data[1].of <= at.msg)
  /\ at.line = 1 => NoneOf(events, at.msg)
  /\ \A k \in 1 .. Len(sent) : k < at.msg => Begun(events, k)
  /\ open = "open" => Buffers(events, fields, name, at.msg, at.line)
  /\ open # "open" => fields = <<>> /\ name = ""
  /\ open \in {"off", "accepted"} => at = [msg |-> 0, line |-> 1]

\* Appending an event keeps the others.
LEMMA OneMore ==
  ASSUME NEW S, NEW ev \in Seq(S), NEW x \in S
  PROVE  /\ Append(ev, x) \in Seq(S)
         /\ DOMAIN Append(ev, x) = 1 .. Len(ev) + 1 /\ DOMAIN ev = 1 .. Len(ev) /\ Len(ev) \in Nat
         /\ Append(ev, x)[Len(ev) + 1] = x
         /\ \A i \in 1 .. Len(ev) : Append(ev, x)[i] = ev[i]
OBVIOUS

\* What the invariant asks of an empty buffer.
LEMMA EmptyBuffer ==
  ASSUME NEW ev, NEW nm, NEW k \in Nat, NEW l \in Nat, Len(sent) \in Nat,
         k = 0 \/ l <= 2 => NoneOf(ev, k),
         k # 0 /\ l = 2 => nm = "update",
         k # 0 /\ l > 2 => Begun(ev, k)
  PROVE  Buffers(ev, <<>>, nm, k, l)
<1>1. \A i \in DOMAIN <<>> : FALSE
  OBVIOUS
<1>2. k \in 1 .. Len(sent) => k # 0
  OBVIOUS
<1> QED
  BY <1>1, <1>2 DEF Buffers

\* A blank line dispatches what is buffered of the message under way, which has an
\* event then.
LEMMA Dispatch ==
  ASSUME events \in Seq(Stream!Event), fields \in Seq(Stream!DataLine), name \in Stream!Names,
         Sound(events, Len(sent)), NEW k \in 1 .. Len(sent), Len(sent) \in Nat,
         \A e \in DOMAIN events : events[e].data[1].of <= k,
         NEW line \in Nat, line > 2, Buffers(events, fields, name, k, line),
         NEW ev, ev = IF fields # <<>> THEN Append(events, [name |-> name, data |-> fields])
                      ELSE events
  PROVE  /\ ev \in Seq(Stream!Event)
         /\ Sound(ev, Len(sent))
         /\ \A e \in DOMAIN ev : ev[e].data[1].of <= k
         /\ Begun(ev, k)
         /\ \A j : Begun(events, j) => Begun(ev, j)
<1>1. CASE fields = <<>>
  BY <1>1 DEF Buffers
<1>2. CASE fields # <<>>
  <2> DEFINE x == [name |-> name, data |-> fields]
             n == Len(events)
  <2>1. x \in Stream!Event /\ x.data = fields /\ x.name = name /\ ev = Append(events, x)
    BY <1>2 DEF Stream!Event
  <2> HIDE DEF x
  <2>2. /\ ev \in Seq(Stream!Event)
        /\ DOMAIN ev = 1 .. n + 1 /\ DOMAIN events = 1 .. n /\ n \in Nat
        /\ ev[n + 1] = x
        /\ \A i \in 1 .. n : ev[i] = events[i]
    BY <2>1, OneMore
  <2> HIDE DEF n
  <2>3. /\ fields[1].of = k /\ \A i \in DOMAIN fields : fields[i].of = k
    BY <1>2 DEF Buffers
  <2>4. \A e \in 1 .. n : /\ events[e].data # <<>>
                          /\ events[e].data[1].of \in 1 .. Len(sent)
                          /\ events[e].data[1].of <= k
                          /\ \A i \in DOMAIN events[e].data :
                               events[e].data[i].of = events[e].data[1].of
    BY <2>2 DEF Sound
  <2>5. \A e \in DOMAIN ev : /\ ev[e].data # <<>>
                             /\ ev[e].data[1].of \in 1 .. Len(sent)
                             /\ ev[e].data[1].of <= k
                             /\ \A i \in DOMAIN ev[e].data : ev[e].data[i].of = ev[e].data[1].of
    <3> SUFFICES ASSUME NEW e \in 1 .. n + 1
                 PROVE  /\ ev[e].data # <<>>
                        /\ ev[e].data[1].of \in 1 .. Len(sent)
                        /\ ev[e].data[1].of <= k
                        /\ \A i \in DOMAIN ev[e].data : ev[e].data[i].of = ev[e].data[1].of
      BY <2>2
    <3>1. CASE e = n + 1
      <4>1. ev[e].data = fields
        BY <2>1, <2>2, <3>1
      <4>2. k \in Nat /\ k <= k
        OBVIOUS
      <4>3. fields # <<>> /\ fields[1].of \in 1 .. Len(sent) /\ fields[1].of <= k
            /\ \A i \in DOMAIN fields : fields[i].of = fields[1].of
        BY <1>2, <2>3, <4>2
      <4> QED
        BY <4>1, <4>3
    <3>2. CASE e \in 1 .. n
      BY <2>2, <2>4, <3>2
    <3> QED
      BY <2>2, <3>1, <3>2
  <2>6. \A e, f \in DOMAIN ev : e < f => ev[e].data[1].of <= ev[f].data[1].of
    <3> SUFFICES ASSUME NEW e \in 1 .. n + 1, NEW f \in 1 .. n + 1, e < f
                 PROVE  ev[e].data[1].of <= ev[f].data[1].of
      BY <2>2
    <3>1. CASE f = n + 1
      <4>1. ev[f].data[1].of = k
        BY <2>1, <2>2, <2>3, <3>1
      <4> QED
        BY <2>2, <2>5, <4>1
    <3>2. CASE f \in 1 .. n
      <4>1. e \in 1 .. n
        BY <2>2, <3>2
      <4> QED
        BY <2>2, <3>2, <4>1 DEF Sound
    <3>3. f = n + 1 \/ f \in 1 .. n
      BY <2>2
    <3> QED
      BY <3>1, <3>2, <3>3
  <2>7. \A e, f \in DOMAIN ev :
          ev[e].data[1].of = ev[f].data[1].of /\ Stream!Quiet(ev[e].data[1].of) =>
            e = f /\ ev[e] = [name |-> "update", data |-> <<Stream!First(ev[e].data[1].of)>>]
    <3> SUFFICES ASSUME NEW e \in 1 .. n + 1, NEW f \in 1 .. n + 1,
                        ev[e].data[1].of = ev[f].data[1].of, Stream!Quiet(ev[e].data[1].of)
                 PROVE  e = f /\ ev[e] = [name |-> "update",
                                          data |-> <<Stream!First(ev[e].data[1].of)>>]
      BY <2>2
    <3>1. CASE e \in 1 .. n /\ f \in 1 .. n
      <4>1. /\ e \in DOMAIN events /\ f \in DOMAIN events
            /\ ev[e] = events[e] /\ ev[f] = events[f]
        BY <2>2, <3>1
      <4> QED
        BY <4>1 DEF Sound
    <3>2. CASE e = n + 1 \/ f = n + 1
      <4>1. ev[n + 1].data = fields /\ ev[n + 1].data[1].of = k
        BY <2>1, <2>2, <2>3
      <4>2. ev[e].data[1].of = k /\ ev[f].data[1].of = k
        BY <3>2, <4>1
      <4>3. fields = <<Stream!First(k)>> /\ name = "update" /\ NoneOf(events, k)
        BY <1>2, <4>2 DEF Buffers
      <4>4. \A i \in 1 .. n : ev[i].data[1].of # k
        BY <2>2, <4>3 DEF NoneOf
      <4>5. e = n + 1 /\ f = n + 1
        BY <2>2, <4>2, <4>4
      <4>6. ev[n + 1] = [name |-> "update", data |-> <<Stream!First(k)>>]
        BY <2>2, <4>3 DEF x
      <4> QED
        BY <4>2, <4>5, <4>6
    <3>3. (e \in 1 .. n /\ f \in 1 .. n) \/ e = n + 1 \/ f = n + 1
      <4>1. n \in Nat
        BY <2>2
      <4> QED
        BY <4>1
    <3> QED
      BY <3>1, <3>2, <3>3
  <2>8. Sound(ev, Len(sent))
    BY <2>5, <2>6, <2>7 DEF Sound
  <2>9. ASSUME NEW j, Begun(events, j) PROVE Begun(ev, j)
    BY <2>2, <2>9 DEF Begun
  <2>10. Begun(ev, k)
    <3>1. CASE Begun(events, k)
      BY <2>9, <3>1
    <3>2. CASE fields[1] = Stream!First(k)
      <4>1. n + 1 \in DOMAIN ev /\ ev[n + 1].data[1] = Stream!First(k)
        BY <2>1, <2>2, <3>2
      <4> QED
        BY <4>1 DEF Begun
    <3> QED
      BY <3>1, <3>2 DEF Buffers
  <2> QED
    BY <2>2, <2>5, <2>8, <2>9, <2>10
<1> QED
  BY <1>1, <1>2

\* What the types say.
LEMMA Typed ==
  ASSUME StreamTypes
  PROVE  /\ sent \in Seq(Messages) /\ Len(sent) \in Nat
         /\ \A i \in 1 .. Len(sent) : Len(sent[i]) \in Nat \ {0}
         /\ at.msg \in Nat /\ at.line \in Nat \ {0} /\ at = [msg |-> at.msg, line |-> at.line]
         /\ fields \in Seq(Stream!DataLine) /\ events \in Seq(Stream!Event)
         /\ name \in Stream!Names
<1>1. /\ sent \in Seq(Messages)
      /\ at.msg \in Nat /\ at.line \in Nat \ {0} /\ at = [msg |-> at.msg, line |-> at.line]
      /\ fields \in Seq(Stream!DataLine) /\ events \in Seq(Stream!Event)
      /\ name \in Stream!Names
  BY DEF StreamTypes, Stream!TypeOK
<1>2. Len(sent) \in Nat /\ \A i \in 1 .. Len(sent) : sent[i] \in Messages
  BY <1>1
<1> QED
  BY <1>1, <1>2, FrameLines

\* The frame under way, and the comment before the first.
LEMMA FrameUnderWay ==
  ASSUME StreamInv, at.msg <= Len(sent)
  PROVE  /\ at.msg = 0 =>
              /\ at.line \in 1 .. 2 /\ Len(Stream!Written(0)) = 2
              /\ Stream!Written(0)[1].kind = "comment" /\ Stream!Written(0)[2].kind = "blank"
         /\ at.msg # 0 =>
              /\ at.msg \in 1 .. Len(sent) /\ sent[at.msg] \in Messages
              /\ at.line \in 1 .. Len(sent[at.msg]) + 2
              /\ Len(Stream!Written(at.msg)) = Len(sent[at.msg]) + 2
              /\ Stream!Written(at.msg) = Stream!Frame(sent[at.msg])
<1>1. at.msg \in Nat /\ at.line \in Nat \ {0} /\ Len(sent) \in Nat /\ sent \in Seq(Messages)
  BY Typed DEF StreamInv
<1>2. ASSUME at.msg = 0
      PROVE  /\ at.line \in 1 .. 2 /\ Len(Stream!Written(0)) = 2
             /\ Stream!Written(0)[1].kind = "comment" /\ Stream!Written(0)[2].kind = "blank"
  <2> DEFINE x == Stream!Field("comment", "")
             y == Stream!Field("blank", "")
             T == {x, y}
  <2>1. Stream!Written(0) = <<x, y>>
    BY DEF Stream!Written
  <2>2. x.kind = "comment" /\ y.kind = "blank" /\ x \in T /\ y \in T
    BY DEF Stream!Field
  <2> HIDE DEF x, y, T
  <2>3. Len(Stream!Written(0)) = 2 /\ Stream!Written(0)[1] = x /\ Stream!Written(0)[2] = y
    BY <2>1, <2>2, TwoElements
  <2>4. at.line <= 2
    BY <1>2 DEF StreamInv, Position
  <2>5. at.line \in 1 .. 2
    BY <1>1, <2>4
  <2> QED
    BY <2>2, <2>3, <2>5
<1>3. ASSUME at.msg # 0
      PROVE  /\ at.msg \in 1 .. Len(sent) /\ sent[at.msg] \in Messages
             /\ at.line \in 1 .. Len(sent[at.msg]) + 2
             /\ Len(Stream!Written(at.msg)) = Len(sent[at.msg]) + 2
             /\ Stream!Written(at.msg) = Stream!Frame(sent[at.msg])
  <2>1. at.msg \in 1 .. Len(sent)
    BY <1>1, <1>3
  <2>2. sent[at.msg] \in Messages
    BY <1>1, <2>1
  <2>3. Stream!Written(at.msg) = Stream!Frame(sent[at.msg])
    BY <1>3 DEF Stream!Written
  <2>4. at.line <= Len(sent[at.msg]) + 2
    BY <2>1 DEF StreamInv, Position
  <2>5. Len(sent[at.msg]) \in Nat \ {0} /\ Len(Stream!Frame(sent[at.msg])) = Len(sent[at.msg]) + 2
    BY <2>2, FrameLines
  <2> QED
    BY <1>1, <2>1, <2>2, <2>3, <2>4, <2>5
<1> QED
  BY <1>2, <1>3

\* What reading a line does to the buffers and the events.
LEMMA ReadGives ==
  ASSUME Stream!Read, NEW w, w = Stream!Written(at.msg)[at.line]
  PROVE  /\ open = "open" /\ open' = open /\ sent' = sent /\ at.msg <= Len(sent)
         /\ w.kind = "data" => /\ fields' = Append(fields, [of |-> at.msg, text |-> w.text])
                               /\ name' = name /\ events' = events
         /\ w.kind = "event" => fields' = fields /\ name' = w.text /\ events' = events
         /\ w.kind = "blank" => /\ fields' = <<>> /\ name' = ""
                                /\ events' = IF fields # <<>>
                                             THEN Append(events, [name |-> name, data |-> fields])
                                             ELSE events
         /\ w.kind \notin {"data", "event", "blank"} =>
              fields' = fields /\ name' = name /\ events' = events
<1>1. /\ open = "open" /\ open' = open /\ sent' = sent /\ at.msg <= Len(sent)
      /\ fields' = CASE w.kind = "data" -> Append(fields, [of |-> at.msg, text |-> w.text])
                     [] w.kind = "blank" -> <<>>
                     [] OTHER -> fields
      /\ name' = CASE w.kind = "event" -> w.text
                   [] w.kind = "blank" -> ""
                   [] OTHER -> name
      /\ events' = IF w.kind = "blank" /\ fields # <<>>
                   THEN Append(events, [name |-> name, data |-> fields]) ELSE events
  BY DEF Stream!Read
<1>2. CASE w.kind = "data"
  BY <1>1, <1>2
<1>3. CASE w.kind = "event"
  BY <1>1, <1>3
<1>4. CASE w.kind = "blank"
  BY <1>1, <1>4
<1>5. CASE w.kind \notin {"data", "event", "blank"}
  BY <1>1, <1>5
<1> QED
  BY <1>2, <1>3, <1>4, <1>5

\* Where reading goes on.
Onward(k, l) ==
  /\ at' = [msg |-> k, line |-> l]
  /\ \/ k = at.msg /\ l = at.line + 1 /\ at.line < Len(Stream!Written(at.msg))
     \/ k = at.msg + 1 /\ l = 1 /\ ~(at.line < Len(Stream!Written(at.msg)))

LEMMA ReadMoves ==
  ASSUME StreamInv, Stream!Read
  PROVE  \E k \in Nat, l \in Nat \ {0} : Onward(k, l)
<1>1. at.msg \in Nat /\ at.line \in Nat \ {0} /\ at = [msg |-> at.msg, line |-> at.line]
  BY Typed DEF StreamInv
<1>2. CASE at.line < Len(Stream!Written(at.msg))
  <2>1. at' = [msg |-> at.msg, line |-> at.line + 1]
    BY <1>1, <1>2 DEF Stream!Read
  <2>2. Onward(at.msg, at.line + 1)
    BY <1>2, <2>1 DEF Onward
  <2> QED
    BY <1>1, <2>2
<1>3. CASE ~(at.line < Len(Stream!Written(at.msg)))
  <2>1. at' = [msg |-> at.msg + 1, line |-> 1]
    BY <1>3 DEF Stream!Read
  <2>2. Onward(at.msg + 1, 1)
    BY <1>3, <2>1 DEF Onward
  <2> QED
    BY <1>1, <2>2
<1> QED
  BY <1>2, <1>3

\* What a step that reads has to show: the rest of the invariant is about where
\* reading goes on.
LEMMA ReadSuffices ==
  ASSUME StreamInv, Stream!Read, NEW k \in Nat, NEW l \in Nat \ {0}, Onward(k, l),
         events' \in Seq(Stream!Event), fields' \in Seq(Stream!DataLine), name' \in Stream!Names,
         Sound(events', Len(sent)), \A e \in DOMAIN events' : events'[e].data[1].of <= at.msg,
         k = at.msg + 1 /\ at.msg # 0 => Begun(events', at.msg),
         \A j : Begun(events, j) => Begun(events', j),
         Buffers(events', fields', name', k, l)
  PROVE  StreamInv'
<1>1. /\ sent' = sent /\ open' = open /\ open = "open" /\ at.msg \in Nat /\ Len(sent) \in Nat
      /\ at.msg <= Len(sent) /\ at.line \in Nat \ {0}
  BY Typed, ReadGives DEF StreamInv
<1>2. \A j : Stream!First(j)' = Stream!First(j) /\ (Stream!Quiet(j)' <=> Stream!Quiet(j))
  BY <1>1 DEF Stream!First, Stream!Quiet
<1>3. at' = [msg |-> k, line |-> l] /\ at'.msg = k /\ at'.line = l
  BY DEF Onward
<1>4. StreamTypes'
  <2>1. at' \in [msg : Nat, line : Nat \ {0}]
    BY <1>3
  <2> QED
    BY <1>1, <2>1 DEF StreamInv, StreamTypes, Stream!TypeOK
<1>5. Position'
  <2>1. CASE k = at.msg /\ l = at.line + 1 /\ at.line < Len(Stream!Written(at.msg))
    <3>1. CASE at.msg = 0
      <4>1. Len(Stream!Written(at.msg)) = 2
        BY <1>1, <3>1, FrameUnderWay
      <4>2. k = 0 /\ l <= 2
        <5>1. PICK i \in Nat : i = at.line
          BY <1>1
        <5>2. i < 2 /\ l = i + 1
          BY <2>1, <4>1, <5>1
        <5> QED
          BY <2>1, <3>1, <5>1, <5>2
      <4> QED
        BY <1>1, <1>3, <4>2 DEF Position
    <3>2. CASE at.msg # 0
      <4>1. /\ at.msg \in 1 .. Len(sent) /\ sent[at.msg] \in Messages
            /\ Len(Stream!Written(at.msg)) = Len(sent[at.msg]) + 2
        BY <1>1, <3>2, FrameUnderWay
      <4>2. Len(sent[at.msg]) \in Nat
        BY <4>1, FrameLines
      <4>3. l <= Len(sent[at.msg]) + 2
        BY <1>1, <2>1, <4>1, <4>2
      <4> QED
        BY <1>1, <1>3, <2>1, <4>1, <4>3 DEF Position
    <3> QED
      BY <3>1, <3>2
  <2>2. CASE k = at.msg + 1 /\ l = 1
    <3>1. k <= Len(sent) + 1 /\ k # 0
      BY <1>1, <2>2
    <3>2. k \in 1 .. Len(sent) => 1 <= Len(sent[k]) + 2
      <4>1. \A i \in 1 .. Len(sent) : Len(sent[i]) \in Nat \ {0}
        BY Typed DEF StreamInv
      <4> QED
        BY <4>1
    <3> QED
      BY <1>1, <1>3, <2>2, <3>1, <3>2 DEF Position
  <2> QED
    BY <2>1, <2>2 DEF Onward
<1>6. Sound(events, Len(sent))'
  BY <1>1, <1>2 DEF Sound
<1>7. \A j : Begun(events, j)' <=> Begun(events', j)
  BY <1>2 DEF Begun
<1>8. Buffers(events, fields, name, at.msg, at.line)'
  <2>1. /\ Begun(events, at.msg)' <=> Begun(events', k)
        /\ Stream!First(at.msg)' = Stream!First(k)
        /\ Stream!Quiet(at.msg)' <=> Stream!Quiet(k)
        /\ NoneOf(events, at.msg)' <=> NoneOf(events', k)
    BY <1>1, <1>3 DEF Begun, NoneOf, Stream!First, Stream!Quiet
  <2> QED
    BY <1>1, <1>3, <2>1 DEF Buffers
<1>9. \A e \in DOMAIN events' : events'[e].data[1].of <= k /\ (l = 1 => events'[e].data[1].of # k)
  <2> SUFFICES ASSUME NEW e \in DOMAIN events'
               PROVE  events'[e].data[1].of <= k /\ (l = 1 => events'[e].data[1].of # k)
    OBVIOUS
  <2>1. events'[e].data[1].of \in 1 .. Len(sent) /\ events'[e].data[1].of <= at.msg
    BY DEF Sound
  <2>2. (k = at.msg /\ l # 1) \/ k = at.msg + 1
    BY <1>1 DEF Onward
  <2> QED
    BY <1>1, <2>1, <2>2
<1>10. (at.line = 1 => NoneOf(events, at.msg))'
  BY <1>3, <1>9 DEF NoneOf
<1>11. (\A j \in 1 .. Len(sent) : j < at.msg => Begun(events, j))'
  <2> SUFFICES ASSUME NEW j \in 1 .. Len(sent), j < k PROVE Begun(events', j)
    BY <1>1, <1>3, <1>7
  <2>1. CASE j < at.msg
    BY <2>1 DEF StreamInv
  <2>2. CASE ~(j < at.msg)
    <3>1. k = at.msg \/ k = at.msg + 1
      BY DEF Onward
    <3>2. k = at.msg + 1 /\ j = at.msg /\ at.msg # 0
      BY <1>1, <2>2, <3>1
    <3> QED
      BY <3>2
  <2> QED
    BY <2>1, <2>2
<1> QED
  BY <1>1, <1>3, <1>4, <1>5, <1>6, <1>8, <1>9, <1>10, <1>11 DEF StreamInv

\* The browser reads a line of the comment that opens the stream.
LEMMA ReadComment == ASSUME StreamInv, Stream!Read, at.msg = 0 PROVE StreamInv'
<1>1. PICK k \in Nat, l \in Nat \ {0} : Onward(k, l)
  BY ReadMoves
<1>2. PICK w : w = Stream!Written(at.msg)[at.line]
  OBVIOUS
<1>3. /\ open = "open" /\ at.msg <= Len(sent) /\ Len(sent) \in Nat
      /\ at.line \in 1 .. 2 /\ w.kind \in {"comment", "blank"}
  <2>1. open = "open" /\ at.msg <= Len(sent) /\ Len(sent) \in Nat
    BY <1>2, ReadGives, Typed DEF StreamInv
  <2>2. /\ at.line \in 1 .. 2 /\ w = Stream!Written(0)[at.line]
        /\ Stream!Written(0)[1].kind = "comment" /\ Stream!Written(0)[2].kind = "blank"
    BY <1>2, <2>1, FrameUnderWay
  <2>3. PICK i \in 1 .. 2 : i = at.line
    BY <2>2
  <2>4. i = 1 \/ i = 2
    BY <2>3
  <2> QED
    BY <2>1, <2>2, <2>3, <2>4
<1>4. fields = <<>> /\ NoneOf(events, 0)
  BY <1>3 DEF StreamInv, Buffers
<1>5. events' = events /\ fields' = <<>> /\ name' \in {name, ""}
  BY <1>2, <1>3, <1>4, ReadGives
<1>6. NoneOf(events, k)
  <2>1. \A e \in DOMAIN events : events[e].data[1].of \in 1 .. Len(sent) /\ events[e].data[1].of <= 0
    BY DEF StreamInv, Sound
  <2> QED
    BY <1>1, <2>1 DEF NoneOf
<1>7. k = 0 \/ (k = 1 /\ l = 1)
  BY <1>1 DEF Onward
<1>8. Buffers(events', fields', name', k, l)
  <2>1. NoneOf(events', k)
    BY <1>5, <1>6
  <2>2. ~(k # 0 /\ l = 2) /\ ~(k # 0 /\ l > 2)
    BY <1>7
  <2> QED
    BY <1>3, <1>5, <2>1, <2>2, EmptyBuffer
<1>9. /\ events' \in Seq(Stream!Event) /\ fields' \in Seq(Stream!DataLine) /\ name' \in Stream!Names
      /\ Sound(events', Len(sent)) /\ \A e \in DOMAIN events' : events'[e].data[1].of <= at.msg
      /\ \A j : Begun(events, j) => Begun(events', j)
  BY <1>4, <1>5, Typed DEF StreamInv, Stream!Names, Stream!Text
<1> QED
  BY <1>1, <1>8, <1>9, ReadSuffices

\* In a frame reading stays in the frame up to its last line, which is blank.
LEMMA InFrame ==
  ASSUME StreamInv, Stream!Read, at.msg # 0, NEW k \in Nat, NEW l \in Nat \ {0}, Onward(k, l)
  PROVE  /\ at.msg \in 1 .. Len(sent) /\ at.line \in Nat \ {0} /\ Len(sent) \in Nat
         /\ sent[at.msg] \in Messages /\ Len(sent[at.msg]) \in Nat \ {0}
         /\ at.line = 1 => Stream!Written(at.msg)[at.line] = Stream!Field("event", "update")
         /\ at.line = 2 => Stream!Written(at.msg)[at.line] = Stream!Field("data", sent[at.msg][1])
         /\ at.line \in 3 .. Len(sent[at.msg]) + 1 =>
              /\ sent[at.msg][at.line - 1] \in Stream!Text
              /\ Stream!Written(at.msg)[at.line] = Stream!Line(sent[at.msg][at.line - 1])
         /\ at.line < Len(sent[at.msg]) + 2 => k = at.msg /\ l = at.line + 1
         /\ ~(at.line < Len(sent[at.msg]) + 2) =>
              /\ k = at.msg + 1 /\ l = 1
              /\ Stream!Written(at.msg)[at.line] = Stream!Field("blank", "")
<1>1. at.msg <= Len(sent) /\ Len(sent) \in Nat /\ at.line \in Nat \ {0}
  BY ReadGives, Typed DEF StreamInv
<1>2. /\ at.msg \in 1 .. Len(sent) /\ sent[at.msg] \in Messages
      /\ at.line \in 1 .. Len(sent[at.msg]) + 2
      /\ Len(Stream!Written(at.msg)) = Len(sent[at.msg]) + 2
      /\ Stream!Written(at.msg) = Stream!Frame(sent[at.msg])
  BY <1>1, FrameUnderWay
<1>3. PICK m \in Messages : m = sent[at.msg]
  BY <1>2
<1>4. /\ Len(m) \in Nat \ {0} /\ \A i \in 1 .. Len(m) : m[i] \in Stream!Text
      /\ Stream!Frame(m)[1] = Stream!Field("event", "update")
      /\ Stream!Frame(m)[2] = Stream!Field("data", m[1])
      /\ \A i \in 3 .. Len(m) + 1 : Stream!Frame(m)[i] = Stream!Line(m[i - 1])
      /\ Stream!Frame(m)[Len(m) + 2] = Stream!Field("blank", "")
  BY FrameLines
<1>5. at.line < Len(m) + 2 => k = at.msg /\ l = at.line + 1
  BY <1>2, <1>3 DEF Onward
<1>6. ~(at.line < Len(m) + 2) => k = at.msg + 1 /\ l = 1 /\ at.line = Len(m) + 2
  <2>1. at.line \in 1 .. Len(m) + 2 /\ Len(Stream!Written(at.msg)) = Len(m) + 2
    BY <1>2, <1>3
  <2>2. PICK i \in 1 .. Len(m) + 2 : i = at.line
    BY <2>1
  <2>3. ~(i < Len(m) + 2) => i = Len(m) + 2
    <3>1. Len(m) \in Nat
      BY <1>4
    <3> QED
      BY <3>1
  <2> QED
    BY <2>1, <2>2, <2>3 DEF Onward
<1>7. at.line \in 3 .. Len(m) + 1 => m[at.line - 1] \in Stream!Text
  <2> SUFFICES ASSUME at.line \in 3 .. Len(m) + 1 PROVE m[at.line - 1] \in Stream!Text
    OBVIOUS
  <2>1. at.line - 1 \in 1 .. Len(m)
    <3>1. PICK i \in 3 .. Len(m) + 1 : i = at.line
      OBVIOUS
    <3>2. i - 1 \in 1 .. Len(m)
      <4>1. Len(m) \in Nat
        BY <1>4
      <4> QED
        BY <4>1
    <3> QED
      BY <3>1, <3>2
  <2> QED
    BY <1>4, <2>1
<1> QED
  BY <1>1, <1>2, <1>3, <1>4, <1>5, <1>6, <1>7

\* The browser reads a line that dispatches nothing.
LEMMA ReadQuietly ==
  ASSUME StreamInv, Stream!Read, NEW k \in Nat, NEW l \in Nat \ {0}, Onward(k, l),
         k = at.msg, at.msg # 0, events' = events, fields' \in Seq(Stream!DataLine),
         name' \in Stream!Names, Buffers(events, fields', name', k, l)
  PROVE  StreamInv'
<1>1. /\ events' \in Seq(Stream!Event) /\ at.msg \in Nat
      /\ Sound(events', Len(sent)) /\ \A e \in DOMAIN events' : events'[e].data[1].of <= at.msg
      /\ \A j : Begun(events, j) => Begun(events', j)
  BY Typed DEF StreamInv
<1>2. k # at.msg + 1
  BY <1>1
<1>3. Buffers(events', fields', name', k, l)
  OBVIOUS
<1> QED
  BY <1>1, <1>2, <1>3, ReadSuffices

\* ... the name of an event, or the data field of a message.
LEMMA ReadHead ==
  ASSUME StreamInv, Stream!Read, at.msg # 0, at.line <= 2
  PROVE  StreamInv'
<1>1. PICK k \in Nat, l \in Nat \ {0} : Onward(k, l)
  BY ReadMoves
<1>2. PICK w : w = Stream!Written(at.msg)[at.line]
  OBVIOUS
<1>3. /\ at.msg \in 1 .. Len(sent) /\ at.line \in Nat \ {0}
      /\ sent[at.msg] \in Messages /\ Len(sent[at.msg]) \in Nat \ {0}
      /\ at.line = 1 => w = Stream!Field("event", "update")
      /\ at.line = 2 => w = Stream!Field("data", sent[at.msg][1])
      /\ at.line < Len(sent[at.msg]) + 2 => k = at.msg /\ l = at.line + 1
  BY <1>1, <1>2, InFrame
<1>4. k = at.msg /\ l = at.line + 1
  BY <1>3
<1>5. open = "open"
  BY <1>2, ReadGives
<1>6. Buffers(events, fields, name, k, at.line)
  BY <1>4, <1>5 DEF StreamInv
<1>7. fields = <<>> /\ NoneOf(events, k) /\ (at.line = 2 => name = "update")
  BY <1>3, <1>4, <1>6 DEF Buffers
<1>8. CASE at.line = 1
  <2>1. w.kind = "event" /\ w.text = "update"
    BY <1>3, <1>8 DEF Stream!Field
  <2>2. events' = events /\ fields' = <<>> /\ name' = "update"
    BY <1>2, <1>7, <2>1, ReadGives
  <2>3. Buffers(events, fields', name', k, l)
    BY <1>4, <1>7, <1>8, <2>2 DEF Buffers
  <2> QED
    BY <1>1, <1>3, <1>4, <2>2, <2>3, ReadQuietly DEF Stream!Names
<1>9. CASE at.line = 2
  <2>1. w.kind = "data" /\ w.text = sent[at.msg][1]
    BY <1>3, <1>9 DEF Stream!Field
  <2>2. /\ events' = events /\ name' = "update"
        /\ fields' = Append(fields, [of |-> at.msg, text |-> w.text])
    BY <1>2, <1>7, <1>9, <2>1, ReadGives
  <2>3. Stream!First(k) = [of |-> at.msg, text |-> w.text]
    BY <1>4, <2>1 DEF Stream!First
  <2>4. Stream!First(k) \in Stream!DataLine /\ Stream!First(k).of = k
    <3>1. sent[at.msg][1] \in Stream!Text
      <4>1. \A i \in 1 .. Len(sent[at.msg]) : sent[at.msg][i] \in Stream!Text
        BY <1>3, FrameLines
      <4>2. 1 \in 1 .. Len(sent[at.msg])
        BY <1>3
      <4> QED
        BY <4>1, <4>2
    <3> QED
      BY <1>4, <3>1 DEF Stream!First, Stream!DataLine, Stream!Names
  <2>5. fields' = <<Stream!First(k)>>
    BY <1>7, <2>2, <2>3
  <2>6. /\ fields' \in Seq(Stream!DataLine) /\ fields'[1] = Stream!First(k) /\ fields' # <<>>
        /\ \A i \in DOMAIN fields' : fields'[i].of = k
    <3>1. /\ fields' \in Seq(Stream!DataLine) /\ Len(fields') = 1 /\ fields'[1] = Stream!First(k)
          /\ fields' # <<>> /\ DOMAIN fields' = 1 .. 1
      BY <2>4, <2>5, OneElement
    <3> QED
      BY <2>4, <3>1
  <2>7. Buffers(events, fields', name', k, l)
    <3>1. l = 3 /\ k # 0
      BY <1>3, <1>4, <1>9
    <3> QED
      BY <1>7, <2>2, <2>5, <2>6, <3>1 DEF Buffers
  <2> QED
    BY <1>1, <1>3, <1>4, <2>2, <2>6, <2>7, ReadQuietly DEF Stream!Names
<1> QED
  BY <1>3, <1>8, <1>9

\* ... or a line of the HTML that is not blank: a data field makes the event
\* longer, an event field renames it, and both take its message out of the quiet
\* ones.
LEMMA ReadBody ==
  ASSUME StreamInv, Stream!Read, at.msg # 0, at.line > 2,
         Stream!Written(at.msg)[at.line].kind # "blank"
  PROVE  StreamInv'
<1>1. PICK k \in Nat, l \in Nat \ {0} : Onward(k, l)
  BY ReadMoves
<1>2. PICK w : w = Stream!Written(at.msg)[at.line]
  OBVIOUS
<1>3. /\ at.msg \in 1 .. Len(sent) /\ at.line \in Nat \ {0}
      /\ Len(sent[at.msg]) \in Nat \ {0}
      /\ at.line \in 3 .. Len(sent[at.msg]) + 1 =>
           sent[at.msg][at.line - 1] \in Stream!Text /\ w = Stream!Line(sent[at.msg][at.line - 1])
      /\ at.line < Len(sent[at.msg]) + 2 => k = at.msg /\ l = at.line + 1
      /\ ~(at.line < Len(sent[at.msg]) + 2) => w = Stream!Field("blank", "")
  BY <1>1, <1>2, InFrame
<1>4. at.line < Len(sent[at.msg]) + 2
  <2>1. Stream!Field("blank", "").kind = "blank"
    BY DEF Stream!Field
  <2> QED
    BY <1>2, <1>3, <2>1
<1>5. /\ k = at.msg /\ l = at.line + 1 /\ at.line \in 3 .. Len(sent[at.msg]) + 1
      /\ k # 0 /\ l > 2 /\ at.line - 1 \in 2 .. Len(sent[at.msg])
  <2>1. PICK i \in Nat : i = at.line
    BY <1>3
  <2>2. PICK n \in Nat : n = Len(sent[at.msg])
    BY <1>3
  <2>3. i > 2 /\ i < n + 2
    BY <1>4, <2>1, <2>2
  <2>4. i \in 3 .. n + 1 /\ i + 1 > 2 /\ i - 1 \in 2 .. n
    BY <2>3
  <2> QED
    BY <1>3, <1>4, <2>1, <2>2, <2>4
<1>6. sent[k][at.line - 1] \in Stream!Text /\ w = Stream!Line(sent[k][at.line - 1])
  BY <1>3, <1>5
<1>7. w.kind \in {"event", "data", "other"} /\ w.text \in Stream!Names
  BY <1>2, <1>6, LineKinds
<1>8. w.kind \in {"event", "data"} => ~Stream!Quiet(k)
  BY <1>5, <1>6 DEF Stream!Quiet
<1>9. Buffers(events, fields, name, k, at.line) /\ open = "open"
  BY <1>2, <1>5, ReadGives DEF StreamInv
<1>10. /\ \A i \in DOMAIN fields : fields[i].of = k
       /\ Begun(events, k) \/ (fields # <<>> /\ fields[1] = Stream!First(k))
       /\ Stream!Quiet(k) /\ fields # <<>> =>
            fields = <<Stream!First(k)>> /\ name = "update" /\ NoneOf(events, k)
  BY <1>3, <1>5, <1>9 DEF Buffers
<1>11. fields \in Seq(Stream!DataLine) /\ name \in Stream!Names
  BY Typed DEF StreamInv
<1>12. CASE w.kind = "data"
  <2> DEFINE x == [of |-> k, text |-> w.text]
  <2>1. events' = events /\ name' = name /\ fields' = Append(fields, x)
    BY <1>2, <1>5, <1>12, ReadGives
  <2>2. x \in Stream!DataLine /\ x.of = k
    BY <1>7 DEF Stream!DataLine
  <2> HIDE DEF x
  <2>3. /\ fields' \in Seq(Stream!DataLine) /\ fields' # <<>>
        /\ DOMAIN fields' = 1 .. Len(fields) + 1 /\ DOMAIN fields = 1 .. Len(fields)
        /\ Len(fields) \in Nat /\ fields'[Len(fields) + 1] = x
        /\ \A i \in 1 .. Len(fields) : fields'[i] = fields[i]
    BY <1>11, <2>1, <2>2, OneMore
  <2>4. \A i \in DOMAIN fields' : fields'[i].of = k
    <3> SUFFICES ASSUME NEW i \in 1 .. Len(fields) + 1 PROVE fields'[i].of = k
      BY <2>3
    <3>1. CASE i = Len(fields) + 1
      BY <2>2, <2>3, <3>1
    <3>2. CASE i \in 1 .. Len(fields)
      BY <1>10, <2>3, <3>2
    <3> QED
      BY <2>3, <3>1, <3>2
  <2>5. Begun(events, k) \/ fields'[1] = Stream!First(k)
    <3>1. CASE fields # <<>>
      <4>1. 1 \in 1 .. Len(fields)
        BY <1>11, <3>1
      <4> QED
        BY <1>10, <2>3, <4>1
    <3>2. CASE fields = <<>>
      BY <1>10, <3>2
    <3> QED
      BY <3>1, <3>2
  <2>6. Buffers(events, fields', name', k, l)
    BY <1>5, <1>8, <1>12, <2>3, <2>4, <2>5 DEF Buffers
  <2> QED
    BY <1>1, <1>5, <1>11, <2>1, <2>3, <2>6, ReadQuietly
<1>13. CASE w.kind = "event"
  <2>1. events' = events /\ name' = w.text /\ fields' = fields
    BY <1>2, <1>13, ReadGives
  <2>2. Buffers(events, fields', name', k, l)
    BY <1>5, <1>8, <1>10, <1>13, <2>1 DEF Buffers
  <2> QED
    BY <1>1, <1>5, <1>7, <1>11, <2>1, <2>2, ReadQuietly
<1>14. CASE w.kind = "other"
  <2>1. events' = events /\ name' = name /\ fields' = fields
    BY <1>2, <1>14, ReadGives
  <2>2. Buffers(events, fields', name', k, l)
    BY <1>5, <1>10, <2>1 DEF Buffers
  <2> QED
    BY <1>1, <1>5, <1>11, <2>1, <2>2, ReadQuietly
<1> QED
  BY <1>7, <1>12, <1>13, <1>14

\* A blank line behind the data field.
LEMMA ReadBlank ==
  ASSUME StreamInv, Stream!Read, at.msg # 0, at.line > 2,
         Stream!Written(at.msg)[at.line].kind = "blank"
  PROVE  StreamInv'
<1>1. PICK k \in Nat, l \in Nat \ {0} : Onward(k, l)
  BY ReadMoves
<1>2. PICK w : w = Stream!Written(at.msg)[at.line]
  OBVIOUS
<1>3. /\ at.msg \in 1 .. Len(sent) /\ at.line \in Nat \ {0} /\ Len(sent) \in Nat
      /\ at.line < Len(sent[at.msg]) + 2 => k = at.msg /\ l = at.line + 1
      /\ ~(at.line < Len(sent[at.msg]) + 2) => k = at.msg + 1 /\ l = 1
  BY <1>1, InFrame
<1>4. PICK ev, n : ev = events' /\ n = at.msg
  OBVIOUS
<1>5. /\ open = "open" /\ fields' = <<>> /\ name' = ""
      /\ ev = IF fields # <<>> THEN Append(events, [name |-> name, data |-> fields]) ELSE events
  BY <1>2, <1>4, ReadGives
<1>6. /\ ev \in Seq(Stream!Event) /\ Sound(ev, Len(sent))
      /\ \A e \in DOMAIN ev : ev[e].data[1].of <= n
      /\ Begun(ev, n)
      /\ \A j : Begun(events, j) => Begun(ev, j)
  <2>1. /\ events \in Seq(Stream!Event) /\ fields \in Seq(Stream!DataLine)
        /\ name \in Stream!Names
    BY Typed DEF StreamInv
  <2>2. Sound(events, Len(sent)) /\ \A e \in DOMAIN events : events[e].data[1].of <= n
    BY <1>4 DEF StreamInv
  <2>3. PICK line : line = at.line
    OBVIOUS
  <2>4. Buffers(events, fields, name, n, line)
    BY <1>4, <1>5, <2>3 DEF StreamInv
  <2>5. n \in 1 .. Len(sent) /\ line \in Nat /\ line > 2
    BY <1>3, <1>4, <2>3
  <2> QED
    BY <1>3, <1>5, <2>1, <2>2, <2>4, <2>5, Dispatch
<1>7. Buffers(events', fields', name', k, l)
  <2>1. CASE at.line < Len(sent[at.msg]) + 2
    <3>1. k = n /\ l = at.line + 1
      BY <1>3, <1>4, <2>1
    <3>2. ~(l <= 2) /\ l # 2 /\ k # 0
      <4>1. PICK i \in Nat : i = at.line
        BY <1>3
      <4>2. i > 2 /\ l = i + 1
        BY <3>1, <4>1
      <4> QED
        BY <1>4, <3>1, <4>2
    <3> QED
      BY <1>3, <1>4, <1>5, <1>6, <3>1, <3>2, EmptyBuffer
  <2>2. CASE ~(at.line < Len(sent[at.msg]) + 2)
    <3>1. k = n + 1 /\ l = 1 /\ n \in 1 .. Len(sent)
      BY <1>3, <1>4, <2>2
    <3>2. NoneOf(ev, k)
      <4> SUFFICES ASSUME NEW e \in DOMAIN ev PROVE ev[e].data[1].of # k
        BY DEF NoneOf
      <4>1. ev[e].data[1].of \in 1 .. Len(sent) /\ ev[e].data[1].of <= n
        BY <1>6 DEF Sound
      <4> QED
        BY <1>3, <3>1, <4>1
    <3> QED
      <4>1. l <= 2 /\ l # 2 /\ ~(l > 2)
        BY <3>1
      <4>2. events' = ev /\ fields' = <<>> /\ Len(sent) \in Nat
        BY <1>3, <1>4, <1>5
      <4> QED
        BY <3>2, <4>1, <4>2, EmptyBuffer
  <2> QED
    BY <2>1, <2>2
<1>8. fields' \in Seq(Stream!DataLine) /\ name' \in Stream!Names
  BY <1>5, EmptySeq DEF Stream!Names, Stream!Text
<1> QED
  BY <1>1, <1>4, <1>6, <1>7, <1>8, ReadSuffices

LEMMA ReadStep == StreamInv /\ Stream!Read => StreamInv'
<1> SUFFICES ASSUME StreamInv, Stream!Read PROVE StreamInv'
  OBVIOUS
<1>1. at.line \in Nat
  BY Typed DEF StreamInv
<1>2. at.msg = 0 \/ at.line <= 2 \/ at.line > 2
  BY <1>1
<1> QED
  BY <1>2, ReadComment, ReadHead, ReadBody, ReadBlank

\* The connection is accepted, opened or cut.
LEMMA ConnectionStep ==
  StreamInv /\ (Stream!Accept \/ Stream!Open \/ Stream!Cut) => StreamInv'
<1> SUFFICES ASSUME StreamInv, Stream!Accept \/ Stream!Open \/ Stream!Cut PROVE StreamInv'
  OBVIOUS
<1>1. /\ sent' = sent /\ at' = at /\ events' = events
      /\ \/ fields' = fields /\ name' = name /\ open = "off" /\ open' = "accepted"
         \/ fields' = fields /\ name' = name /\ open = "accepted" /\ open' = "open"
         \/ fields' = <<>> /\ name' = "" /\ open' = "closed"
  BY DEF Stream!Accept, Stream!Open, Stream!Cut
<1>2. /\ \A j : Stream!First(j)' = Stream!First(j) /\ (Stream!Quiet(j)' <=> Stream!Quiet(j))
      /\ \A j : Begun(events, j)' <=> Begun(events, j)
      /\ \A j : NoneOf(events, j)' <=> NoneOf(events, j)
  BY <1>1 DEF Stream!First, Stream!Quiet, Begun, NoneOf
<1>3. StreamTypes'
  BY <1>1, EmptySeq DEF StreamInv, StreamTypes, Stream!TypeOK, Stream!Names, Stream!Text
<1>4. Position' /\ Sound(events, Len(sent))'
  <2>1. Position /\ Sound(events, Len(sent))
    BY DEF StreamInv
  <2>2. Position'
    BY <1>1, <2>1 DEF Position
  <2>3. Sound(events, Len(sent))'
    BY <1>1, <1>2, <2>1 DEF Sound
  <2> QED
    BY <2>2, <2>3
<1>5. (open # "open" => fields = <<>> /\ name = "")'
  BY <1>1 DEF StreamInv
<1>6. (open \in {"off", "accepted"} => at = [msg |-> 0, line |-> 1])'
  BY <1>1 DEF StreamInv
<1>7. (open = "open" => Buffers(events, fields, name, at.msg, at.line))'
  <2> SUFFICES ASSUME open' = "open" PROVE Buffers(events, fields, name, at.msg, at.line)'
    OBVIOUS
  <2>1. /\ fields' = <<>> /\ at'.msg = 0 /\ at'.line = 1 /\ NoneOf(events, at.msg)'
        /\ Len(sent) \in Nat
    <3>1. open = "accepted" /\ fields' = <<>> /\ at = [msg |-> 0, line |-> 1]
      BY <1>1 DEF StreamInv
    <3>2. at.msg = 0 /\ at.line = 1 /\ NoneOf(events, 0)
      BY <3>1 DEF StreamInv
    <3> QED
      BY <1>1, <3>1, <3>2, Typed DEF StreamInv, NoneOf
  <2>2. (\A i \in DOMAIN <<>> : FALSE) /\ ~(0 \in 1 .. Len(sent))
    BY <2>1
  <2> QED
    BY <1>1, <2>1, <2>2 DEF Buffers
<1>8. /\ (\A e \in DOMAIN events : events[e].data[1].of <= at.msg)'
      /\ (at.line = 1 => NoneOf(events, at.msg))'
      /\ (\A k \in 1 .. Len(sent) : k < at.msg => Begun(events, k))'
  BY <1>1, <1>2 DEF StreamInv, NoneOf
<1> QED
  BY <1>3, <1>4, <1>5, <1>6, <1>7, <1>8 DEF StreamInv

\* Another message changes nothing for those before it.
LEMMA WriteStep == ASSUME NEW m \in Messages, StreamInv, Stream!Write(m) PROVE StreamInv'
<1>1. /\ open = "open" /\ open' = open /\ sent' = Append(sent, m) /\ at' = at
      /\ fields' = fields /\ name' = name /\ events' = events
  BY DEF Stream!Write
<1>2. PICK n \in Nat : n = Len(sent)
  BY Typed DEF StreamInv
<1>3. /\ sent \in Seq(Messages) /\ at.msg \in Nat /\ at.line \in Nat \ {0}
      /\ \A i \in 1 .. n : Len(sent[i]) \in Nat \ {0}
  BY <1>2, Typed DEF StreamInv
<1>4. /\ sent' \in Seq(Messages) /\ Len(sent') = n + 1
      /\ \A i \in 1 .. n : sent'[i] = sent[i]
      /\ sent'[n + 1] = m /\ Len(m) \in Nat
  <2>1. Len(m) \in Nat
    BY FrameLines
  <2> QED
    BY <1>1, <1>2, <1>3, <2>1
<1>5. \A j \in 1 .. n : Stream!First(j)' = Stream!First(j) /\ (Stream!Quiet(j)' <=> Stream!Quiet(j))
  BY <1>4 DEF Stream!First, Stream!Quiet
<1>6. /\ \A j \in 1 .. n : Begun(events, j)' <=> Begun(events, j)
      /\ \A j : NoneOf(events, j)' <=> NoneOf(events, j)
  BY <1>1, <1>5 DEF Begun, NoneOf
<1>7. StreamTypes'
  BY <1>1, <1>4 DEF StreamInv, StreamTypes, Stream!TypeOK
<1>8. Position'
  <2>1. at.msg <= n + 1 /\ (at.msg = n + 1 => at.line = 1) /\ (at.msg = 0 => at.line <= 2)
        /\ \A i \in 1 .. n : at.msg = i => at.line <= Len(sent[i]) + 2
    BY <1>2 DEF StreamInv, Position
  <2>2. at.msg <= n + 2 /\ at.msg # n + 2
    BY <1>3, <2>1
  <2>3. ASSUME at.msg \in 1 .. n + 1 PROVE at.line <= Len(sent'[at.msg]) + 2
    <3>1. CASE at.msg \in 1 .. n
      BY <1>4, <2>1, <3>1
    <3>2. CASE at.msg = n + 1
      <4>1. at.line = 1 /\ sent'[at.msg] = m
        BY <1>4, <2>1, <3>2
      <4>2. 1 <= Len(m) + 2
        BY <1>4
      <4> QED
        BY <4>1, <4>2
    <3>3. at.msg \in 1 .. n \/ at.msg = n + 1
      BY <2>3
    <3> QED
      BY <3>1, <3>2, <3>3
  <2> QED
    BY <1>1, <1>4, <2>1, <2>2, <2>3 DEF Position
<1>9. Sound(events, Len(sent))'
  <2>1. Sound(events, n)
    BY <1>2 DEF StreamInv
  <2>2. \A e \in DOMAIN events : events[e].data[1].of \in 1 .. n
    BY <2>1 DEF Sound
  <2>3. 1 .. n \subseteq 1 .. n + 1
    OBVIOUS
  <2>4. \A e, f \in DOMAIN events :
          events[e].data[1].of = events[f].data[1].of /\ Stream!Quiet(events[e].data[1].of)' =>
            /\ e = f
            /\ events[e] = [name |-> "update", data |-> <<Stream!First(events[e].data[1].of)'>>]
    <3> SUFFICES ASSUME NEW e \in DOMAIN events, NEW f \in DOMAIN events,
                        events[e].data[1].of = events[f].data[1].of,
                        Stream!Quiet(events[e].data[1].of)'
                 PROVE  /\ e = f
                        /\ events[e] = [name |-> "update",
                                        data |-> <<Stream!First(events[e].data[1].of)'>>]
      BY <1>1
    <3>1. PICK j \in 1 .. n : j = events[e].data[1].of
      BY <2>2
    <3>2. Stream!Quiet(j)'
      BY <1>1, <3>1 DEF Stream!Quiet
    <3>3. Stream!Quiet(events[e].data[1].of)
      BY <1>5, <3>1, <3>2
    <3>4. e = f /\ events[e] = [name |-> "update", data |-> <<Stream!First(events[e].data[1].of)>>]
      BY <2>1, <3>3 DEF Sound
    <3>5. Stream!First(events[e].data[1].of)' = Stream!First(j)
      BY <1>1, <1>5, <3>1 DEF Stream!First
    <3> QED
      BY <3>1, <3>4, <3>5
  <2> QED
    BY <1>1, <1>4, <2>1, <2>2, <2>3, <2>4 DEF Sound
<1>10. Buffers(events, fields, name, at.msg, at.line)'
  <2>1. Buffers(events, fields, name, at.msg, at.line)
    BY <1>1 DEF StreamInv
  <2>2. CASE at.msg \in 1 .. n
    BY <1>1, <1>2, <1>4, <1>5, <1>6, <2>1, <2>2 DEF Buffers
  <2>3. CASE at.msg \notin 1 .. n
    <3>1. at.msg = 0 \/ at.line = 1
      <4>1. at.msg <= n + 1 /\ (at.msg = n + 1 => at.line = 1)
        BY <1>2 DEF StreamInv, Position
      <4> QED
        BY <1>3, <2>3, <4>1
    <3>2. /\ at.msg = 0 => at.msg \notin 1 .. n + 1
          /\ at.line = 1 => at.line # 2 /\ ~(at.line > 2)
      OBVIOUS
    <3> QED
      BY <1>1, <1>2, <1>4, <1>6, <2>1, <3>1, <3>2 DEF Buffers
  <2> QED
    BY <2>2, <2>3
<1>11. (\A k \in 1 .. Len(sent) : k < at.msg => Begun(events, k))'
  <2> SUFFICES ASSUME NEW k \in 1 .. n + 1, k < at.msg PROVE Begun(events, k)'
    BY <1>1, <1>4
  <2>1. at.msg <= n + 1
    BY <1>2 DEF StreamInv, Position
  <2>2. k \in 1 .. n
    BY <1>3, <2>1
  <2> QED
    BY <1>2, <1>6, <2>2 DEF StreamInv
<1>12. /\ (\A e \in DOMAIN events : events[e].data[1].of <= at.msg)'
       /\ (at.line = 1 => NoneOf(events, at.msg))'
  BY <1>1 DEF StreamInv, NoneOf
<1> QED
  BY <1>1, <1>7, <1>8, <1>9, <1>10, <1>11, <1>12 DEF StreamInv

-----------------------------------------------------------------------------
\* What the stream's steps keep, the server's steps keep.
LEMMA StreamInit == Init => StreamInv
<1> SUFFICES ASSUME Init PROVE StreamInv
  OBVIOUS
<1>1. open = "off" /\ fields = <<>> /\ name = ""
  BY DEF Init, Stream!Init
<1>2. at = [msg |-> 0, line |-> 1]
  BY DEF Init, Stream!Init
<1>3. sent = <<>> /\ events = <<>>
  BY DEF Init, Stream!Init
<1>4. Len(sent) = 0 /\ \A e \in DOMAIN events : FALSE
  BY <1>3
<1>5. at.msg = 0 /\ at.line = 1 /\ at \in [msg : Nat, line : Nat \ {0}]
  BY <1>2
<1>6. StreamTypes
  BY <1>1, <1>3, <1>5, EmptySeq DEF StreamTypes, Stream!TypeOK, Stream!Names, Stream!Text
<1>7. Position /\ Sound(events, Len(sent)) /\ NoneOf(events, 0)
  BY <1>4, <1>5 DEF Position, Sound, NoneOf
<1>8. \A k \in 1 .. Len(sent) : k < at.msg => Begun(events, k)
  BY <1>4
<1>9. \A e \in DOMAIN events : events[e].data[1].of <= at.msg
  BY <1>4
<1> QED
  BY <1>1, <1>2, <1>5, <1>6, <1>7, <1>8, <1>9 DEF StreamInv

LEMMA StreamStill == StreamInv /\ UNCHANGED streaming => StreamInv'
<1> SUFFICES ASSUME StreamInv, UNCHANGED streaming PROVE StreamInv'
  OBVIOUS
<1>1. /\ open' = open /\ sent' = sent /\ at' = at /\ name' = name /\ fields' = fields
      /\ events' = events
  BY DEF streaming
<1>2. /\ \A j : Stream!First(j)' = Stream!First(j) /\ (Stream!Quiet(j)' <=> Stream!Quiet(j))
      /\ \A j : Begun(events, j)' <=> Begun(events, j)
      /\ NoneOf(events, at.msg)' <=> NoneOf(events, at.msg)
  BY <1>1 DEF Stream!First, Stream!Quiet, Begun, NoneOf
<1>3. Buffers(events, fields, name, at.msg, at.line)
      => Buffers(events, fields, name, at.msg, at.line)'
  <2>1. Begun(events, at.msg)' <=> Begun(events, at.msg)
    BY <1>1 DEF Begun, Stream!First
  <2> QED
    BY <1>1, <1>2, <2>1 DEF Buffers
<1>4. StreamTypes' /\ Position'
  BY <1>1 DEF StreamInv, StreamTypes, Stream!TypeOK, Position
<1>5. Sound(events, Len(sent))'
  <2>1. Sound(events, Len(sent))
    BY DEF StreamInv
  <2> QED
    BY <1>1, <1>2, <2>1 DEF Sound
<1> QED
  BY <1>1, <1>2, <1>3, <1>4, <1>5 DEF StreamInv

LEMMA ServerStep == StreamInv /\ [Next]_vars => StreamInv'
<1> SUFFICES ASSUME StreamInv, [Next]_vars PROVE StreamInv'
  OBVIOUS
<1>1. ASSUME NEW how, Exit(how) PROVE StreamInv'
  BY <1>1, ConnectionStep, StreamStill DEF Exit
<1>2. SetupFails \/ Drained \/ Deadline \/ ListenFails \/ ServeFails => StreamInv'
  BY <1>1 DEF SetupFails, Drained, Deadline, ListenFails, ServeFails
<1>3. Signal => StreamInv'
  BY <1>1, StreamStill DEF Signal
<1>4. \/ StartGoroutines \/ Notify \/ TakeSignal \/ Listen \/ ServeReturns \/ EndOfStdin
      \/ Exited \/ UNCHANGED vars
      => StreamInv'
  BY StreamStill DEF StartGoroutines, Notify, TakeSignal, Listen, ServeReturns, EndOfStdin,
                     Exited, vars
<1>5. ASSUME NEW c \in Conns, Accept(c) \/ ReadRequest(c) \/ Answer(c) \/ Hangup(c)
      PROVE  StreamInv'
  BY <1>5, StreamStill DEF Accept, ReadRequest, Answer, Hangup
<1>6. StreamStep => StreamInv'
  BY ConnectionStep, WriteStep, ReadStep DEF StreamStep
<1> QED
  BY <1>2, <1>3, <1>4, <1>5, <1>6 DEF Next, Main

\* Whatever HTML is published and wherever the process or the browser ends the
\* stream: events are of one message each and come in order, every message read to
\* its end has one, and a message without a line that is a field has just that.
THEOREM EventsStayInStep == Spec => []EventsInStep
<1>1. StreamInv => EventsInStep
  <2> SUFFICES ASSUME StreamInv PROVE EventsInStep
    OBVIOUS
  <2>1. DOMAIN sent = 1 .. Len(sent) /\ \A e : Stream!Of(e) = events[e].data[1].of
    BY Typed, LenProperties DEF StreamInv, Stream!Of
  <2>2. \A k \in DOMAIN sent : k < at.msg =>
          \E e \in DOMAIN events : events[e].data[1] = Stream!First(k)
    BY <2>1 DEF StreamInv, Begun
  <2> QED
    BY <2>1, <2>2 DEF StreamInv, Sound, EventsInStep, Stream!EventsInStep
<1> QED
  BY <1>1, StreamInit, ServerStep, PTL DEF Spec
-----------------------------------------------------------------------------
\* The types of what main and its goroutines keep.
ProcessTypes ==
  /\ main \in Mains
  /\ exit \in Exits
  /\ listener \in Listeners
  /\ pending \in BOOLEAN
  /\ signalled \in BOOLEAN
  /\ stdio \in {"off", "serving"}

\* A step of the process keeps them.
LEMMA ProcessStep == ProcessTypes /\ [Next]_vars => ProcessTypes'
<1> SUFFICES ASSUME ProcessTypes, [Next]_vars PROVE ProcessTypes'
  OBVIOUS
<1> USE DEF ProcessTypes, Mains, Exits, Listeners
<1>1. SetupFails \/ Drained \/ Deadline \/ ListenFails \/ ServeFails => ProcessTypes'
  BY DEF SetupFails, Drained, Deadline, ListenFails, ServeFails, Exit
<1>2. StartGoroutines \/ Notify \/ TakeSignal \/ Listen \/ ServeReturns => ProcessTypes'
  BY DEF StartGoroutines, Notify, TakeSignal, Listen, ServeReturns
<1>3. Signal => ProcessTypes'
  BY DEF Signal, Exit
<1>4. ASSUME NEW c \in Conns, Accept(c) \/ ReadRequest(c) \/ Answer(c) \/ Hangup(c)
      PROVE  ProcessTypes'
  BY <1>4 DEF Accept, ReadRequest, Answer, Hangup, process
<1>5. StreamStep \/ EndOfStdin \/ Exited \/ UNCHANGED vars => ProcessTypes'
  BY DEF StreamStep, EndOfStdin, Exited, vars, process
<1> QED
  BY <1>1, <1>2, <1>3, <1>4, <1>5 DEF Next, Main

\* Every variable has its type, and main has returned exactly when the process
\* ended, whoever ended it.
THEOREM TypeCorrect == Spec => []TypeOK
<1>1. Init => ProcessTypes
  BY DEF Init, ProcessTypes, Mains, Exits, Listeners
<1>2. Inv /\ StreamInv /\ ProcessTypes => TypeOK
  BY DEF Inv, DrainInv, StreamInv, StreamTypes, ProcessTypes, TypeOK
<1> QED
  BY <1>1, <1>2, InitInv, StepInv, StreamInit, ServerStep, ProcessStep, PTL DEF Spec
=============================================================================
