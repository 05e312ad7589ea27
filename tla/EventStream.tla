---------------------------- MODULE EventStream -----------------------------
(***************************************************************************)
(* One event stream: GET /stream (internal/engine) writes a comment and    *)
(* then a frame for each published message; a browser's EventSource reads  *)
(* lines and dispatches events.                                            *)
(*                                                                         *)
(* A message is the HTML of a page, written as it is, and only its lines   *)
(* matter to the framing.  The template of the page begins with a line     *)
(* break, so the first line is empty.  A text value keeps its line breaks  *)
(* and colons, so a later line can be blank, or look like a field of the   *)
(* protocol and be one.  A line counts as read when its end has arrived.   *)
(***************************************************************************)
EXTENDS Naturals, Sequences

CONSTANTS
  Messages,  \* published HTML, non-empty sequences of lines
  MaxSent    \* bound on the messages sent, a model bound

\* Lines of HTML.
Text == {"", "markup", "x", "data: x", "event: x"}

VARIABLES
  open,    \* the connection: off, accepted, open, or closed for good
  sent,    \* the messages the handler has written
  at,      \* the line the browser reads next: of which message (0 is the comment
           \* before the first), and which of its frame
  name,    \* the browser's event name buffer
  fields,  \* the browser's data buffer: lines, and the message each is of
  events   \* the events it dispatched

vars == <<open, sent, at, name, fields, events>>

Alive == open \in {"accepted", "open"}

\* A line on the wire: a comment, a field of the protocol, other text, or blank.
Names == Text \cup {"update"}
WireLine == [kind : {"comment", "event", "data", "other", "blank"}, text : Names]
Field(k, t) == [kind |-> k, text |-> t]
Line(t) == CASE t = "" -> Field("blank", "")
             [] t = "data: x" -> Field("data", "x")
             [] t = "event: x" -> Field("event", "x")
             [] OTHER -> Field("other", t)

DataLine == [of : Nat, text : Names]
Event == [name : Names, data : Seq(DataLine)]

Init == /\ open = "off" /\ sent = <<>>
        /\ at = [msg |-> 0, line |-> 1] /\ name = "" /\ fields = <<>> /\ events = <<>>
-----------------------------------------------------------------------------
\* The connection is accepted, and some time later the handler is called and
\* writes the comment.
Accept ==
  /\ open = "off"
  /\ open' = "accepted"
  /\ UNCHANGED <<sent, at, name, fields, events>>

Open ==
  /\ open = "accepted"
  /\ open' = "open"
  /\ UNCHANGED <<sent, at, name, fields, events>>

\* Mistake: a frame ends where its message ends.
UnterminatedFrame(m) ==
  <<Field("event", "update"), Field("data", m[1])>>
  \o [k \in 1 .. Len(m) - 1 |-> Line(m[k + 1])]

\* "event: update\ndata: %s\n\n": the message's first line is in the data field,
\* the others are on lines of their own.
Frame(m) ==
  <<Field("event", "update"), Field("data", m[1])>>
  \o [k \in 1 .. Len(m) - 1 |-> Line(m[k + 1])]
  \o <<Field("blank", "")>>

\* What the handler writes at first, and for its k-th message.
Written(k) == IF k = 0 THEN <<Field("comment", ""), Field("blank", "")>> ELSE Frame(sent[k])

\* The handler's loop writes and flushes a frame for a message of its channel.
Write(m) ==
  /\ open = "open"
  /\ Len(sent) < MaxSent
  /\ sent' = Append(sent, m)
  /\ UNCHANGED <<open, at, name, fields, events>>

\* The browser: data lines are collected, an event line sets the name, a blank
\* line dispatches what there is, anything else is ignored.
Read ==
  /\ open = "open"
  /\ at.msg <= Len(sent)
  /\ LET line == Written(at.msg)[at.line] IN
     /\ fields' = CASE line.kind = "data" -> Append(fields, [of |-> at.msg, text |-> line.text])
                    [] line.kind = "blank" -> <<>>
                    [] OTHER -> fields
     /\ name' = CASE line.kind = "event" -> line.text
                  [] line.kind = "blank" -> ""
                  [] OTHER -> name
     /\ events' = IF line.kind = "blank" /\ fields # <<>>
                  THEN Append(events, [name |-> name, data |-> fields]) ELSE events
  /\ at' = IF at.line < Len(Written(at.msg)) THEN [at EXCEPT !.line = @ + 1]
           ELSE [msg |-> at.msg + 1, line |-> 1]
  /\ UNCHANGED <<open, sent>>

\* Either end closes the connection: what has not arrived is lost, and the data
\* of an unfinished frame is not dispatched.
Cut ==
  /\ Alive
  /\ open' = "closed"
  /\ fields' = <<>> /\ name' = ""
  /\ UNCHANGED <<sent, at, events>>

Next == Accept \/ Open \/ (\E m \in Messages : Write(m)) \/ Read \/ Cut

Spec == Init /\ [][Next]_vars
-----------------------------------------------------------------------------
\* Every variable has its type.
TypeOK ==
  /\ open \in {"off", "accepted", "open", "closed"}
  /\ sent \in Seq(Messages)
  /\ at \in [msg : Nat, line : Nat \ {0}]
  /\ name \in Names
  /\ fields \in Seq(DataLine)
  /\ events \in Seq(Event)

\* The message an event is of, that of its first line, and the first line of the
\* HTML of a message.
Of(e) == events[e].data[1].of
First(k) == [of |-> k, text |-> sent[k][1]]

\* HTML none of whose later lines is a field.
Quiet(k) ==
  \A j \in 2 .. Len(sent[k]) : Line(sent[k][j]).kind \notin {"data", "event"}

\* Whatever the lines of the HTML are, a message's lines never run over into the
\* next one's: an event has lines of one message, events come in the order of the
\* messages, and a message read to its end has an event that begins with its first
\* line.  HTML without a line that is a field makes exactly one event, an
\* "update" (other HTML can add to it, rename it or add events).
EventsInStep ==
  /\ \A e \in DOMAIN events : \A i \in DOMAIN events[e].data : events[e].data[i].of = Of(e)
  /\ \A e, f \in DOMAIN events : e < f => Of(e) <= Of(f)
  /\ \A k \in DOMAIN sent : k < at.msg => \E e \in DOMAIN events : events[e].data[1] = First(k)
  /\ \A e, f \in DOMAIN events :
       Of(e) = Of(f) /\ Quiet(Of(e)) =>
         e = f /\ events[e] = [name |-> "update", data |-> <<First(Of(e))>>]

\* README.md:54 says that the rendered HTML is published to the SSE subscribers:
\* an event carries the HTML it was sent for.
EventsCarryTheHTML ==
  \A e \in DOMAIN events :
    [i \in DOMAIN events[e].data |-> events[e].data[i].text] = sent[Of(e)]
=============================================================================
