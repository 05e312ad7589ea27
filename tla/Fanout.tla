------------------------------- MODULE Fanout -------------------------------
(***************************************************************************)
(* What the broker promises: a message is offered once to each of exactly  *)
(* the subscribers there are when its publication begins, nobody joins or  *)
(* leaves during a publication, an offer is accepted unless the inbox is   *)
(* full, and an inbox is emptied in the order it was filled.               *)
(***************************************************************************)
EXTENDS Naturals, Sequences

CONSTANTS Publishers, Subscribers, Msgs, Capacity, None

VARIABLES
  members,  \* the subscribers
  inbox,    \* their undelivered messages
  offer,    \* the message a publisher offers, None when it does not
  rest      \* whom it has still to offer it to

vars == <<members, inbox, offer, rest>>

Quiet == \A p \in Publishers : offer[p] = None

Init == /\ members = {}
        /\ inbox = [i \in Subscribers |-> <<>>]
        /\ offer = [p \in Publishers |-> None]
        /\ rest = [p \in Publishers |-> {}]

\* Whoever waits to publish starts at once, with the same subscribers.
Start == \E ps \in SUBSET Publishers, f \in [Publishers -> Msgs \cup {None}] :
  /\ \A p \in ps : offer[p] = None /\ f[p] # None
  /\ offer' = [p \in Publishers |-> IF p \in ps THEN f[p] ELSE offer[p]]
  /\ rest' = [p \in Publishers |-> IF p \in ps THEN members' ELSE rest[p]]

Begin == Start /\ UNCHANGED <<members, inbox>>

Join(i) == Quiet /\ i \notin members /\ inbox[i] = <<>>
           /\ members' = members \cup {i} /\ Start /\ UNCHANGED inbox

Quit(i) == Quiet /\ i \in members
           /\ members' = members \ {i} /\ Start
           /\ inbox' = [inbox EXCEPT ![i] = <<>>]

Offer(p, i) ==
  /\ offer[p] # None
  /\ i \in rest[p]
  /\ inbox' = IF Len(inbox[i]) < Capacity
              THEN [inbox EXCEPT ![i] = Append(@, offer[p])] ELSE inbox
  /\ rest' = [rest EXCEPT ![p] = @ \ {i}]
  /\ UNCHANGED <<members, offer>>

Finish(p) == /\ offer[p] # None
             /\ rest[p] = {}
             /\ offer' = [offer EXCEPT ![p] = None]
             /\ UNCHANGED <<members, inbox, rest>>

Take(i) == /\ i \in members
           /\ inbox[i] # <<>>
           /\ inbox' = [inbox EXCEPT ![i] = Tail(@)]
           /\ UNCHANGED <<members, offer, rest>>

Next == \/ Begin
        \/ \E i \in Subscribers : Join(i) \/ Quit(i) \/ Take(i)
        \/ \E p \in Publishers : Finish(p) \/ \E i \in Subscribers : Offer(p, i)

Spec == Init /\ [][Next]_vars
=============================================================================
