------------------------------ MODULE BookOnce ------------------------------
(***************************************************************************)
(* What the event pipeline promises for an event written to the outbox:    *)
(* it is booked, and never twice, or somebody is left a trace of it: a row *)
(* parked in the outbox or a message given up by the consumer.             *)
(***************************************************************************)
EXTENDS Integers

CONSTANTS
  Event,
  Irrelevant  \* events the ledger has no entry for

VARIABLES
  sent,    \* events whose outbox row has committed
  books,   \* posted journal entries of each event
  givenUp  \* events parked, dead-lettered or dropped

vars == << sent, books, givenUp >>

Init == sent = {} /\ books = [e \in Event |-> 0] /\ givenUp = {}

Send(e) ==
  /\ e \notin sent
  /\ sent' = sent \cup {e}
  /\ UNCHANGED << books, givenUp >>

Book(e) ==
  /\ e \in sent /\ books[e] = 0
  /\ books' = [books EXCEPT ![e] = 1]
  /\ UNCHANGED << sent, givenUp >>

GiveUp(e) ==
  /\ e \in sent /\ e \notin givenUp
  /\ givenUp' = givenUp \cup {e}
  /\ UNCHANGED << sent, books >>

Next == \E e \in Event : Send(e) \/ Book(e) \/ GiveUp(e)

Answered(e) == books[e] = 1 \/ e \in givenUp

Spec ==
  /\ Init /\ [][Next]_vars
  /\ \A e \in Event \ Irrelevant : e \in sent ~> Answered(e)
=============================================================================
