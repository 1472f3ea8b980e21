--------------------------- MODULE EventDelivery ---------------------------
(***************************************************************************)
(* An event from the transaction that enqueues it to the journal entry it  *)
(* books: the outbox relay and the consumer group, joined by the finance   *)
(* topic.  Both run in every replica of the service (cmd/server), so they  *)
(* share the bound on faults but no state other than the topic.            *)
(***************************************************************************)
EXTENDS Integers, Sequences, FiniteSets

CONSTANTS
  Event, Replica, NoReplica, BatchSize, MaxAttempts, Undeliverable,
  Document, Consumer, Nobody, Malformed, Irrelevant, MaxRetries, MaxFaults

VARIABLES
  created, earlier, stored, published, attempts, holder, relay,
  log,
  committed, owner, reader, booked, linked, unlinked, dlq, dropped, shut,
  faults

Relay == INSTANCE OutboxRelay
Group == INSTANCE EventConsumer WITH FreshGroup <- FALSE, MaxLog <- 0

ASSUME DeliveryAssumption == Relay!RelayAssumption /\ Group!ConsumerAssumption

outbox == << created, earlier, stored, published, attempts, holder, relay >>
group == << committed, owner, reader, booked, linked, unlinked, dlq, dropped,
            shut >>
vars == << outbox, log, group, faults >>

Init ==
  /\ Relay!RelayInit /\ Group!ConsumerInit
  /\ log = << >> /\ faults = 0

Next ==
  \/ Relay!RelayNext /\ UNCHANGED group
  \/ Group!ConsumerNext /\ UNCHANGED outbox

Safety == Init /\ [][Next]_vars

Spec == Safety /\ Relay!RelayFairness /\ Group!ConsumerFairness

-----------------------------------------------------------------------------
(* Properties. *)

\* The abstract pipeline: rows whose attempts are used up, dead letters and
\* dropped messages are what has been given up.
Exhausted == { e \in stored : attempts[e] >= MaxAttempts }

Promise == INSTANCE BookOnce WITH
             sent <- stored, books <- booked,
             givenUp <- Exhausted \cup dlq \cup dropped

\* The relay and the consumer together keep the promise of BookOnce: a
\* committed outbox row is booked at most once, only after it was committed,
\* and is booked or visibly given up in the end, whatever crashes, is sent
\* twice or changes owner on the way (docs/EVENT_CONTRACT.md:171-195).
PromiseKept == Promise!Spec
=============================================================================
