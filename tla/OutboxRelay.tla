---------------------------- MODULE OutboxRelay ----------------------------
(***************************************************************************)
(* The transactional outbox and the relay worker that drains it onto the   *)
(* finance topic.  Every replica runs a relay; a session advisory lock     *)
(* lets one of them drain at a time.  One action is one database statement *)
(* or one broker call.                                                     *)
(***************************************************************************)
EXTENDS Integers, Sequences, FiniteSets

CONSTANTS
  Event,        \* outbox event ids (event_id is unique in the table)
  Replica,      \* instances of the service, each with a relay
  NoReplica,
  BatchSize,    \* outboxBatchSize
  MaxAttempts,  \* maxPublishAttempts
  Undeliverable,\* events no broker call ever delivers (or decode ever reads)
  Document,     \* the events of each document, which share a partition key
  MaxFaults     \* bound: crashes, lost locks and failed calls in a behaviour

ASSUME RelayAssumption ==
  /\ NoReplica \notin Replica
  /\ BatchSize \in Nat \ {0} /\ MaxAttempts \in Nat \ {0}
  /\ MaxFaults \in Nat
  /\ Undeliverable \subseteq Event

VARIABLES
  created,   \* created_at: when the row's transaction began; 0 = never
  earlier,   \* history: the rows already committed when it began
  stored,    \* event_outbox rows whose transaction has committed
  published, \* rows with published_at set
  attempts,  \* attempts of each row
  holder,    \* the session that holds JobLockOutboxRelay
  relay,     \* per replica: where its pass is, and the rows left of it
  log,       \* the topic, as one partition
  faults     \* faults so far

relayVars == << created, earlier, stored, published, attempts, holder, relay >>

At == {"idle", "fetch", "publish", "delivered", "failed"}
Pass == [at: At, batch: SUBSET Event]
NoPass == [at |-> "idle", batch |-> {}]

RelayInit ==
  /\ created = [e \in Event |-> 0]
  /\ earlier = [e \in Event |-> {}]
  /\ stored = {} /\ published = {}
  /\ attempts = [e \in Event |-> 0]
  /\ holder = NoReplica
  /\ relay = [r \in Replica |-> NoPass]

Fault == faults < MaxFaults /\ faults' = faults + 1
NoFault == faults' = faults

-----------------------------------------------------------------------------
(* The producers.  created_at is NOW(), which PostgreSQL fixes when the     *)
(* transaction begins: a row can become visible after younger rows did.     *)

\* A transaction that will enqueue e begins.
BeginTx(e) ==
  /\ created[e] = 0
  /\ created' = [created EXCEPT ![e] =
                   Cardinality({f \in Event : created[f] > 0}) + 1]
  /\ earlier' = [earlier EXCEPT ![e] = stored]
  /\ UNCHANGED << stored, published, attempts, holder, relay, log, faults >>

\* enqueueOutboxTx: the row commits with the state change it announces.
CommitTx(e) ==
  /\ created[e] > 0 /\ e \notin stored
  /\ stored' = stored \cup {e}
  /\ UNCHANGED << created, earlier, published, attempts, holder, relay, log,
                  faults >>

-----------------------------------------------------------------------------
(* The drain pass. *)

\* FetchUnpublishedOutbox: unpublished rows that have attempts left.
Due == { e \in stored \ published : attempts[e] < MaxAttempts }

\* ORDER BY created_at LIMIT BatchSize.
FirstBatch ==
  { e \in Due : Cardinality({f \in Due : created[f] < created[e]}) < BatchSize }

\* The row of the batch the loop is at.
Current(r) ==
  CHOOSE e \in relay[r].batch :
    \A f \in relay[r].batch : created[e] <= created[f]

Goto(r, at) == relay' = [relay EXCEPT ![r].at = at]
NextRow(r) ==
  relay' = [relay EXCEPT ![r] = [at |-> "publish",
                                 batch |-> @.batch \ {Current(r)}]]

\* Variant: the pass runs without the job lock.
TryLockUnguarded(r) ==
  /\ relay[r].at = "idle"
  /\ holder' = r
  /\ Goto(r, "fetch")
  /\ NoFault
  /\ UNCHANGED << created, earlier, stored, published, attempts, log >>

\* WithJobLock: pg_try_advisory_lock on a connection of its own.
TryLock(r) ==
  /\ relay[r].at = "idle"
  /\ holder = NoReplica
  /\ holder' = r
  /\ Goto(r, "fetch")
  /\ NoFault
  /\ UNCHANGED << created, earlier, stored, published, attempts, log >>

Fetch(r) ==
  /\ relay[r].at = "fetch"
  /\ relay' = [relay EXCEPT ![r] = [at |-> "publish", batch |-> FirstBatch]]
  /\ NoFault
  /\ UNCHANGED << created, earlier, stored, published, attempts, holder, log >>

\* PublishRaw returns nil: RequireAll has acknowledged the message.
Publish(r) ==
  /\ relay[r].at = "publish" /\ relay[r].batch # {}
  /\ Current(r) \notin Undeliverable
  /\ log' = Append(log, Current(r))
  /\ Goto(r, "delivered")
  /\ NoFault
  /\ UNCHANGED << created, earlier, stored, published, attempts, holder >>

\* Variant: the publish error is logged and swallowed, as Bus.Publish does.
PublishFailsSwallowed(r) ==
  /\ relay[r].at = "publish" /\ relay[r].batch # {}
  /\ \/ Current(r) \in Undeliverable /\ NoFault
     \/ Fault
  /\ Goto(r, "delivered")
  /\ UNCHANGED << created, earlier, stored, published, attempts, holder, log >>

\* The payload does not decode, or the broker refuses or cannot be reached.
PublishFails(r) ==
  /\ relay[r].at = "publish" /\ relay[r].batch # {}
  /\ \/ Current(r) \in Undeliverable /\ NoFault
     \/ Fault
  /\ Goto(r, "failed")
  /\ UNCHANGED << created, earlier, stored, published, attempts, holder, log >>

\* The broker stores the message and the acknowledgement is lost.
PublishAckLost(r) ==
  /\ relay[r].at = "publish" /\ relay[r].batch # {}
  /\ Current(r) \notin Undeliverable
  /\ log' = Append(log, Current(r))
  /\ Goto(r, "failed")
  /\ Fault
  /\ UNCHANGED << created, earlier, stored, published, attempts, holder >>

\* MarkOutboxPublished, then the next row.
MarkOutboxPublished(r) ==
  /\ relay[r].at = "delivered"
  /\ published' = published \cup {Current(r)}
  /\ NextRow(r)
  /\ NoFault
  /\ UNCHANGED << created, earlier, stored, attempts, holder, log >>

\* Variant: the failed attempt is not counted.
MarkOutboxFailedUncounted(r) ==
  /\ relay[r].at = "failed"
  /\ NextRow(r)
  /\ NoFault
  /\ UNCHANGED << created, earlier, stored, published, attempts, holder, log >>

\* MarkOutboxFailed, then "continue" with the next row.
MarkOutboxFailed(r) ==
  /\ relay[r].at = "failed"
  /\ attempts' = [attempts EXCEPT ![Current(r)] = @ + 1]
  /\ NextRow(r)
  /\ NoFault
  /\ UNCHANGED << created, earlier, stored, published, holder, log >>

\* Either update fails; the error is logged and the loop goes on.
MarkIsLost(r) ==
  /\ relay[r].at \in {"delivered", "failed"}
  /\ NextRow(r)
  /\ Fault
  /\ UNCHANGED << created, earlier, stored, published, attempts, holder, log >>

\* The pass ends: pg_advisory_unlock, or the connection is closed.
Unlock(r) ==
  /\ relay[r].at = "publish" /\ relay[r].batch = {}
  /\ holder' = IF holder = r THEN NoReplica ELSE holder
  /\ relay' = [relay EXCEPT ![r] = NoPass]
  /\ NoFault
  /\ UNCHANGED << created, earlier, stored, published, attempts, log >>

\* The process dies; PostgreSQL drops the lock with the session.
RelayCrash(r) ==
  /\ relay[r].at # "idle"
  /\ holder' = IF holder = r THEN NoReplica ELSE holder
  /\ relay' = [relay EXCEPT ![r] = NoPass]
  /\ Fault
  /\ UNCHANGED << created, earlier, stored, published, attempts, log >>

\* The locking connection alone dies: the pass goes on without the lock.
LockLost(r) ==
  /\ holder = r
  /\ holder' = NoReplica
  /\ Fault
  /\ UNCHANGED << created, earlier, stored, published, attempts, relay, log >>

\* What the relay of one replica does by itself.
RelayStep(r) ==
  \/ Fetch(r) \/ Publish(r)
  \/ /\ relay[r].batch # {} /\ Current(r) \in Undeliverable
     /\ PublishFails(r)
  \/ MarkOutboxPublished(r) \/ MarkOutboxFailed(r) \/ Unlock(r)

RelayNext ==
  \/ \E e \in Event : BeginTx(e) \/ CommitTx(e)
  \/ \E r \in Replica :
       \/ TryLock(r) \/ Fetch(r) \/ Publish(r) \/ PublishFails(r)
       \/ PublishAckLost(r) \/ MarkOutboxPublished(r) \/ MarkOutboxFailed(r)
       \/ MarkIsLost(r) \/ Unlock(r) \/ RelayCrash(r) \/ LockLost(r)

vars == << created, earlier, stored, published, attempts, holder, relay,
           log, faults >>

\* The ticker of every replica fires for ever, and a pass runs to its end
\* unless a fault stops it.  No single replica is promised the lock.
RelayFairness ==
  /\ WF_vars(\E r \in Replica : TryLock(r))
  /\ \A r \in Replica : WF_vars(RelayStep(r))

Init == RelayInit /\ log = << >> /\ faults = 0

RelaySpec ==
  /\ Init
  /\ [][RelayNext]_vars
  /\ RelayFairness

-----------------------------------------------------------------------------
(* Properties. *)

InLog(e) == \E i \in 1 .. Len(log) : log[i] = e
Copies(e) == Cardinality({ i \in 1 .. Len(log) : log[i] = e })
Parked(e) == e \in stored \ published /\ attempts[e] >= MaxAttempts

\* A row stamped published_at has been acknowledged by the broker at some
\* time, whatever crashed, timed out or lost its lock in between (drain,
\* PublishRaw): the stamp removes the row from the work queue for good.
PublishedIsInLog == \A e \in published : InLog(e)

\* An event is on the topic a second time only because something failed: the
\* job lock keeps the relays of two healthy replicas from publishing the same
\* row twice (drainLocked, WithJobLock).
DuplicatesNeedFaults == \A e \in Event : Copies(e) <= 1 + faults

\* A stamped row was published, and once unless something failed.
StampedIsPublished == PublishedIsInLog /\ DuplicatesNeedFaults

\* Every committed row is published in the end, or parked after its attempts
\* are used up; an undeliverable row at the head of the queue does not starve
\* the rows behind it (the attempts cap of FetchUnpublishedOutbox).
EveryRowDelivered ==
  \A e \in Event : e \in stored ~> (InLog(e) \/ Parked(e))

\* docs/EVENT_CONTRACT.md:165: all events of one document are ordered.  An
\* event reaches the topic only after those of the same document that were
\* committed before its own transaction began (drain, the partition key).
DocumentEventsInOrder ==
  [][ \A e, f \in Event :
        ( /\ \E d \in Document : {e, f} \subseteq d
          /\ e \in earlier[f]
          /\ Len(log') > Len(log) /\ log'[Len(log')] = f ) => InLog(e) ]_vars
=============================================================================
