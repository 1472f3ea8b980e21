----------------------------- MODULE AuditChain -----------------------------
(***************************************************************************)
(* The audit hash chain: every transaction that appends to audit_events,   *)
(* an HTTP append or a mutation of the ledger, takes one advisory lock,    *)
(* reads the head, links the new event to it and keeps the lock until it   *)
(* commits or rolls back (chainaudit/audit.go).  A hash is modelled by the *)
(* id of the event it is computed over, the hash of no event by Genesis.   *)
(***************************************************************************)
EXTENDS Integers, FiniteSets, FiniteSetsExt

CONSTANTS
  Writer,  \* transactions that may append, one after another
  Nobody,
  MaxId    \* bound on the sequence behind audit_events.id

WriterAssumption == Nobody \notin Writer

VARIABLES
  events,   \* committed rows of audit_events: id and prev_hash
  pending,  \* rows each transaction has inserted and not committed
  lock,     \* holder of the advisory lock chainLockKey
  nextId,   \* the id sequence, which no rollback sets back
  tx        \* the step of each transaction and the head it has read

vars == << events, pending, lock, nextId, tx >>

Genesis == 0
Idle == [at |-> "idle", head |-> Genesis]

Init ==
  /\ events = {} /\ lock = Nobody /\ nextId = 1
  /\ pending = [w \in Writer |-> {}]
  /\ tx = [w \in Writer |-> Idle]

Goto(w, step) == [tx EXCEPT ![w].at = step]

\* The event with the highest id of a set of rows.
Head(rows) == Max({ e.id : e \in rows } \cup {Genesis})

\* Variant: only ledger mutations take the lock, the HTTP append does not.
CanLockAnyway(w) == TRUE

\* pg_advisory_xact_lock: re-entrant, and waits for any other holder.
CanLock(w) == lock \in {Nobody, w}

-----------------------------------------------------------------------------
(* AppendChainTx, and the transaction around it. *)

\* A transaction comes to its first or its next append.
Append(w) ==
  /\ tx[w].at \in {"idle", "open"}
  /\ nextId <= MaxId
  /\ tx' = Goto(w, "lock")
  /\ UNCHANGED << events, pending, lock, nextId >>

TakeLock(w) ==
  /\ tx[w].at = "lock" /\ CanLock(w)
  /\ lock' = w
  /\ tx' = Goto(w, "read")
  /\ UNCHANGED << events, pending, nextId >>

\* What is committed when the statement starts, and the transaction's own rows.
ReadHead(w) ==
  /\ tx[w].at = "read"
  /\ tx' = [tx EXCEPT ![w] =
              [at |-> "insert", head |-> Head(events \cup pending[w])]]
  /\ UNCHANGED << events, pending, lock, nextId >>

Insert(w) ==
  /\ tx[w].at = "insert" /\ nextId <= MaxId
  /\ pending' = [pending EXCEPT ![w] =
                   @ \cup {[id |-> nextId, prev |-> tx[w].head]}]
  /\ nextId' = nextId + 1
  /\ tx' = Goto(w, "open")
  /\ UNCHANGED << events, lock >>

Ends(w) ==
  /\ pending' = [pending EXCEPT ![w] = {}]
  /\ lock' = IF lock = w THEN Nobody ELSE lock
  /\ tx' = [tx EXCEPT ![w] = Idle]
  /\ UNCHANGED nextId

Commit(w) ==
  /\ tx[w].at = "open"
  /\ events' = events \cup pending[w]
  /\ Ends(w)

\* An error of the transaction at any point, or its connection is lost.
Rollback(w) ==
  /\ tx[w].at # "idle"
  /\ Ends(w)
  /\ UNCHANGED events

Next ==
  \E w \in Writer :
    \/ Append(w) \/ TakeLock(w) \/ ReadHead(w) \/ Insert(w)
    \/ Commit(w) \/ Rollback(w)

Spec == Init /\ [][Next]_vars

-----------------------------------------------------------------------------
(* Properties. *)

\* Verify, which walks the committed rows in the order of their ids: each
\* names the hash of the one before it, and the first none.
Before(e) == { f \in events : f.id < e.id }
Verify == \A e \in events : e.prev = Head(Before(e))

\* At no time does Verify report a chain broken that nobody touched: writers
\* that race, roll back, use up ids or append twice in one transaction leave
\* no fork and no gap (chainaudit/audit.go:14-18, 126-129).
ChainVerifies == Verify
=============================================================================
