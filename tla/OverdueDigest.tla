--------------------------- MODULE OverdueDigest ---------------------------
(***************************************************************************)
(* The digest of overdue receivables (worker/overdue.go): a replica that   *)
(* gets the job lock lists the items that are overdue and were not         *)
(* notified in the last 24 hours, publishes one notification under a key   *)
(* of the day, and marks the items.  The publication is not awaited by     *)
(* anything and the notification service drops a key it has seen.          *)
(***************************************************************************)
EXTENDS Naturals, FiniteSets

CONSTANTS
  Item, Replica, Nobody,
  DayLength,  \* the clock's steps in 24 hours
  LastHour    \* bound of the clock

DayAssumption ==
  DayLength \in Nat \ {0} /\ LastHour \in Nat /\ Nobody \notin Replica

VARIABLES
  now,
  item,       \* open with its due time, and overdue_notified_at; 0: never
  lock,       \* holder of the advisory lock
  worker,     \* each replica's step and the items it listed
  delivered,  \* the digests sent on: their time and items
  slipped     \* ghost: items went unmarked, or a lock was lost, at some time

vars == << now, item, lock, worker, delivered, slipped >>

Day(t) == t \div DayLength
Waiting == [at |-> "wait", listed |-> {}]

Init ==
  /\ now = DayLength
  /\ item \in [Item -> [open : {TRUE}, due : {0, DayLength}, notified : {0}]]
  /\ lock = Nobody
  /\ worker = [w \in Replica |-> Waiting]
  /\ delivered = {} /\ slipped = FALSE

-----------------------------------------------------------------------------
Pass ==
  /\ now < LastHour /\ now' = now + 1
  /\ UNCHANGED << item, lock, worker, delivered, slipped >>

Pay(i) ==
  /\ item[i].open /\ item' = [item EXCEPT ![i].open = FALSE]
  /\ UNCHANGED << now, lock, worker, delivered, slipped >>

\* Variant: every replica runs the job.
LockIgnored == TRUE

LockFree == lock = Nobody

\* A tick, at any phase; without the lock it is skipped.
TickLocked(w) ==
  /\ worker[w].at = "wait" /\ LockFree
  /\ lock' = w
  /\ worker' = [worker EXCEPT ![w].at = "list"]
  /\ UNCHANGED << now, item, delivered, slipped >>

Unlock(w) == lock' = IF lock = w THEN Nobody ELSE lock

\* Variant: an item is listed from a day on, not from 24 hours on.
CooledByDay(i) == item[i].notified = 0 \/ Day(item[i].notified) < Day(now)

Cooled(i) == item[i].notified = 0 \/ item[i].notified + DayLength < now

ListOverdueAR ==
  { i \in Item : item[i].open /\ Day(item[i].due) < Day(now) /\ Cooled(i) }

\* Nothing to tell ends the tick.
List(w) ==
  /\ worker[w].at = "list"
  /\ IF ListOverdueAR = {}
     THEN worker' = [worker EXCEPT ![w] = Waiting] /\ Unlock(w)
     ELSE /\ worker' = [worker EXCEPT ![w] = [at |-> "publish", listed |-> ListOverdueAR]]
          /\ UNCHANGED lock
  /\ UNCHANGED << now, item, delivered, slipped >>

\* Variant: every digest has a key of its own.
NewKey == TRUE

\* The key is the day's, so a second digest of the day is a duplicate.
NewDay == \A d \in delivered : Day(d.at) # Day(now)

\* An error is logged and the items are marked all the same.
Publish(w, reaches) ==
  /\ worker[w].at = "publish"
  /\ delivered' = IF reaches /\ NewDay
                  THEN delivered \cup {[at |-> now, items |-> worker[w].listed]}
                  ELSE delivered
  /\ worker' = [worker EXCEPT ![w].at = "mark"]
  /\ UNCHANGED << now, item, lock, slipped >>

Mark(w) ==
  /\ worker[w].at = "mark"
  /\ item' = [i \in Item |-> IF i \in worker[w].listed
                             THEN [item[i] EXCEPT !.notified = now] ELSE item[i]]
  /\ worker' = [worker EXCEPT ![w] = Waiting] /\ Unlock(w)
  /\ UNCHANGED << now, delivered, slipped >>

\* The replica stops or its update fails: the digest is out, the items are not
\* marked.
Fail(w) ==
  /\ worker[w].at # "wait"
  /\ worker' = [worker EXCEPT ![w] = Waiting] /\ Unlock(w)
  /\ slipped' = (slipped \/ worker[w].at = "mark")
  /\ UNCHANGED << now, item, delivered >>

\* The session that holds the lock ends, and the job goes on.
LoseLock ==
  /\ lock # Nobody /\ lock' = Nobody /\ slipped' = TRUE
  /\ UNCHANGED << now, item, worker, delivered >>

Next ==
  \/ Pass \/ LoseLock
  \/ \E i \in Item : Pay(i)
  \/ \E w \in Replica :
       \/ TickLocked(w) \/ List(w) \/ Mark(w) \/ Fail(w)
       \/ \E reaches \in BOOLEAN : Publish(w, reaches)

Spec == Init /\ [][Next]_vars

-----------------------------------------------------------------------------
(* Properties. *)

\* "One digest per address per day" (overdue.go:98), whatever fails; and a
\* receivable is chased again only after 24 hours, as long as no replica failed
\* between publishing and marking and none lost its lock.
ChasedSparingly ==
  \A d, e \in delivered : d # e =>
    /\ Day(d.at) # Day(e.at)
    /\ (d.items \cap e.items # {} /\ d.at <= e.at /\ ~ slipped
         => e.at > d.at + DayLength)
=============================================================================
