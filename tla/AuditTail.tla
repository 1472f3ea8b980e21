----------------------------- MODULE AuditTail -----------------------------
(***************************************************************************)
(* What an open page learns of changes (handlers/ws.go): a socket compares *)
(* the newest row of finance_audit_log with the one it saw last and pushes *)
(* audit.event when it is another.  Rows are written by one statement each *)
(* after a request or a booking (middleware/audit.go, consumer.go), carry  *)
(* the time that statement began at, and are seen once it commits; the     *)
(* reading a push leads to is a request too.                               *)
(***************************************************************************)
EXTENDS Naturals, FiniteSets

CONSTANTS
  Row,      \* rows written during the run, which bounds the requests
  Nothing,  \* the fingerprint of an empty table or a failed read
  Socket

RowAssumption == Nothing \notin Row

VARIABLES
  time,       \* the time each row's statement began at, 0 before
  clock,
  committed,  \* rows that can be seen
  socket,     \* each socket: open, the fingerprint it saw last
  untold,     \* by socket: what was committed since it read or pushed
  overtaken   \* rows committed after one that began no earlier

vars == << time, clock, committed, socket, untold, overtaken >>

Closed == [open |-> FALSE, last |-> Nothing]

Init ==
  /\ time = [r \in Row |-> 0] /\ clock = 1
  /\ committed = {} /\ overtaken = {}
  /\ socket = [s \in Socket |-> Closed]
  /\ untold = [s \in Socket |-> {}]

-----------------------------------------------------------------------------
(* The rows. *)

Unwritten == { r \in Row : time[r] = 0 }

\* NOW(), within a microsecond of the statement before or later.
Begin(r) ==
  /\ r \in Unwritten
  /\ \E now \in {clock, clock + 1} :
       clock' = now /\ time' = [time EXCEPT ![r] = now]
  /\ UNCHANGED << committed, socket, untold, overtaken >>

\* InsertAuditLog.
CommitRow(r) ==
  /\ time[r] > 0 /\ r \notin committed
  /\ committed' = committed \cup {r}
  /\ untold' = [s \in Socket |-> IF socket[s].open THEN untold[s] \cup {r} ELSE {}]
  /\ overtaken' = IF \E q \in committed : time[q] >= time[r]
                  THEN overtaken \cup {r} ELSE overtaken
  /\ UNCHANGED << time, clock, socket >>

-----------------------------------------------------------------------------
(* A socket. *)

\* Variant: the oldest row first.
NewestAscending(r) == \A q \in committed : time[r] <= time[q]

\* ORDER BY created_at DESC LIMIT 1
Newest(r) == \A q \in committed : time[r] >= time[q]

\* auditFingerprint: the row's id with its time.
Fingerprints ==
  IF committed = {} THEN {Nothing} ELSE { r \in committed : Newest(r) }

\* serve, once the token is verified; a read that fails reads nothing.
Connect(s) ==
  /\ ~ socket[s].open
  /\ \E f \in Fingerprints \cup {Nothing} :
       socket' = [socket EXCEPT ![s] = [open |-> TRUE, last |-> f]]
  /\ untold' = [untold EXCEPT ![s] = {}]
  /\ UNCHANGED << time, clock, committed, overtaken >>

\* Variant: only the first row is looked for.
MovedFromNothing(s, f) == f # Nothing /\ socket[s].last = Nothing

Moved(s, f) == f # Nothing /\ f # socket[s].last

\* audit.event; the page asks for its data again, which writes a row as well.
Push(s) ==
  /\ socket[s].open
  /\ \E f \in Fingerprints :
       /\ Moved(s, f)
       /\ socket' = [socket EXCEPT ![s] = [open |-> TRUE, last |-> f]]
  /\ untold' = [untold EXCEPT ![s] = {}]
  /\ UNCHANGED << time, clock, committed, overtaken >>

\* The client leaves, a write fails, or the process ends.
Disconnect(s) ==
  /\ socket[s].open
  /\ socket' = [socket EXCEPT ![s] = Closed]
  /\ untold' = [untold EXCEPT ![s] = {}]
  /\ UNCHANGED << time, clock, committed, overtaken >>

Next ==
  \/ \E r \in Row : Begin(r) \/ CommitRow(r)
  \/ \E s \in Socket : Connect(s) \/ Push(s) \/ Disconnect(s)

Spec == Init /\ [][Next]_vars

-----------------------------------------------------------------------------
(* Properties. *)

\* A socket with nothing more to push has told its page of every change: "A
\* change between polls means the ledger advanced" (ws.go:165), read the other
\* way.  It misses the row that began earlier and is committed later than the
\* newest, and no other.
ChangesPushed ==
  \A s \in Socket :
    socket[s].open /\ ~ (\E f \in Fingerprints : Moved(s, f)) =>
      untold[s] \subseteq overtaken
=============================================================================
