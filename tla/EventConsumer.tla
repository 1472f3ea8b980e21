--------------------------- MODULE EventConsumer ---------------------------
(***************************************************************************)
(* The consumer of the finance topic: the fetch, retry, dead-letter and    *)
(* commit loop of platform-go's Consumer around the handler that books an  *)
(* event (BookFromEvent) and links the open item it belongs to.  The       *)
(* broker hands the partition to one member of the group at a time, but a  *)
(* member that lost it goes on with the message it holds.                  *)
(***************************************************************************)
EXTENDS Integers, Sequences

CONSTANTS
  Event,       \* envelope ids
  Consumer,    \* members of the consumer group
  Nobody,
  Malformed,   \* events whose handler returns a PermanentError
  Irrelevant,  \* events the handler ignores: other types, a zero amount
  MaxRetries,  \* ConsumerConfig.MaxRetries
  FreshGroup,  \* the group starts without a committed offset
  MaxLog,      \* bound: messages on the topic
  MaxFaults    \* bound: crashes, rebalances and failed calls

ASSUME ConsumerAssumption ==
  /\ Nobody \notin Consumer
  /\ MaxRetries \in Nat /\ MaxLog \in Nat /\ MaxFaults \in Nat
  /\ FreshGroup \in BOOLEAN

VARIABLES
  log,       \* the topic, as one partition
  committed, \* the group's committed offset; -1 when there is none
  owner,     \* the member the partition is assigned to
  reader,    \* per member: its step, the offset it handles, the next, retries
  booked,    \* posted journal entries of each event
  linked,    \* events whose open item carries the journal entry
  unlinked,  \* events whose link failed; only a log line says so
  dlq,       \* events on the dead-letter topic
  dropped,   \* events the dead-letter topic did not take
  shut,      \* the event's period and the current one are both closed
  faults     \* faults so far

consumerVars == << committed, owner, reader, booked, linked, unlinked, dlq,
                   dropped, shut >>

Step == {"idle", "handle", "check", "insert", "link", "dlq", "commit"}
Reader == [at: Step, pos: Nat, next: Nat, tries: Nat]

ConsumerInit ==
  /\ committed = IF FreshGroup THEN -1 ELSE 0
  /\ owner \in Consumer
  /\ reader = [c \in Consumer |-> [at |-> "idle", pos |-> 0, next |-> 0,
                                   tries |-> 0]]
  /\ booked = [e \in Event |-> 0]
  /\ linked = {} /\ unlinked = {} /\ dlq = {} /\ dropped = {}
  /\ shut = FALSE

Fault == faults < MaxFaults /\ faults' = faults + 1
NoFault == faults' = faults

\* The event c has in hand: offsets count from 0.
Held(c) == log[reader[c].pos + 1]

Goto(c, at) == reader' = [reader EXCEPT ![c].at = at]

\* process: try again until MaxRetries retries have failed.
Retry(c) ==
  LET at == IF reader[c].tries < MaxRetries THEN "handle" ELSE "dlq"
  IN  reader' = [reader EXCEPT ![c] = [at |-> at, pos |-> @.pos, next |-> @.next,
                                      tries |-> @.tries + 1]]

-----------------------------------------------------------------------------
(* The world around the consumer. *)

\* A message is published on the topic.
Arrive(e) ==
  /\ Len(log) < MaxLog
  /\ log' = Append(log, e)
  /\ UNCHANGED << committed, owner, reader, booked, linked, unlinked, dlq,
                  dropped, shut, faults >>

\* An accountant closes the last open period, or reopens one.
CloseOrReopen ==
  /\ shut' = ~ shut
  /\ UNCHANGED << log, committed, owner, reader, booked, linked, unlinked, dlq,
                  dropped, faults >>

\* The coordinator assigns the partition: c goes on at the committed offset,
\* and at the end of the log when there is none (StartOffset: LastOffset).
\* What c was handling before is not interrupted.
Assign(c) ==
  /\ owner # c
  /\ owner' = c
  /\ reader' = [reader EXCEPT
                  ![c].next = IF committed = -1 THEN Len(log) ELSE committed]
  /\ IF owner = Nobody THEN NoFault ELSE Fault
  /\ UNCHANGED << log, committed, booked, linked, unlinked, dlq, dropped,
                  shut >>

\* The process of c dies with whatever it had in hand.
ConsumerCrash(c) ==
  /\ owner' = IF owner = c THEN Nobody ELSE owner
  /\ Goto(c, "idle")
  /\ Fault
  /\ UNCHANGED << log, committed, booked, linked, unlinked, dlq, dropped,
                  shut >>

-----------------------------------------------------------------------------
(* One message. *)

\* Variant: the offset is committed on fetch.
FetchMessageCommitted(c) ==
  /\ owner = c /\ reader[c].at = "idle" /\ reader[c].next < Len(log)
  /\ committed' = reader[c].next + 1
  /\ reader' = [reader EXCEPT ![c] = [at |-> "handle", pos |-> @.next,
                                     next |-> @.next + 1, tries |-> 0]]
  /\ NoFault
  /\ UNCHANGED << log, owner, booked, linked, unlinked, dlq, dropped, shut >>

FetchMessage(c) ==
  /\ owner = c /\ reader[c].at = "idle" /\ reader[c].next < Len(log)
  /\ reader' = [reader EXCEPT ![c] = [at |-> "handle", pos |-> @.next,
                                     next |-> @.next + 1, tries |-> 0]]
  /\ NoFault
  /\ UNCHANGED << log, committed, owner, booked, linked, unlinked, dlq, dropped,
                  shut >>

\* Handle: another event type, or nothing to book.
Ignore(c) ==
  /\ reader[c].at = "handle" /\ Held(c) \in Irrelevant
  /\ Goto(c, "commit")
  /\ NoFault
  /\ UNCHANGED << log, committed, owner, booked, linked, unlinked, dlq, dropped,
                  shut >>

\* Handle: the payload does not parse; a PermanentError is not retried.
Reject(c) ==
  /\ reader[c].at = "handle" /\ Held(c) \in Malformed \ Irrelevant
  /\ Goto(c, "dlq")
  /\ NoFault
  /\ UNCHANGED << log, committed, owner, booked, linked, unlinked, dlq, dropped,
                  shut >>

\* BookFromEvent: with both periods closed resolvePostingWindow returns
\* ErrPeriodClosed, which is not a PermanentError.
ResolveWindow(c) ==
  /\ reader[c].at = "handle" /\ Held(c) \notin Malformed \cup Irrelevant
  /\ IF shut THEN Retry(c) ELSE Goto(c, "check")
  /\ NoFault
  /\ UNCHANGED << log, committed, owner, booked, linked, unlinked, dlq, dropped,
                  shut >>

\* Variant: an event already booked is answered without its link.
CheckProcessedNoLink(c) ==
  /\ reader[c].at = "check"
  /\ Goto(c, IF booked[Held(c)] > 0 THEN "commit" ELSE "insert")
  /\ NoFault
  /\ UNCHANGED << log, committed, owner, booked, linked, unlinked, dlq, dropped,
                  shut >>

\* BookPostedEntry: IsEventProcessed, before the transaction.
CheckProcessed(c) ==
  /\ reader[c].at = "check"
  /\ Goto(c, IF booked[Held(c)] > 0 THEN "link" ELSE "insert")
  /\ NoFault
  /\ UNCHANGED << log, committed, owner, booked, linked, unlinked, dlq, dropped,
                  shut >>

\* Variant: the entry carries no source_event_id, so no index stops a second.
InsertEntryUnindexed(c) ==
  /\ reader[c].at = "insert"
  /\ booked' = [booked EXCEPT ![Held(c)] = @ + 1]
  /\ \/ Goto(c, "link") /\ NoFault
     \/ Retry(c) /\ Fault
  /\ UNCHANGED << log, committed, owner, linked, unlinked, dlq, dropped, shut >>

\* The transaction: the unique index on source_event_id and the primary key of
\* processed_events let it commit once.  The commit can succeed and its answer
\* be lost.
InsertEntry(c) ==
  /\ reader[c].at = "insert" /\ booked[Held(c)] = 0
  /\ booked' = [booked EXCEPT ![Held(c)] = @ + 1]
  /\ \/ Goto(c, "link") /\ NoFault
     \/ Retry(c) /\ Fault
  /\ UNCHANGED << log, committed, owner, linked, unlinked, dlq, dropped, shut >>

\* The transaction meets the entry of a concurrent one and returns that.
InsertDuplicate(c) ==
  /\ reader[c].at = "insert" /\ booked[Held(c)] > 0
  /\ Goto(c, "link")
  /\ NoFault
  /\ UNCHANGED << log, committed, owner, booked, linked, unlinked, dlq, dropped,
                  shut >>

\* linkOpenItem: the open item of the document gets the entry's id.
Link(c) ==
  /\ reader[c].at = "link"
  /\ linked' = linked \cup {Held(c)}
  /\ Goto(c, "commit")
  /\ NoFault
  /\ UNCHANGED << log, committed, owner, booked, unlinked, dlq, dropped, shut >>

\* The link's update fails: a warning, and the handler still returns nil.
LinkFails(c) ==
  /\ reader[c].at = "link"
  /\ unlinked' = unlinked \cup {Held(c)}
  /\ Goto(c, "commit")
  /\ Fault
  /\ UNCHANGED << log, committed, owner, booked, linked, dlq, dropped, shut >>

\* Any database call of the handler fails before the booking commits.
HandlerFails(c) ==
  /\ reader[c].at \in {"handle", "check", "insert"}
  /\ Held(c) \notin Malformed \cup Irrelevant
  /\ Retry(c)
  /\ Fault
  /\ UNCHANGED << log, committed, owner, booked, linked, unlinked, dlq, dropped,
                  shut >>

ToDLQ(c) ==
  /\ reader[c].at = "dlq"
  /\ dlq' = dlq \cup {Held(c)}
  /\ Goto(c, "commit")
  /\ NoFault
  /\ UNCHANGED << log, committed, owner, booked, linked, unlinked, dropped,
                  shut >>

\* The publish to the dead-letter topic fails: toDLQ logs it, Run commits.
ToDLQFails(c) ==
  /\ reader[c].at = "dlq"
  /\ dropped' = dropped \cup {Held(c)}
  /\ Goto(c, "commit")
  /\ Fault
  /\ UNCHANGED << log, committed, owner, booked, linked, unlinked, dlq, shut >>

\* commit: the coordinator takes it from the owner only; an error is logged.
Commit(c) ==
  /\ reader[c].at = "commit"
  /\ committed' = IF owner = c THEN reader[c].pos + 1 ELSE committed
  /\ Goto(c, "idle")
  /\ NoFault
  /\ UNCHANGED << log, owner, booked, linked, unlinked, dlq, dropped, shut >>

CommitFails(c) ==
  /\ reader[c].at = "commit" /\ owner = c
  /\ Goto(c, "idle")
  /\ Fault
  /\ UNCHANGED << log, committed, owner, booked, linked, unlinked, dlq, dropped,
                  shut >>

-----------------------------------------------------------------------------
\* What a member does by itself when nothing fails.
ReaderStep(c) ==
  \/ FetchMessage(c) \/ Ignore(c) \/ Reject(c) \/ ResolveWindow(c)
  \/ CheckProcessed(c) \/ InsertEntry(c) \/ InsertDuplicate(c) \/ Link(c)
  \/ ToDLQ(c) \/ Commit(c)

MemberNext(c) ==
  \/ Assign(c) \/ ConsumerCrash(c)
  \/ ReaderStep(c)
  \/ HandlerFails(c) \/ LinkFails(c) \/ ToDLQFails(c) \/ CommitFails(c)

ConsumerNext == CloseOrReopen \/ \E c \in Consumer : MemberNext(c)

vars == << log, committed, owner, reader, booked, linked, unlinked, dlq,
           dropped, shut, faults >>

\* The loop of every member runs for ever, and the coordinator finds an owner
\* for a partition that has none.  Closing and reopening are not promised.
ConsumerFairness ==
  /\ \A c \in Consumer : WF_vars(ReaderStep(c))
  /\ WF_vars(\E c \in Consumer : owner = Nobody /\ Assign(c))

Init == ConsumerInit /\ log = << >> /\ faults = 0

ConsumerSpec ==
  /\ Init
  /\ [][ConsumerNext \/ \E e \in Event : Arrive(e)]_vars
  /\ ConsumerFairness

-----------------------------------------------------------------------------
(* Properties. *)

Disposed(e) == e \in Irrelevant \cup dlq \cup dropped
Answered(e) == booked[e] > 0 \/ Disposed(e)

ConsumerTypeOK ==
  /\ log \in Seq(Event)
  /\ committed \in Nat \cup {-1} /\ committed <= Len(log)
  /\ owner \in Consumer \cup {Nobody}
  /\ reader \in [Consumer -> Reader]
  /\ \A c \in Consumer :
       /\ reader[c].next <= Len(log)
       /\ reader[c].at # "idle" => reader[c].pos < Len(log)
  /\ booked \in [Event -> Nat]
  /\ linked \subseteq Event /\ unlinked \subseteq Event
  /\ dlq \subseteq Event /\ dropped \subseteq Event
  /\ shut \in BOOLEAN /\ faults \in Nat

\* Redelivery, two members holding one message at once, and a commit whose
\* answer is lost book an event at most once (BookPostedEntry).
BookedAtMostOnce == \A e \in Event : booked[e] <= 1

\* An offset is committed only when every message below it has been answered:
\* booked, ignored, sent to the dead-letter topic or dropped on the way there.
CommittedIsAnswered ==
  ~ FreshGroup => \A i \in 1 .. committed : Answered(log[i])

\* A crash between the booking and the link of its open item is repaired by
\* the redelivery: below the committed offset a booked event is linked unless
\* an error was swallowed or a later delivery ended in the dead-letter path.
CommittedIsLinked ==
  ~ FreshGroup =>
    \A i \in 1 .. committed :
      booked[log[i]] > 0 => \/ log[i] \in linked \cup unlinked
                            \/ Disposed(log[i])

\* A committed message is done with (Run, linkOpenItem).
CommittedIsDone == CommittedIsAnswered /\ CommittedIsLinked

\* Every message on the topic is answered in the end, whatever crashes.
EveryMessageAnswered ==
  \A i \in 1 .. MaxLog :
    i <= Len(log) ~> (i <= Len(log) /\ Answered(log[i]))
=============================================================================
