------------------------------ MODULE Journal ------------------------------
(***************************************************************************)
(* The general-ledger journal of iag-finance: journal entries and their    *)
(* lifecycle, fiscal periods, the source-event dedupe and the audit record *)
(* that each ledger transaction writes.                                    *)
(*                                                                         *)
(* Every request handler is split where the code leaves one database       *)
(* statement or transaction and starts another; what one transaction does  *)
(* is one action.  PostgreSQL runs at READ COMMITTED, so a value read in   *)
(* one step may be stale in the next unless a row lock protects it.        *)
(***************************************************************************)
EXTENDS Integers, FiniteSets

CONSTANTS
  Entry,      \* primary keys the database may hand out
  Event,      \* ids of bus events, booked straight to 'posted'
  Run,        \* source ids of documents drafted first (payroll runs)
  Doc,        \* foreign document references (correlation_id)
  Worker,     \* event handlers that may be booking at the same time
  Caller,     \* API calls that may be superseding at the same time
  LastPeriod, \* bound: fiscal months 1 .. LastPeriod
  Occurred,   \* the month each bus event says it happened in
  Amount,     \* nominal amounts of an entry
  NoEntry, NoSource, NoDoc

Period == 1 .. LastPeriod
Source == Event \cup Run

ASSUME PeriodAssumption == LastPeriod \in Nat \ {0}
ASSUME OccurredAssumption == Occurred \in [Event -> Period]
ASSUME AmountAssumption == Amount \subseteq Nat \ {0}
ASSUME SourceAssumption == Event \cap Run = {}
ASSUME SentinelAssumption ==
         NoEntry \notin Entry /\ NoSource \notin Source /\ NoDoc \notin Doc

VARIABLES
  entry,       \* journal_entries (and their lines' totals), by id
  processed,   \* processed_events
  closed,      \* fiscal_periods rows with status 'closed'
  today,       \* the month CURRENT_DATE is in
  audit,       \* finance_audit_chain rows about entries
  closing,     \* closes that counted zero drafts and have not written yet
  posting,     \* posts that hold the row lock and saw the period open
  booking,     \* per worker: the event being booked and the chosen period
  superseding, \* per caller: the entries listed and those still to undo
  handled      \* events whose booking returned without an error

vars == << entry, processed, closed, today, audit,
           closing, posting, booking, superseding, handled >>

-----------------------------------------------------------------------------
(* Rows.  "unused" is an id not handed out yet, "deleted" one whose row was *)
(* discarded: ids are UUIDs and never come back.                            *)

Status == {"unused", "draft", "posted", "reversed", "deleted"}

EntryRow == [status: Status, source: Source \cup {NoSource},
             doc: Doc \cup {NoDoc}, period: Period,
             reverses: Entry \cup {NoEntry}, nominal: Int, base: Int]

Unused == [status |-> "unused", source |-> NoSource, doc |-> NoDoc,
           period |-> 1, reverses |-> NoEntry, nominal |-> 0, base |-> 0]

DeletedRow == [status |-> "deleted", source |-> NoSource, doc |-> NoDoc,
               period |-> 1, reverses |-> NoEntry, nominal |-> 0, base |-> 0]

DraftRow(s, d, p, a) ==
  [status |-> "draft", source |-> s, doc |-> d, period |-> p,
   reverses |-> NoEntry, nominal |-> a, base |-> a]

BookedRow(ev, p, a) ==
  [status |-> "posted", source |-> ev, doc |-> NoDoc, period |-> p,
   reverses |-> NoEntry, nominal |-> a, base |-> a]

AuditRow == {"posted", "booked", "reversed"} \X Entry

Booking == [event: Event \cup {NoSource}, period: Period]

Idle == [event |-> NoSource, period |-> 1]

Call == [active: BOOLEAN, listed: SUBSET Entry, todo: SUBSET Entry,
         drafts: SUBSET Entry]

IdleCall == [active |-> FALSE, listed |-> {}, todo |-> {}, drafts |-> {}]

Exists(e) == entry[e].status \in {"draft", "posted", "reversed"}
Live(e)   == entry[e].status \in {"draft", "posted"}
Booked(e) == entry[e].status \in {"posted", "reversed"}

\* Variant: the unique index covers posted entries only.
SourceFreePostedOnly(s) ==
  \A e \in Entry : ~ (entry[e].status = "posted" /\ entry[e].source = s)

\* The unique index on source_event_id: no stored row carries s already.
SourceFree(s) == \A e \in Entry : ~ (Exists(e) /\ entry[e].source = s)

-----------------------------------------------------------------------------
Init ==
  /\ entry = [e \in Entry |-> Unused]
  /\ processed = {}
  /\ closed = {}
  /\ today = 1
  /\ audit = {}
  /\ closing = {}
  /\ posting = {}
  /\ booking = [w \in Worker |-> Idle]
  /\ superseding = [c \in Caller |-> IdleCall]
  /\ handled = {}

\* The calendar moves on to the next month.
NextMonth ==
  /\ today < LastPeriod
  /\ today' = today + 1
  /\ UNCHANGED << entry, processed, closed, audit, closing, posting, booking,
                  superseding, handled >>

\* CreateJournalEntry: a balanced draft, dated as the caller says.  A document
\* that names a source id is refused when the id was processed, and by the
\* unique index when a stored entry carries it.  No period check for a draft.
CreateDraft(e, s, d, p, a) ==
  /\ entry[e].status = "unused"
  /\ s # NoSource => s \notin processed /\ SourceFree(s)
  /\ entry' = [entry EXCEPT ![e] = DraftRow(s, d, p, a)]
  /\ UNCHANGED << processed, closed, today, audit, closing, posting, booking,
                  superseding, handled >>

\* MarkEntryPosted up to its UPDATE: the row is locked FOR UPDATE, is a draft,
\* and its own period is read as open.
BeginPost(e) ==
  /\ entry[e].status = "draft"
  /\ e \notin posting
  /\ entry[e].period \notin closed
  /\ posting' = posting \cup {e}
  /\ UNCHANGED << entry, processed, closed, today, audit, closing, booking,
                  superseding, handled >>

\* MarkEntryPosted from its UPDATE to the commit: status and audit row together.
CommitPost(e) ==
  /\ e \in posting
  /\ entry[e].status = "draft"
  /\ entry' = [entry EXCEPT ![e].status = "posted"]
  /\ audit' = audit \cup {<<"posted", e>>}
  /\ posting' = posting \ {e}
  /\ UNCHANGED << processed, closed, today, closing, booking, superseding,
                  handled >>

\* Variant: the audit row is appended outside the post's transaction.
AbortPostAudited(e) ==
  /\ e \in posting
  /\ posting' = posting \ {e}
  /\ audit' = audit \cup {<<"posted", e>>}
  /\ UNCHANGED << entry, processed, closed, today, closing, booking,
                  superseding, handled >>

\* The post's transaction rolls back (an error, or the process dies).
AbortPost(e) ==
  /\ e \in posting
  /\ posting' = posting \ {e}
  /\ UNCHANGED << entry, processed, closed, today, audit, closing, booking,
                  superseding, handled >>

\* Variant: the row is deleted without taking its lock.
DeletedUnlocked(e) ==
  /\ entry[e].status = "draft"
  /\ entry' = [entry EXCEPT ![e] = DeletedRow]

\* Variant: the status guard of the delete is missing.
DeletedAnyStatus(e) ==
  /\ entry[e].status \in {"draft", "posted"}
  /\ e \notin posting
  /\ entry' = [entry EXCEPT ![e] = DeletedRow]

\* The row e becomes a deleted one.  Deleting waits for a post's row lock.
Deleted(e) ==
  /\ entry[e].status = "draft"
  /\ e \notin posting
  /\ entry' = [entry EXCEPT ![e] = DeletedRow]

\* DeleteDraftEntry.
DeleteDraft(e) ==
  /\ Deleted(e)
  /\ UNCHANGED << processed, closed, today, audit, closing, posting, booking,
                  superseding, handled >>

\* Variant: the mirror's base amounts are filled in like its nominal ones.
MirrorInBase(e) ==
  [status |-> "posted", source |-> NoSource, doc |-> NoDoc, period |-> today,
   reverses |-> e, nominal |-> 0 - entry[e].nominal, base |-> 0 - entry[e].base]

\* What ReverseEntry's transaction writes: a mirror entry m dated today, posted
\* without a period check, a source or a document, its lines carrying the
\* column default 0 as base amounts; the original becomes 'reversed'.
Mirror(e) ==
  [status |-> "posted", source |-> NoSource, doc |-> NoDoc, period |-> today,
   reverses |-> e, nominal |-> 0 - entry[e].nominal, base |-> 0]

\* Variant: the 'posted' guard of the reversal lets a reversed entry through.
ReversedAgain(e, m) ==
  /\ entry[e].status \in {"posted", "reversed"}
  /\ entry[m].status = "unused"
  /\ entry' = [entry EXCEPT ![m] = Mirror(e), ![e].status = "reversed"]
  /\ audit' = audit \cup {<<"reversed", e>>}

Reversed(e, m) ==
  /\ entry[e].status = "posted"
  /\ entry[m].status = "unused"
  /\ entry' = [entry EXCEPT ![m] = Mirror(e), ![e].status = "reversed"]
  /\ audit' = audit \cup {<<"reversed", e>>}

\* ReverseEntry, called by POST /ledger/entries/:id/reverse.
Reverse(e, m) ==
  /\ Reversed(e, m)
  /\ UNCHANGED << processed, closed, today, closing, posting, booking,
                  superseding, handled >>

-----------------------------------------------------------------------------
(* SetPeriodStatus: the draft count and the upsert are two statements with  *)
(* no transaction or lock around them.                                      *)

CountDrafts(p) ==
  /\ p \notin closing
  /\ \A e \in Entry : ~ (entry[e].status = "draft" /\ entry[e].period = p)
  /\ closing' = closing \cup {p}
  /\ UNCHANGED << entry, processed, closed, today, audit, posting, booking,
                  superseding, handled >>

CommitClose(p) ==
  /\ p \in closing
  /\ closed' = closed \cup {p}
  /\ closing' = closing \ {p}
  /\ UNCHANGED << entry, processed, today, audit, posting, booking,
                  superseding, handled >>

Reopen(p) ==
  /\ p \in closed
  /\ closed' = closed \ {p}
  /\ UNCHANGED << entry, processed, today, audit, closing, posting, booking,
                  superseding, handled >>

-----------------------------------------------------------------------------
(* BookFromEvent: the posting window is resolved before the dedupe check,   *)
(* and the booking transaction does not read the period again.              *)

\* transactionDate: a date too far in the future is replaced by arrival.
TxnPeriod(ev) == IF Occurred[ev] > today THEN today ELSE Occurred[ev]

\* Variant: an entry whose month is closed is filed into the month after.
WindowNextMonth(ev) ==
  IF TxnPeriod(ev) \notin closed THEN TxnPeriod(ev) ELSE today + 1

\* chooseWindow: the transaction's period if open, else the current one.
Window(ev) == IF TxnPeriod(ev) \notin closed THEN TxnPeriod(ev) ELSE today

ResolveWindow(w, ev) ==
  /\ booking[w] = Idle
  /\ Window(ev) \notin closed
  /\ booking' = [booking EXCEPT ![w] = [event |-> ev, period |-> Window(ev)]]
  /\ UNCHANGED << entry, processed, closed, today, audit, closing, posting,
                  superseding, handled >>

\* BookPostedEntry when the event is new: entry, processed_events row and audit
\* row commit together.
BookNew(w, e, a) ==
  LET ev == booking[w].event IN
  /\ ev # NoSource
  /\ ev \notin processed
  /\ SourceFree(ev)
  /\ entry[e].status = "unused"
  /\ entry' = [entry EXCEPT ![e] = BookedRow(ev, booking[w].period, a)]
  /\ processed' = processed \cup {ev}
  /\ audit' = audit \cup {<<"booked", e>>}
  /\ handled' = handled \cup {ev}
  /\ booking' = [booking EXCEPT ![w] = Idle]
  /\ UNCHANGED << closed, today, closing, posting, superseding >>

\* BookPostedEntry when the event is already there: by the check, by the unique
\* index, or by losing processed_events; the booked entry is returned.
BookDuplicate(w) ==
  LET ev == booking[w].event IN
  /\ ev # NoSource
  /\ ev \in processed \/ ~ SourceFree(ev)
  /\ handled' = handled \cup {ev}
  /\ booking' = [booking EXCEPT ![w] = Idle]
  /\ UNCHANGED << entry, processed, closed, today, audit, closing, posting,
                  superseding >>

\* The booking fails or its process dies before the commit; the bus redelivers.
BookAbort(w) ==
  /\ booking[w] # Idle
  /\ booking' = [booking EXCEPT ![w] = Idle]
  /\ UNCHANGED << entry, processed, closed, today, audit, closing, posting,
                  superseding, handled >>

-----------------------------------------------------------------------------
(* SupersedeEntriesBySource: one query, then one transaction per entry.     *)

DocEntries(d) == { e \in Entry : Live(e) /\ entry[e].doc = d }

SupersedeList(c, d) ==
  /\ ~ superseding[c].active
  /\ superseding' = [superseding EXCEPT ![c] =
                       [active |-> TRUE, listed |-> DocEntries(d),
                        todo |-> DocEntries(d),
                        drafts |-> { e \in DocEntries(d) :
                                       entry[e].status = "draft" }]]
  /\ UNCHANGED << entry, processed, closed, today, audit, closing, posting,
                  booking, handled >>

DoneWith(c, e) ==
  superseding' = [superseding EXCEPT ![c].todo = @ \ {e}]

SupersedeDelete(c, e) ==
  /\ e \in superseding[c].todo \cap superseding[c].drafts
  /\ Deleted(e)
  /\ DoneWith(c, e)
  /\ UNCHANGED << processed, closed, today, audit, closing, posting, booking,
                  handled >>

\* A posted entry, or one listed as a draft that was posted in the meantime
\* (ErrNotDraft falls through), is reversed.
SupersedeReverse(c, e, m) ==
  /\ e \in superseding[c].todo
  /\ Reversed(e, m)
  /\ DoneWith(c, e)
  /\ UNCHANGED << processed, closed, today, closing, posting, booking,
                  handled >>

\* Variant: ErrNotDraft is taken for "nothing left to do".
SupersedeSkipPosted(c, e) ==
  /\ e \in superseding[c].todo
  /\ \/ entry[e].status = "reversed"
     \/ entry[e].status = "posted" /\ e \in superseding[c].drafts
  /\ DoneWith(c, e)
  /\ UNCHANGED << entry, processed, closed, today, audit, closing, posting,
                  booking, handled >>

\* ErrNotReversible: somebody else reversed it.
SupersedeSkip(c, e) ==
  /\ e \in superseding[c].todo
  /\ entry[e].status = "reversed"
  /\ DoneWith(c, e)
  /\ UNCHANGED << entry, processed, closed, today, audit, closing, posting,
                  booking, handled >>

\* The call returns: with success when nothing is left to do, with an error
\* when a draft it listed has been deleted (ErrEntryNotFound) or on a failure.
SupersedeReturn(c) ==
  /\ superseding[c].active
  /\ superseding' = [superseding EXCEPT ![c] = IdleCall]
  /\ UNCHANGED << entry, processed, closed, today, audit, closing, posting,
                  booking, handled >>

-----------------------------------------------------------------------------
Next ==
  \/ NextMonth
  \/ \E e \in Entry, s \in Run \cup {NoSource}, d \in Doc \cup {NoDoc},
        p \in Period, a \in Amount : CreateDraft(e, s, d, p, a)
  \/ \E e \in Entry : BeginPost(e)
  \/ \E e \in Entry : CommitPost(e)
  \/ \E e \in Entry : AbortPost(e)
  \/ \E e \in Entry : DeleteDraft(e)
  \/ \E e, m \in Entry : Reverse(e, m)
  \/ \E p \in Period : CountDrafts(p)
  \/ \E p \in Period : CommitClose(p)
  \/ \E p \in Period : Reopen(p)
  \/ \E w \in Worker, ev \in Event : ResolveWindow(w, ev)
  \/ \E w \in Worker, e \in Entry, a \in Amount : BookNew(w, e, a)
  \/ \E w \in Worker : BookDuplicate(w)
  \/ \E w \in Worker : BookAbort(w)
  \/ \E c \in Caller, d \in Doc : SupersedeList(c, d)
  \/ \E c \in Caller, e \in Entry : SupersedeDelete(c, e)
  \/ \E c \in Caller, e, m \in Entry : SupersedeReverse(c, e, m)
  \/ \E c \in Caller, e \in Entry : SupersedeSkip(c, e)
  \/ \E c \in Caller : SupersedeReturn(c)

Spec == Init /\ [][Next]_vars

-----------------------------------------------------------------------------
(* Properties.                                                              *)

\* Every variable holds a row, a set or a request of its kind.
TypeOK ==
  /\ entry \in [Entry -> EntryRow]
  /\ processed \subseteq Event
  /\ closed \subseteq Period
  /\ today \in Period
  /\ audit \subseteq AuditRow
  /\ closing \subseteq Period
  /\ posting \subseteq Entry
  /\ booking \in [Worker -> Booking]
  /\ superseding \in [Caller -> Call]
  /\ handled \subseteq Event

\* One source event books at most one entry, however many deliveries race and
\* whatever is posted, reversed, deleted or superseded in between.
OneEntryPerSource ==
  \A e, f \in Entry :
    /\ Exists(e) /\ Exists(f)
    /\ entry[e].source = entry[f].source
    /\ entry[e].source # NoSource
    => e = f

\* The events in processed_events are exactly those with an entry that was
\* posted: no event is marked without its posting or booked without its mark,
\* and the posting of a marked event is never discarded.
ProcessedIsBooked ==
  \A ev \in Event :
    ev \in processed <=> \E e \in Entry : Booked(e) /\ entry[e].source = ev

\* A handler reports an event as done only when it is booked: losing a race, or
\* finding the source id taken, is success only because the entry is there.
HandledIsBooked == handled \subseteq processed /\ ProcessedIsBooked

\* An entry is 'reversed' exactly when one mirror entry, and no second one,
\* names it: two reversals of one entry cannot both go through, and no step
\* leaves an entry marked without its mirror.
OneReversalPerEntry ==
  \A e \in Entry :
    /\ entry[e].status = "reversed" <=> \E m \in Entry : entry[m].reverses = e
    /\ \A m, n \in Entry : entry[m].reverses = e /\ entry[n].reverses = e => m = n

\* What the period-bounded reports count for an entry: base amounts, posted only.
Reported(e) == IF entry[e].status = "posted" THEN entry[e].base ELSE 0

\* A reversed entry and its mirror together add nothing to the reports: the
\* original drops out because it is no longer 'posted', so the mirror, which is,
\* must not take its amount off a second time.
ReversalNetsToZero ==
  \A e, m \in Entry :
    /\ entry[e].status = "reversed"
    /\ entry[m].reverses = e
    => Reported(e) + Reported(m) = 0

\* What a supersede has already undone stays undone, so that a replacement set
\* booked after it is the document's only live one among the entries it listed.
SupersededIsDead ==
  \A c \in Caller :
    \A e \in superseding[c].listed \ superseding[c].todo : ~ Live(e)

AuditTells(e) ==
  /\ <<"reversed", e>> \in audit <=> entry[e].status = "reversed"
  /\ (<<"posted", e>> \in audit \/ <<"booked", e>> \in audit)
       <=> Booked(e) /\ entry[e].reverses = NoEntry
  /\ ~ (<<"posted", e>> \in audit /\ <<"booked", e>> \in audit)

\* The audit chain tells exactly what happened to each entry: a booked, posted
\* or reversed entry has its row and no row tells of a change that was undone.
AuditTellsStatus == \A e \in Entry : AuditTells(e)

\* A posted entry is never edited or discarded: whatever the requests do, its
\* only change is to 'reversed', and a reversed or deleted row is final.
PostedIsImmutable ==
  [][ \A e \in Entry :
        /\ entry[e].status = "posted" =>
             entry'[e] \in {entry[e], [entry[e] EXCEPT !.status = "reversed"]}
        /\ entry[e].status \in {"reversed", "deleted"} => entry'[e] = entry[e]
    ]_vars

\* A row that a post has locked is still the draft it was read as, so the post's
\* UPDATE always finds it: no delete, reversal or second post got in between.
PostKeepsItsDraft ==
  \A e \in posting : entry[e].status = "draft"

-----------------------------------------------------------------------------
(* What the documentation says of period control, and the code does not do. *)

\* Closing a month protects the entries dated to it: while the month stays closed
\* a posted entry in it goes on counting in the reports of that month.
ClosedMonthKeepsItsPostings ==
  [][ \A e \in Entry :
        entry[e].status = "posted" /\ entry[e].period \in closed \cap closed'
          => Reported(e)' = Reported(e) ]_vars
=============================================================================
