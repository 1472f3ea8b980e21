----------------------------- MODULE Schedules -----------------------------
(***************************************************************************)
(* Revenue schedules, prepayments and leases: an amount booked once and    *)
(* released month by month (repository/revrec.go, prepayments.go,          *)
(* leases.go).  The three have the same run: the lines due are read        *)
(* outside the transaction that books their sum and stamps them, under a   *)
(* source event of its own for every month.  One behaviour is about one of *)
(* them: they share nothing but the journal.                               *)
(***************************************************************************)
EXTENDS Integers, FiniteSets, FiniteSetsExt

CONSTANTS
  Schedule,
  Total,   \* the amount each defers, capitalizes or owes
  Count,   \* how many slices it is released in, one a month from month 1
  Month,   \* the months runs are made for
  Run      \* runs in flight

VARIABLES
  kind,       \* which of the three, or a revenue schedule by milestones
  created,    \* schedules whose deferral is booked
  stamped,    \* lines with a journal entry: journal_entry_id
  released,   \* how often each line's amount was released
  completed,  \* schedules marked completed
  balance,    \* of the account the releases are taken from
  booked,     \* months whose source event is processed
  run,
  overlapped  \* a run booked while another one held lines it had read

vars == << kind, created, stamped, released, completed, balance, booked, run,
           overlapped >>

Line == Schedule \X (1 .. Count)
Idle == [at |-> "idle", month |-> 0, due |-> {}]

Init ==
  /\ kind \in {"revenue", "milestone", "prepaid", "lease"}
  /\ created = {} /\ stamped = {} /\ completed = {} /\ booked = {}
  /\ released = [l \in Line |-> 0]
  /\ balance = 0
  /\ run = [r \in Run |-> Idle]
  /\ overlapped = FALSE

-----------------------------------------------------------------------------
(* The plan. *)

\* total.DivRound(n, 2), to the cent, half up.
PerSlice(s) == (2 * Total[s] + Count) \div (2 * Count)

\* ratableSlices: the last slice takes the remainder, which may be nothing.
\* The principal of a lease's lines adds up to its liability the same way.
Slice(l) == IF l[2] < Count THEN PerSlice(l[1])
            ELSE Total[l[1]] - PerSlice(l[1]) * (Count - 1)

LinesOf(s) == {s} \X (1 .. Count)
SumOf(lines) == MapThenSumSet(Slice, lines)

\* CreateSchedule, CreatePrepayment, CreateLease: entry, schedule and lines
\* commit together, once for a reference.
Create(s) ==
  /\ s \notin created
  /\ created' = created \cup {s}
  /\ balance' = balance + Total[s]
  /\ UNCHANGED << kind, stamped, released, completed, booked, run, overlapped >>

-----------------------------------------------------------------------------
(* The monthly run. *)

\* Lines without an entry; a slice of nothing is never due, except a lease's.
Due(m) == { l \in Line : /\ l[1] \in created /\ l \notin stamped /\ l[2] <= m
                         /\ Slice(l) > 0 \/ kind = "lease" }

\* RunRecognition, RunAmortization, RunLeasePeriod: the lines are collected.
\* With none there is no entry.
Collect(r, m) ==
  /\ kind # "milestone"
  /\ run[r].at = "idle" /\ Due(m) # {}
  /\ run' = [run EXCEPT ![r] = [at |-> "book", month |-> m, due |-> Due(m)]]
  /\ UNCHANGED << kind, created, stamped, released, completed, balance, booked,
                  overlapped >>

\* Variant: a schedule is complete when nothing of it is due any more.
CompleteNow(stamps, m) ==
  { s \in created : \A l \in LinesOf(s) : l[2] <= m => l \in stamps }

\* Schedules all of whose lines are stamped.
Complete(stamps, m) == { s \in created : LinesOf(s) \subseteq stamps }

Release(lines) ==
  /\ balance' = balance - SumOf(lines)
  /\ released' = [l \in Line |-> IF l \in lines THEN released[l] + 1
                                                ELSE released[l]]
  /\ stamped' = stamped \cup lines

\* Variant: the lines are stamped with the entry a replay returns.
BookRunStamping(r) ==
  /\ run[r].at = "book"
  /\ IF run[r].month \in booked
       THEN /\ stamped' = stamped \cup run[r].due
            /\ UNCHANGED << released, completed, balance, booked, overlapped >>
       ELSE /\ Release(run[r].due)
            /\ completed' = completed \cup Complete(stamped', run[r].month)
            /\ booked' = booked \cup {run[r].month}
            /\ overlapped' = (overlapped \/ \E q \in Run \ {r} : run[q].at = "book")
  /\ run' = [run EXCEPT ![r] = Idle]
  /\ UNCHANGED << kind, created >>

\* BookPostedEntry with the stamping in its transaction.  A month booked
\* before returns its entry and stamps nothing; the UPDATE of a line that got
\* an entry meanwhile matches no row, and nobody counts the rows.
BookRun(r) ==
  /\ run[r].at = "book"
  /\ IF run[r].month \in booked
       THEN UNCHANGED << stamped, released, completed, balance, booked,
                         overlapped >>
       ELSE /\ Release(run[r].due)
            /\ completed' = completed \cup Complete(stamped', run[r].month)
            /\ booked' = booked \cup {run[r].month}
            /\ overlapped' = (overlapped \/ \E q \in Run \ {r} : run[q].at = "book")
  /\ run' = [run EXCEPT ![r] = Idle]
  /\ UNCHANGED << kind, created >>

\* An account is missing or the transaction fails.
RunFails(r) ==
  /\ run[r].at = "book"
  /\ run' = [run EXCEPT ![r] = Idle]
  /\ UNCHANGED << kind, created, stamped, released, completed, balance, booked,
                  overlapped >>

\* SatisfyObligation: an obligation has a source event of its own, so what was
\* read before the transaction does not matter.  No schedule is completed.
Satisfy(l) ==
  /\ kind = "milestone" /\ l[1] \in created /\ l \notin stamped
  /\ Release({l})
  /\ UNCHANGED << kind, created, completed, booked, run, overlapped >>

Next ==
  \/ \E s \in Schedule : Create(s)
  \/ \E r \in Run : (\E m \in Month : Collect(r, m)) \/ BookRun(r) \/ RunFails(r)
  \/ \E l \in Line : Satisfy(l)

Spec == Init /\ [][Next]_vars

-----------------------------------------------------------------------------
(* Properties. *)

\* As long as no two runs overlap, what is left on the account is what is left
\* to release, whatever schedules arrive late and whatever is run again.
AccountIsUnreleased ==
  ~ overlapped =>
    balance = SumOf({ l \in Line : l[1] \in created /\ l \notin stamped })

\* A line that carries an entry has been released, however the runs overlap:
\* no slice is lost by a replay that stamps what it did not book.
StampedIsReleased == \A l \in stamped : released[l] > 0

\* A completed schedule has no slice left to release.
CompletedIsReleased ==
  \A s \in completed : \A l \in LinesOf(s) : released[l] > 0

\* repository/revrec.go:164: a run releases the slices that have not yet been
\* recognised.  No slice is released twice.
SliceReleasedOnce == \A l \in Line : released[l] <= 1

\* The deferred account, the stamps of the lines and the completed schedules
\* tell the same story (RunRecognition, RunAmortization).
ReleasedIsBooked == AccountIsUnreleased /\ StampedIsReleased /\ CompletedIsReleased
=============================================================================
