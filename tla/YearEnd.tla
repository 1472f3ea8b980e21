------------------------------ MODULE YearEnd ------------------------------
(***************************************************************************)
(* Closing a year (ledger/yearend.go): drafts are counted, the balances of *)
(* the profit-and-loss accounts read, the closing entry booked under a     *)
(* source event of the year, and the months closed one by one, each step   *)
(* a statement or transaction of its own, while others post, reverse and   *)
(* close and reopen months.  A posting looks at its month before the       *)
(* transaction that writes it, and not again.                              *)
(***************************************************************************)
EXTENDS Integers, FiniteSets, Functions

CONSTANTS
  Caller,
  LastMonth,   \* months are 1 .. LastMonth
  Amount,      \* profits and losses of single postings, unsigned
  MaxPosted,   \* bound: live entries of one amount
  MaxLanding   \* bound: postings between their look and their transaction

YearAssumption ==
  /\ LastMonth \in Nat \ {0} /\ MaxPosted \in Nat
  /\ Amount \subseteq Int /\ IsFiniteSet(Amount)

Month == 1 .. LastMonth
Signed == Amount \cup { - a : a \in Amount }

VARIABLES
  result,     \* the year's posted profit or loss, the closing entry included
  retained,   \* what the closing entry moved to retained earnings
  booked,     \* the closing entry's source event is processed
  closed,     \* months closed in fiscal_periods
  drafts,     \* months a draft is dated in
  call,       \* requests to close the year
  entries,    \* by amount, the year's posted entries but the closing one
  landing,    \* amounts of postings that saw their month open
  disturbed   \* ghost: entries changed after a request had read the balances

vars == << result, retained, booked, closed, drafts, call, entries, landing,
           disturbed >>

Idle == [at |-> "idle", read |-> 0, month |-> 1]

Init ==
  /\ result = 0 /\ retained = 0 /\ booked = FALSE
  /\ closed = {} /\ drafts = {}
  /\ call = [c \in Caller |-> Idle]
  /\ entries = [x \in Signed |-> 0] /\ landing = {} /\ disturbed = FALSE

-----------------------------------------------------------------------------
(* The others. *)

\* A request has read the balances or booked them.
SomeRead == booked \/ \E c \in Caller : call[c].at \in {"book", "count", "lock"}

\* Variant: the month is not looked at.
LookAnyway(m, x) ==
  /\ Cardinality(landing) < MaxLanding
  /\ landing' = landing \cup {x}
  /\ UNCHANGED << result, retained, booked, closed, drafts, call, entries,
                  disturbed >>

\* resolvePostingWindow, or the period check of MarkEntryPosted.
Look(m, x) ==
  /\ m \notin closed
  /\ Cardinality(landing) < MaxLanding
  /\ landing' = landing \cup {x}
  /\ UNCHANGED << result, retained, booked, closed, drafts, call, entries,
                  disturbed >>

Moved(x, n) ==
  /\ entries[x] + n \in 0 .. MaxPosted
  /\ entries' = [entries EXCEPT ![x] = @ + n]
  /\ result' = result + n * x
  /\ disturbed' = (disturbed \/ SomeRead)
  /\ UNCHANGED << retained, booked, closed, drafts, call >>

\* The posting's transaction, which reads no period.
Land(x) == x \in landing /\ Moved(x, 1) /\ landing' = landing \ {x}

\* The posting fails.
LookFails(x) ==
  /\ x \in landing /\ landing' = landing \ {x}
  /\ UNCHANGED << result, retained, booked, closed, drafts, call, entries,
                  disturbed >>

\* ReverseEntry: the entry leaves the year's balances, whatever the status of
\* its month; the mirror is dated today and has no base amounts.
Reverse(x) == Moved(x, -1) /\ UNCHANGED landing

CreateDraft(m) ==
  /\ drafts' = drafts \cup {m}
  /\ UNCHANGED << result, retained, booked, closed, call, entries, landing,
                  disturbed >>

DeleteDrafts(m) ==
  /\ drafts' = drafts \ {m}
  /\ UNCHANGED << result, retained, booked, closed, call, entries, landing,
                  disturbed >>

\* Closing a month by itself; Journal has its two statements apart.
CloseMonth(m) ==
  /\ m \notin drafts
  /\ closed' = closed \cup {m}
  /\ UNCHANGED << result, retained, booked, drafts, call, entries, landing,
                  disturbed >>

ReopenMonth(m) ==
  /\ closed' = closed \ {m}
  /\ UNCHANGED << result, retained, booked, drafts, call, entries, landing,
                  disturbed >>

-----------------------------------------------------------------------------
(* CloseFiscalYear. *)

\* A year with drafts is refused.
CountDrafts(c) ==
  /\ call[c].at = "idle" /\ drafts = {}
  /\ call' = [call EXCEPT ![c].at = "read"]
  /\ UNCHANGED << result, retained, booked, closed, drafts, entries, landing,
                  disturbed >>

\* Without a balance there is nothing to close.
ReadBalances(c) ==
  /\ call[c].at = "read"
  /\ call' = [call EXCEPT ![c] = IF result = 0 THEN Idle
                                 ELSE [at |-> "book", read |-> result, month |-> 1]]
  /\ UNCHANGED << result, retained, booked, closed, drafts, entries, landing,
                  disturbed >>

\* Variant: a negative balance is cleared on the side of a positive one.
ZeroedUnflipped(balance, read) == balance - (IF read < 0 THEN - read ELSE read)

\* zeroingLine: the closing line is opposite to the balance that was read.
Zeroed(balance, read) == balance - read

\* Variant: nobody looks whether the year's entry is there.
AlreadyBookedNever == FALSE

AlreadyBooked == booked

\* Booked once for a year, whatever the months' status; a later call gets the
\* entry there is.
BookClosing(c) ==
  /\ call[c].at = "book"
  /\ IF AlreadyBooked THEN UNCHANGED << result, retained, booked >>
     ELSE /\ result' = Zeroed(result, call[c].read)
          /\ retained' = retained + call[c].read
          /\ booked' = TRUE
  /\ call' = [call EXCEPT ![c].at = "count"]
  /\ UNCHANGED << closed, drafts, entries, landing, disturbed >>

\* SetPeriodStatus counts the month's drafts and refuses if there are any; the
\* call ends there, the months before it stay closed.
CountMonth(c) ==
  /\ call[c].at = "count"
  /\ call' = [call EXCEPT ![c] = IF @.month \in drafts THEN Idle
                                 ELSE [@ EXCEPT !.at = "lock"]]
  /\ UNCHANGED << result, retained, booked, closed, drafts, entries, landing,
                  disturbed >>

LockMonth(c) ==
  /\ call[c].at = "lock"
  /\ closed' = closed \cup {call[c].month}
  /\ call' = [call EXCEPT ![c] =
                IF @.month = LastMonth THEN Idle
                ELSE [at |-> "count", read |-> @.read, month |-> @.month + 1]]
  /\ UNCHANGED << result, retained, booked, drafts, entries, landing, disturbed >>

CallFails(c) ==
  /\ call[c].at # "idle"
  /\ call' = [call EXCEPT ![c] = Idle]
  /\ UNCHANGED << result, retained, booked, closed, drafts, entries, landing,
                  disturbed >>

CloseFiscalYear(c) ==
  \/ CountDrafts(c) \/ ReadBalances(c) \/ BookClosing(c)
  \/ CountMonth(c) \/ LockMonth(c)

Next ==
  \/ \E m \in Month : \/ CreateDraft(m) \/ DeleteDrafts(m) \/ CloseMonth(m) \/ ReopenMonth(m)
                      \/ \E x \in Signed : Look(m, x)
  \/ \E x \in Signed : Land(x) \/ LookFails(x) \/ Reverse(x)
  \/ \E c \in Caller : CloseFiscalYear(c) \/ CallFails(c)

Spec == Init /\ [][Next]_vars

-----------------------------------------------------------------------------
(* Properties. *)

\* Once the closing entry is booked the year nets to zero, also when two calls
\* race or one is retried, unless something was posted or reversed after a call
\* had read the balances (ledger/yearend.go:31-34).
ClosedYearNetsToZero == booked /\ ~ disturbed => result = 0

\* The closing entry moves the year's profit and makes none: what is retained
\* and what is left add up to what was posted, a loss included, also when
\* postings fall between the reading and the booking (zeroingLine).
ProfitIsMoved ==
  result + retained = SumFunction([x \in Signed |-> x * entries[x]])

\* The closing entry takes the year to zero by moving its profit
\* (CloseFiscalYear).
YearCloses == ClosedYearNetsToZero /\ ProfitIsMoved

\* "Lock the year - close every month so nothing can be posted back into it"
\* (ledger/yearend.go:103): no posting starts on a locked year, and its entries
\* grow by a posting only that had looked at its month before the lock.  The
\* promise is not kept for those, nor by a reversal, which looks at no period.
KeepsLocked ==
  closed = Month /\ closed' = Month =>
    /\ landing' \subseteq landing
    /\ \A x \in Signed : entries'[x] > entries[x] => x \in landing \ landing'
=============================================================================
