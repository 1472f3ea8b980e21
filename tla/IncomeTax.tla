----------------------------- MODULE IncomeTax -----------------------------
(***************************************************************************)
(* IAS 12: the current tax of a period and deferred tax on a temporary     *)
(* difference.  The month is looked at first; then one transaction books   *)
(* the entry under incometax:<period> or deferredtax:<reference> with its  *)
(* row.  Who comes second is answered with the row of the first, whatever  *)
(* was asked.  An entry may be reversed like any other.                    *)
(***************************************************************************)
EXTENDS Integers, FiniteSets, Functions

CONSTANTS
  Caller, Period, Reference,
  Basis,      \* taxable profits and temporary differences, in cents
  Rate, Whole \* numerators of a rate, and its denominator

TaxAssumption ==
  /\ IsFiniteSet(Period) /\ IsFiniteSet(Reference)
  /\ Basis \subseteq Int /\ Rate \subseteq Nat /\ Whole \in Nat \ {0}

VARIABLES
  row,        \* income_tax_runs and deferred_tax_items, by key
  entry,      \* the status of the entry of a key
  account,    \* balances: credits of 2600 and 2610, debits of 1700 and 5700
  closed,     \* the month of today is closed
  call,       \* calls in flight
  told,       \* rows answered, by key
  unchecked   \* ghost: keys booked into a month closed before the call

vars == << row, entry, account, closed, call, told, unchecked >>

Kind == {"current", "deductible", "taxable"}
Key == Period \cup Reference
NoRow == [kind |-> "none", basis |-> 0, rate |-> 0, tax |-> 0]
Idle == [at |-> "idle", key |-> CHOOSE k \in Key : TRUE, asked |-> NoRow,
         shut |-> FALSE]
Step(c, stage) == call' = [call EXCEPT ![c].at = stage]

\* Variant: half a cent is cut off.
TaxCut(basis, rate) == (basis * rate) \div Whole

\* Rounded to the cent, half up.
Tax(basis, rate) == (2 * basis * rate + Whole) \div (2 * Whole)

\* What the entry of a row adds to the accounts.
AccountOf(kind) ==
  CASE kind = "current" -> "2600" [] kind = "taxable" -> "2610" [] OTHER -> "1700"
Expense(kind) == IF kind = "deductible" THEN -1 ELSE 1
Added(r, times) ==
  [account EXCEPT ![AccountOf(r.kind)] = @ + times * r.tax,
                  !["5700"] = @ + times * Expense(r.kind) * r.tax]

Init ==
  /\ row = [k \in Key |-> NoRow]
  /\ entry = [k \in Key |-> "none"]
  /\ account = [a \in {"1700", "2600", "2610", "5700"} |-> 0]
  /\ closed = FALSE
  /\ call = [c \in Caller |-> Idle]
  /\ told = [k \in Key |-> {}]
  /\ unchecked = {}

CloseOrReopen ==
  /\ closed' = ~closed
  /\ call' = [c \in Caller |->
                IF call[c].at = "idle" THEN Idle
                ELSE [call[c] EXCEPT !.shut = closed']]
  /\ UNCHANGED << row, entry, account, told, unchecked >>

\* Variant: the month is not looked at.
OpenAnyway == TRUE

\* guardOpen: the month of today.
Open == ~closed

\* RunCurrentTax and RecognizeDeferredTax: a loss has no current tax, and the
\* lines of an entry may not be zero.
Ask(c, kind, key, basis, rate) ==
  /\ call[c].at = "idle" /\ Open
  /\ key \in (IF kind = "current" THEN Period ELSE Reference)
  /\ Tax(basis, rate) > 0
  /\ call' = [call EXCEPT ![c] =
                [at |-> "book", key |-> key, shut |-> FALSE,
                 asked |-> [kind |-> kind, basis |-> basis, rate |-> rate,
                            tax |-> Tax(basis, rate)]]]
  /\ UNCHANGED << row, entry, account, closed, told, unchecked >>

\* Variant: a booked key is booked again.
BookedNever(key) == FALSE

\* BookPostedEntry: the processed event, or the unique source event.
Booked(key) == entry[key] # "none"

Book(c) ==
  LET k == call[c].key r == call[c].asked IN
  /\ call[c].at = "book" /\ ~Booked(k)
  /\ row' = [row EXCEPT ![k] = r]
  /\ entry' = [entry EXCEPT ![k] = "posted"]
  /\ account' = Added(r, 1)
  /\ unchecked' = IF closed /\ ~call[c].shut THEN unchecked \cup {k} ELSE unchecked
  /\ Step(c, "answer")
  /\ UNCHANGED << closed, told >>

BookNothing(c) ==
  /\ call[c].at = "book" /\ Booked(call[c].key)
  /\ Step(c, "read")
  /\ UNCHANGED << row, entry, account, closed, told, unchecked >>

\* The caller who booked is answered with what was asked, another with the row.
Answer(c) ==
  LET k == call[c].key IN
  /\ call[c].at \in {"answer", "read"}
  /\ told' = [told EXCEPT ![k] = @ \cup
                {IF call[c].at = "answer" THEN call[c].asked ELSE row[k]}]
  /\ call' = [call EXCEPT ![c] = Idle]
  /\ UNCHANGED << row, entry, account, closed, unchecked >>

\* An error before or after the commit, or the process dies.
Fail(c) ==
  /\ call[c].at # "idle"
  /\ call' = [call EXCEPT ![c] = Idle]
  /\ UNCHANGED << row, entry, account, closed, told, unchecked >>

\* ReverseEntry: the row stays, and so does the key.
Reverse(k) ==
  /\ entry[k] = "posted"
  /\ entry' = [entry EXCEPT ![k] = "reversed"]
  /\ account' = Added(row[k], -1)
  /\ UNCHANGED << row, closed, call, told, unchecked >>

Next ==
  \/ CloseOrReopen
  \/ \E k \in Key : Reverse(k)
  \/ \E c \in Caller :
       \/ \E kind \in Kind, k \in Key, basis \in Basis, rate \in Rate :
            Ask(c, kind, k, basis, rate)
       \/ Book(c) \/ BookNothing(c) \/ Answer(c) \/ Fail(c)

Spec == Init /\ [][Next]_vars

-----------------------------------------------------------------------------
(* Properties. *)

\* Payable, deferred asset and deferred liability are the sums of the rows whose
\* entries stand, each within half a cent of its basis at its rate, and the
\* expense is what they come to.
Standing(k, kind) == entry[k] = "posted" /\ row[k].kind = kind
SumOf(kind) ==
  SumFunction([k \in Key |-> IF Standing(k, kind) THEN row[k].tax ELSE 0])
Off(r) == 2 * (Whole * r.tax - r.basis * r.rate)

BalancesAreRows ==
  /\ \A kind \in Kind : account[AccountOf(kind)] = SumOf(kind)
  /\ account["5700"] = account["2600"] + account["2610"] - account["1700"]
  /\ \A k \in Key : Off(row[k]) \in - Whole .. Whole

\* repository/income_tax.go:58, "idempotent on incometax:<period>": everyone who
\* gets an answer gets the one row that was booked, also when two ask at once or
\* an answer was lost; and no month takes an entry that was closed when the call
\* looked.
AnswersAreBooked ==
  /\ \A k \in Key : told[k] \subseteq {row[k]} /\ (told[k] # {} => entry[k] # "none")
  /\ unchecked = {}

\* Tax accounts and registers agree (RunCurrentTax, RecognizeDeferredTax).
TaxTies == BalancesAreRows /\ AnswersAreBooked
=============================================================================
