--------------------------- MODULE LeaveValuation ---------------------------
(***************************************************************************)
(* Valuing the accrued-leave liability: measure what HR's balances and     *)
(* rates say is owed, subtract the total of the last valuation, and book   *)
(* the movement on the date valued (ledger/payroll.go:259-380,             *)
(* repository/payroll_leave_valuation.go).  The measurement, the previous  *)
(* total and the booking are read and written in separate transactions.    *)
(***************************************************************************)
EXTENDS Integers, FiniteSetsExt, Functions

CONSTANTS
  LastDay,       \* bound on the calendar
  MaxLiability,  \* bound on what can be owed
  Caller         \* POST /payroll/leave-valuations requests in flight

DayAssumption == LastDay \in Nat /\ MaxLiability \in Nat

Day == 1..LastDay

VARIABLES
  liability,  \* what MeasureLeaveLiability returns
  valuation,  \* payroll_leave_valuations, by date
  entry,      \* the posted entry of each date: its movement in account 2240
  call,       \* the step of each request and what it has read
  orderly     \* requests came one after another, in the order of their dates

vars == << liability, valuation, entry, call, orderly >>

NoRow == [valued |-> FALSE, total |-> 0, movement |-> 0, linked |-> FALSE]
Row(t, m, l) == [valued |-> TRUE, total |-> t, movement |-> m, linked |-> l]

NoEntry == [booked |-> FALSE, amount |-> 0]

Step(at, d, m, p) == [at |-> at, day |-> d, measured |-> m, previous |-> p]
Free == Step("free", 0, 0, 0)

Init ==
  /\ liability = 0
  /\ valuation = [d \in Day |-> NoRow]
  /\ entry = [d \in Day |-> NoEntry]
  /\ call = [c \in Caller |-> Free]
  /\ orderly = TRUE

-----------------------------------------------------------------------------
(* Helpers. *)

Valued == { d \in Day : valuation[d].valued }

\* LastLeaveValuationTotal: the row with the latest valued_at, or zero.
LastTotal == IF Valued = {} THEN 0 ELSE valuation[Max(Valued)].total

\* Variant: the whole liability is booked instead of what it moved by.
MovementWhole(c) == call[c].measured

Movement(c) == call[c].measured - call[c].previous

Done(c) == call' = [call EXCEPT ![c] = Free]

-----------------------------------------------------------------------------
(* ValueLeaveLiability. *)

\* UpsertLeaveBalance and UpsertEmployeeRate, from HR's events.
Report ==
  /\ liability' \in 0..MaxLiability
  /\ UNCHANGED << valuation, entry, call, orderly >>

\* GetLeaveValuation: a date already valued is answered from its row.
Ask(c, d) ==
  /\ call[c] = Free
  /\ ~ valuation[d].valued
  /\ call' = [call EXCEPT ![c] = Step("measure", d, 0, 0)]
  /\ orderly' = (orderly /\ (\A b \in Caller : call[b] = Free)
                         /\ (\A v \in Valued : v < d))
  /\ UNCHANGED << liability, valuation, entry >>

MeasureLeaveLiability(c) ==
  /\ call[c].at = "measure"
  /\ call' = [call EXCEPT ![c] = Step("previous", call[c].day, liability, 0)]
  /\ UNCHANGED << liability, valuation, entry, orderly >>

LastLeaveValuationTotal(c) ==
  /\ call[c].at = "previous"
  /\ call' = [call EXCEPT ![c] =
                Step("book", call[c].day, call[c].measured, LastTotal)]
  /\ UNCHANGED << liability, valuation, entry, orderly >>

\* RecordLeaveValuation without a journal: the row is inserted, or replaced.
RecordUnmoved(c) ==
  /\ call[c].at = "book" /\ Movement(c) = 0
  /\ valuation' = [valuation EXCEPT
                     ![call[c].day] = Row(call[c].measured, 0, FALSE)]
  /\ Done(c)
  /\ UNCHANGED << liability, entry, orderly >>

\* Variant: a second request for a date replaces the row although the entry
\* stands.
BookMovementReplacing(c) ==
  /\ call[c].at = "book" /\ Movement(c) # 0
  /\ LET d == call[c].day
     IN  /\ valuation' = [valuation EXCEPT
               ![d] = Row(call[c].measured, Movement(c), TRUE)]
         /\ entry' = IF entry[d].booked THEN entry
                     ELSE [entry EXCEPT
                             ![d] = [booked |-> TRUE, amount |-> Movement(c)]]
  /\ Done(c)
  /\ UNCHANGED << liability, orderly >>

\* BookPostedEntry, with the row written in the same transaction.  A date
\* with an entry gets no second one, and its row stays as it is.
BookMovement(c) ==
  /\ call[c].at = "book" /\ Movement(c) # 0
  /\ LET d == call[c].day
     IN  IF entry[d].booked
           THEN UNCHANGED << valuation, entry >>
           ELSE /\ entry' = [entry EXCEPT
                       ![d] = [booked |-> TRUE, amount |-> Movement(c)]]
                /\ valuation' = [valuation EXCEPT
                       ![d] = Row(call[c].measured, Movement(c), TRUE)]
  /\ Done(c)
  /\ UNCHANGED << liability, orderly >>

\* A closed month of the date valued, an error or a crash ends the request.
CallFails(c) ==
  /\ call[c] # Free
  /\ Done(c)
  /\ UNCHANGED << liability, valuation, entry, orderly >>

Next ==
  \/ Report
  \/ \E c \in Caller :
       \/ \E d \in Day : Ask(c, d)
       \/ MeasureLeaveLiability(c) \/ LastLeaveValuationTotal(c)
       \/ RecordUnmoved(c) \/ BookMovement(c) \/ CallFails(c)

Spec == Init /\ [][Next]_vars

-----------------------------------------------------------------------------
(* Properties. *)

Ledger == SumFunction([d \in Day |-> entry[d].amount])

\* The movements booked so far add up to the total last measured, so account
\* 2240 carries what is owed as of the last valuation and not the obligation
\* twice (ledger/payroll.go:262-265).  It holds for requests made one after
\* the other, in the order of their dates, whatever HR reports meanwhile and
\* whichever of them fail.
LedgerIsLastTotal == orderly => Ledger = LastTotal

\* The posting and the record of it commit together, also when requests race
\* for one date: a date with an entry has a row, and a row that names an
\* entry names it with the movement that was posted
\* (ledger/payroll.go:352-360).
PostingIsRecorded ==
  \A d \in Day :
    /\ entry[d].booked => valuation[d].valued
    /\ valuation[d].linked =>
         entry[d].booked /\ entry[d].amount = valuation[d].movement

\* The leave liability of the ledger is the one that was measured, and every
\* movement has its record (ValueLeaveLiability).
LeaveTies == LedgerIsLastTotal /\ PostingIsRecorded
=============================================================================
