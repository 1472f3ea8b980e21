------------------------- MODULE ForeignSettlement -------------------------
(***************************************************************************)
(* A document in a foreign currency.  Its item takes the rate of the day   *)
(* it is raised, its entry the rate of that day as the table stands when   *)
(* the event is booked; a payment takes the item's rate for the control    *)
(* account and today's for cash, and what is left is a gain or a loss.     *)
(* Every leg is rounded to the cent.                                       *)
(***************************************************************************)
EXTENDS Integers, SequencesExt

CONSTANTS
  Day,        \* days, from 1
  Rate, Unit, \* numerators of a rate, and its denominator
  Amount,     \* amounts raised, paid or credited, in foreign cents
  MaxSettled  \* bound: payments and notes of the document

VARIABLES
  today,
  table,      \* exchange_rates: by day, 0 without a rate
  item,       \* direction, day raised, amount, fx_rate; "none" before
  bookedAt,   \* the rate of the document's entry, 0 before it is booked
  control,    \* base cents on the document's control account
  gain,       \* realized gains less losses of its payments
  settled     \* payments and notes: kind, amount, the table's rate then

vars == << today, table, item, bookedAt, control, gain, settled >>

None == [direction |-> "none", raised |-> 0, amount |-> 0, rate |-> 0]

\* Base cents of an amount: rounded to the nearest, half up; none is negative.
Base(amount, rate) == (2 * amount * rate + Unit) \div (2 * Unit)

\* GetRate: the newest rate on or before the day, 0 for ErrNoRate.
GetRate(day) ==
  LET known == { d \in Day : d <= day /\ table[d] > 0 } IN
  IF known = {} THEN 0 ELSE table[CHOOSE d \in known : \A e \in known : e <= d]
RateOrOne(day) == IF GetRate(day) = 0 THEN Unit ELSE GetRate(day)

Init ==
  /\ today = 1 /\ table = [d \in Day |-> 0] /\ item = None /\ bookedAt = 0
  /\ control = 0 /\ gain = 0 /\ settled = << >>

NewDay ==
  /\ today + 1 \in Day
  /\ today' = today + 1
  /\ UNCHANGED << table, item, bookedAt, control, gain, settled >>

\* UpsertRate: for any day, over what it was.
UpsertRate(day, rate) ==
  /\ table' = [table EXCEPT ![day] = rate]
  /\ UNCHANGED << today, item, bookedAt, control, gain, settled >>

\* CreateAROpenItem, CreateAPOpenItem: a day without a rate counts as 1:1.
CreateItem(direction, amount) ==
  /\ item = None
  /\ item' = [direction |-> direction, raised |-> today, amount |-> amount,
              rate |-> RateOrOne(today)]
  /\ UNCHANGED << today, table, bookedAt, control, gain, settled >>

\* The side of the control account: receivables are debits.
Side == IF item.direction = "ar" THEN 1 ELSE -1

Settled == FoldLeft(LAMBDA sum, s : sum + s.amount, 0, settled)

\* BookFromEvent: the event says when it was raised, the table what that day's
\* rate is by now.  Deliveries again book nothing.
BookDocument ==
  /\ item # None /\ bookedAt = 0
  /\ bookedAt' = RateOrOne(item.raised)
  /\ control' = control + Side * Base(item.amount, RateOrOne(item.raised))
  /\ UNCHANGED << today, table, item, gain, settled >>

\* settlementRates: a missing rate of today is the item's.
PayRate == IF GetRate(today) = 0 THEN item.rate ELSE GetRate(today)

\* Variant: the item is cleared at today's rate.
ClearingAtToday(amount) == Base(amount, PayRate)

Clearing(amount) == Base(amount, item.rate)

Settle(kind, amount) ==
  /\ item # None /\ Len(settled) < MaxSettled
  /\ Settled + amount <= item.amount
  /\ settled' = Append(settled, [kind |-> kind, amount |-> amount,
                                 rate |-> GetRate(today)])
  /\ UNCHANGED << today, table, item, bookedAt >>

\* settlementLines: the residual is what the cash leg, at today's rate, is worth
\* above what is cleared.
Pay(amount) ==
  /\ Settle("payment", amount)
  /\ control' = control - Side * Clearing(amount)
  /\ gain' = gain + Side * (Base(amount, PayRate) - Clearing(amount))

\* CreateAdjustment, a credit note that fits: at the rate of the item it amends.
Credit(amount) ==
  /\ Settle("note", amount)
  /\ control' = control - Side * Base(amount, item.rate)
  /\ UNCHANGED gain

Next ==
  \/ NewDay \/ BookDocument
  \/ \E d \in Day, r \in Rate : UpsertRate(d, r)
  \/ \E a \in Amount :
       \/ \E direction \in {"ar", "ap"} : CreateItem(direction, a)
       \/ Pay(a) \/ Credit(a)

Spec == Init /\ [][Next]_vars

-----------------------------------------------------------------------------
(* Properties. *)

\* migrations/024_fx.sql:33, "books stay balanced": what a document leaves on its
\* control account is the open balance at its rate, within half a cent for each
\* entry, and nothing of any rate that came later.  Unless the table was edited
\* under its day before its entry was booked: then the difference of the two
\* rates stays there, paid or not.
ControlKeepsBalance ==
  bookedAt > 0 =>
    LET exact == item.amount * bookedAt - Settled * item.rate
        off == Side * Unit * control - exact
    IN  2 * (IF off < 0 THEN - off ELSE off) <= Unit * (Len(settled) + 1)

\* The realized gain is the change of the rate on what was paid, within a cent
\* for each payment, and none where the table had no rate: a missing rate falls
\* back to the document's (ledger/payments.go:96).
GainIsRateChange ==
  LET payments == SelectSeq(settled, LAMBDA s : s.kind = "payment" /\ s.rate > 0)
      exact == FoldLeft(LAMBDA sum, s : sum + s.amount * (s.rate - item.rate),
                        0, payments)
      off == Unit * Side * gain - exact
  IN  item # None =>
        /\ (IF off < 0 THEN - off ELSE off) <= Unit * Len(payments)
        /\ payments = << >> => gain = 0

\* Control account, cash and gains of a foreign document tie (settlementLines).
SettlementTies == ControlKeepsBalance /\ GainIsRateChange
=============================================================================
