--------------------------- MODULE LeaseSchedule ---------------------------
(***************************************************************************)
(* buildLeaseSchedule (repository/leases.go): the present value of a       *)
(* lease's payments and the loop that lays out its amortization, a step    *)
(* for a month.  Amounts are cents; a monthly rate is a fraction.          *)
(***************************************************************************)
EXTENDS Integers, FiniteSetsExt

CONSTANTS
  Payment,  \* monthly payments
  Rate,     \* numerators of the monthly rate
  Base,     \* its denominator
  Term      \* numbers of months

VARIABLES
  payment, rate, term,  \* the arguments
  month,                \* the loop's counter, from 1
  opening,              \* the liability at the month's beginning
  depreciated,          \* accumDepr
  last                  \* the payment of the row laid out last

vars == << payment, rate, term, month, opening, depreciated, last >>

\* Rounded to the cent, half up; the operands are not negative.
Rounded(n, d) == (2 * n + d) \div (2 * d)

\* The sum of payment / (1 + rate)^i.
PresentValue(p, r, n) ==
  Rounded(p * MapThenSumSet(LAMBDA i : Base^i * (Base + r)^(n - i), 1 .. n),
          (Base + r)^n)

Init ==
  /\ payment \in Payment /\ rate \in Rate /\ term \in Term
  /\ PresentValue(payment, rate, term) > 0
  /\ month = 1 /\ depreciated = 0 /\ last = payment
  /\ opening = PresentValue(payment, rate, term)

RightOfUse == PresentValue(payment, rate, term)

\* Variant: interest on what was owed at first.
InterestOnFirst == Rounded(RightOfUse * rate, Base)

Interest == Rounded(opening * rate, Base)

\* Variant: the last month is like any other.
PrincipalUnforced == payment - Interest

\* The last month clears what is left.
Principal == IF month = term THEN opening ELSE payment - Interest

Depreciation ==
  IF month = term THEN RightOfUse - depreciated ELSE Rounded(RightOfUse, term)

LayOut ==
  /\ month <= term
  /\ opening' = opening - Principal
  /\ depreciated' = depreciated + Depreciation
  /\ last' = Interest + Principal
  /\ month' = month + 1
  /\ UNCHANGED << payment, rate, term >>

Next == LayOut

Spec == Init /\ [][Next]_vars

-----------------------------------------------------------------------------
(* Properties. *)

\* The schedule ends with nothing owed and the asset written off, and neither
\* is overshot or grows on the way.
ScheduleCloses ==
  /\ opening >= 0 /\ opening <= RightOfUse
  /\ month > term => opening = 0 /\ depreciated = RightOfUse

\* Clearing what is left in the last month costs a payment like every other,
\* but for the cents the rounding of each month has piled up.
LastPaymentIsLevel ==
  month > term => /\ last - payment <= term
                  /\ payment - last <= term

\* The lease closes in its last month, without a jump (buildLeaseSchedule).
LeaseCloses == ScheduleCloses /\ LastPaymentIsLevel
=============================================================================
