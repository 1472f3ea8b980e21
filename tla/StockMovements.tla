--------------------------- MODULE StockMovements ---------------------------
(***************************************************************************)
(* Stock in the general ledger (ledger/inventory.go,                       *)
(* consumer/warehouse.go, ledger/grir.go): the warehouse moves stock and   *)
(* tells of each movement, procurement tells of what it received against   *)
(* an order, and the ledger books from both, each event once, in whatever  *)
(* order they arrive.  One delivery against an order raises an event of    *)
(* each.                                                                   *)
(***************************************************************************)
EXTENDS Integers, FiniteSets

CONSTANTS
  Value,     \* values of single movements
  MaxEvents  \* bound: events told

ValueAssumption == Value \subseteq Nat \ {0} /\ MaxEvents \in Nat

VARIABLES
  stock, work,  \* the value of what is held, and of what is in production
  bought,       \* the value received and not billed
  told,         \* the events: a number, a type, a signed value, an origin
  processed,    \* those booked
  account       \* inventory 1400, WIP 1450, GR/IR 2150 (credit), and cost:
                \* cost of sales 5000 with the expensed part of receipts

vars == << stock, work, bought, told, processed, account >>

Accounts == {"inventory", "wip", "grir", "cost"}

Init ==
  /\ stock = 0 /\ work = 0 /\ bought = 0
  /\ told = {} /\ processed = {}
  /\ account = [a \in Accounts |-> 0]

-----------------------------------------------------------------------------
(* What happens, and what the other services tell of it. *)

Event(n, type, value, origin) ==
  [n |-> Cardinality(told) + n, type |-> type, value |-> value, origin |-> origin]

Tell(events) ==
  /\ Cardinality(told) + Cardinality(events) <= MaxEvents
  /\ told' = told \cup events
  /\ UNCHANGED << processed, account >>

\* A delivery against an order: procurement posts its receipt, and the
\* warehouse puts it away and says where it came from.
Deliver(v) ==
  /\ stock' = stock + v /\ bought' = bought + v
  /\ Tell({Event(1, "grn", v, "order"), Event(2, "receipt", v, "procurement_grn")})
  /\ UNCHANGED work

\* Stock without an order: field intake.
Intake(v) ==
  /\ stock' = stock + v /\ bought' = bought + v
  /\ Tell({Event(1, "receipt", v, "intake")})
  /\ UNCHANGED work

\* An order of what is not stocked is only received.
DeliverService(v) ==
  /\ bought' = bought + v
  /\ Tell({Event(1, "grn", v, "service")})
  /\ UNCHANGED << stock, work >>

Issue(v) ==
  /\ v <= stock /\ stock' = stock - v
  /\ Tell({Event(1, "issue", v, "warehouse")})
  /\ UNCHANGED << work, bought >>

Return(v) ==
  /\ stock' = stock + v
  /\ Tell({Event(1, "return", v, "warehouse")})
  /\ UNCHANGED << work, bought >>

\* A count finds more or less than there should be.
Adjust(v) ==
  /\ stock + v >= 0 /\ stock' = stock + v
  /\ Tell({Event(1, "adjustment", v, "warehouse")})
  /\ UNCHANGED << work, bought >>

Consume(v) ==
  /\ v <= stock /\ stock' = stock - v /\ work' = work + v
  /\ Tell({Event(1, "production_consume", v, "warehouse")})
  /\ UNCHANGED bought

\* The output is valued at what its order consumed.
Output ==
  /\ work > 0 /\ stock' = stock + work /\ work' = 0
  /\ Tell({Event(1, "production_output", work, "warehouse")})
  /\ UNCHANGED bought

\* Without a cost, or without a change of value.
Transfer(v) ==
  /\ Tell({Event(1, "transfer", v, "warehouse")})
  /\ UNCHANGED << stock, work, bought >>

-----------------------------------------------------------------------------
(* The bookings. *)

Move(dr, cr, v) ==
  LET Signed(a) == IF a = "grir" THEN -1 ELSE 1 IN
  [account EXCEPT ![dr] = @ + Signed(dr) * v, ![cr] = @ - Signed(cr) * v]

\* Variant: where a receipt came from does not matter.
AccruedNever(e) == FALSE

\* Accrued already from the receipt against the order.
Accrued(e) == e.type = "receipt" /\ e.origin = "procurement_grn"

\* Variant: an adjustment is booked as an increase.
IncreaseAlways(e) == TRUE

Increase(e) == e.value > 0

Abs(v) == IF v < 0 THEN - v ELSE v

\* linesForMovement; and for a receipt of an order grnAccrualLines, which
\* capitalises what is stock and expenses the rest.
Booked(e) ==
  CASE e.type = "grn" ->
         Move(IF e.origin = "order" THEN "inventory" ELSE "cost", "grir", e.value)
    [] e.type = "receipt" /\ ~ Accrued(e) -> Move("inventory", "grir", e.value)
    [] e.type = "issue" -> Move("cost", "inventory", e.value)
    [] e.type = "return" -> Move("inventory", "cost", e.value)
    [] e.type = "production_consume" -> Move("wip", "inventory", e.value)
    [] e.type = "production_output" -> Move("inventory", "wip", e.value)
    [] e.type = "adjustment" ->
         IF Increase(e) THEN Move("inventory", "cost", Abs(e.value))
                        ELSE Move("cost", "inventory", Abs(e.value))
    [] OTHER -> account

\* Variant: a redelivery is booked again.
NewAlways(e) == TRUE

\* BookFromEvent books a source event once.
New(e) == e \notin processed

Deliveries(e) ==
  /\ account' = IF New(e) THEN Booked(e) ELSE account
  /\ processed' = processed \cup {e}
  /\ UNCHANGED << stock, work, bought, told >>

\* The vendor's bill clears what was received.
Bill ==
  /\ bought > 0 /\ processed = told
  /\ bought' = 0
  /\ account' = [account EXCEPT !["grir"] = @ - bought]
  /\ UNCHANGED << stock, work, told, processed >>

Next ==
  \/ \E v \in Value : \/ Deliver(v) \/ Intake(v) \/ DeliverService(v)
                      \/ Issue(v) \/ Return(v) \/ Consume(v) \/ Transfer(v)
                      \/ Adjust(v) \/ Adjust(- v)
  \/ Output \/ Bill
  \/ \E e \in told : Deliveries(e)

Spec == Init /\ [][Next]_vars

-----------------------------------------------------------------------------
(* Properties. *)

\* "The receipt has to be booked exactly once" (inventory.go:52): when every
\* event has been booked, in any order and any number of deliveries, inventory
\* and work in progress are worth what there is, and the clearing account is
\* what was received and not billed.
StockTies ==
  processed = told =>
    /\ account["inventory"] = stock
    /\ account["wip"] = work
    /\ account["grir"] = bought
=============================================================================
