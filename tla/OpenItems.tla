----------------------------- MODULE OpenItems -----------------------------
(***************************************************************************)
(* The receivables subledger against its control account: open items, the  *)
(* payments, credit and debit notes and write-offs applied to them, what   *)
(* each posts to account 1100, and the journal's reversal of such a        *)
(* posting.  Payables run through the same code with account 2000, without *)
(* the write-off.                                                          *)
(*                                                                         *)
(* A request first reads outside its transaction (does the item exist, was *)
(* the idempotency key processed, is the month closed, what is owed), then *)
(* commits one transaction; requests interleave between the two.  Amounts  *)
(* are in the item's currency at an unchanged rate.                        *)
(***************************************************************************)
EXTENDS Integers, FiniteSets, Functions

CONSTANTS
  Doc,         \* document refs
  PayRef,      \* payment refs / Idempotency-Key values
  NoteRef,     \* document refs of credit and debit notes
  Amount,      \* amounts of invoices, payments and notes
  MaxAmount,   \* bound: what debit notes may raise an item to
  MaxInFlight, \* bound: requests between their reads and their transaction
  MaxReversed  \* bound: postings the ledger reverses

AmountsAssumption ==
  /\ Amount \subseteq Nat \ {0} /\ IsFiniteSet(PayRef)
  /\ MaxAmount \in Nat /\ MaxInFlight \in Nat /\ MaxReversed \in Nat

VARIABLES
  item,       \* ar_open_items by document ref: status, amount, amount_paid
  announced,  \* the amount in the sale.completed event; 0 = not enqueued
  booked,     \* documents whose sale.completed the consumer has booked
  recreated,  \* documents deleted and entered again
  control,    \* per document: what its entries left on account 1100
  payment,    \* finance_payments: the amount paid under a ref; 0 = none
  notes,      \* finance_adjustments
  reversed,   \* postings whose journal entry has been reversed
  writtenOff, \* ar_writeoffs: the amount de-recognised; 0 = none
  requests,   \* payments, notes and write-offs past their reads
  shut        \* the current month is closed

vars == << item, announced, booked, recreated, control, payment, notes,
           reversed, writtenOff, requests, shut >>

Status == {"none", "open", "partial", "closed", "deleted"}
Kind == {"credit", "debit"}
Item == [status: Status, amount: Nat, paid: Nat]
NoItem(s) == [status |-> s, amount |-> 0, paid |-> 0]

PayRequest == [op: {"pay"}, doc: Doc, ref: PayRef, amount: Amount]
NoteRequest == [op: Kind, doc: Doc, ref: NoteRef, amount: Amount]
WriteOffRequest == [op: {"writeoff"}, doc: Doc, amount: Nat]

Live(d) == item[d].status \in {"open", "partial", "closed"}
Owed(d) == item[d].amount - item[d].paid
Room == Cardinality(requests) < MaxInFlight

Init ==
  /\ item = [d \in Doc |-> NoItem("none")]
  /\ announced = [d \in Doc |-> 0]
  /\ booked = {} /\ recreated = {}
  /\ control = [d \in Doc |-> 0]
  /\ payment = [d \in Doc |-> [r \in PayRef |-> 0]]
  /\ notes = {} /\ reversed = {}
  /\ writtenOff = [d \in Doc |-> 0]
  /\ requests = {}
  /\ shut = FALSE

-----------------------------------------------------------------------------
(* The item itself. *)

\* CreateAROpenItem: document_ref is unique, and so is the event id made of
\* it: a document entered again announces nothing.
CreateItem(d, a) ==
  /\ ~ Live(d)
  /\ item' = [item EXCEPT ![d] = [status |-> "open", amount |-> a, paid |-> 0]]
  /\ announced' = [announced EXCEPT ![d] = IF @ = 0 THEN a ELSE @]
  /\ recreated' = IF item[d].status = "deleted" THEN recreated \cup {d}
                                                ELSE recreated
  /\ UNCHANGED << booked, control, payment, notes, reversed, writtenOff,
                  requests, shut >>

\* The consumer books sale.completed, once (see EventDelivery).
BookSale(d) ==
  /\ announced[d] > 0 /\ d \notin booked
  /\ booked' = booked \cup {d}
  /\ control' = [control EXCEPT ![d] = @ + announced[d]]
  /\ UNCHANGED << item, announced, recreated, payment, notes, reversed,
                  writtenOff, requests, shut >>

\* UpdateAROpenItem: a manual status, on an item that is not closed.
PatchStatus(d, s) ==
  /\ item[d].status \in {"open", "partial"}
  /\ item' = [item EXCEPT ![d].status = s]
  /\ UNCHANGED << announced, booked, recreated, control, payment, notes,
                  reversed, writtenOff, requests, shut >>

\* DeleteAROpenItem: open and unpaid only.  A payment under way has the id of
\* the deleted row and can only fail.
DeleteItem(d) ==
  /\ item[d].status = "open" /\ item[d].paid = 0
  /\ item' = [item EXCEPT ![d] = NoItem("deleted")]
  /\ requests' = { q \in requests : ~ (q.op = "pay" /\ q.doc = d) }
  /\ UNCHANGED << announced, booked, recreated, control, payment, notes,
                  reversed, writtenOff, shut >>

\* Somebody closes or reopens the current month.
CloseOrReopen ==
  /\ shut' = ~ shut
  /\ UNCHANGED << item, announced, booked, recreated, control, payment, notes,
                  reversed, writtenOff, requests >>

-----------------------------------------------------------------------------
(* Payments. *)

\* ApplyARPayment up to the second look at processed_events.  No look at the
\* status of the item or of the month.
BeginPayment(d, r, a) ==
  /\ Live(d) /\ payment[d][r] = 0 /\ Room
  /\ requests' = requests \cup
                   {[op |-> "pay", doc |-> d, ref |-> r, amount |-> a]}
  /\ UNCHANGED << item, announced, booked, recreated, control, payment, notes,
                  reversed, writtenOff, shut >>

StatusPaid(paid, amount) == IF paid >= amount THEN "closed" ELSE "partial"

\* Variant: the payment trusts the open balance it read at first.
CommitPaymentUnchecked(q) ==
  /\ q.op = "pay" /\ payment[q.doc][q.ref] = 0
  /\ item' = [item EXCEPT
                ![q.doc].paid = @ + q.amount,
                ![q.doc].status =
                   StatusPaid(item[q.doc].paid + q.amount, item[q.doc].amount)]
  /\ payment' = [payment EXCEPT ![q.doc][q.ref] = q.amount]
  /\ control' = [control EXCEPT ![q.doc] = @ - q.amount]
  /\ requests' = requests \ {q}
  /\ UNCHANGED << announced, booked, recreated, notes, reversed, writtenOff,
                  shut >>

\* Variant: no unique index holds a second payment under one ref.
CommitPaymentTwice(q) ==
  /\ q.op = "pay" /\ item[q.doc].paid + q.amount <= item[q.doc].amount
  /\ item' = [item EXCEPT
                ![q.doc].paid = @ + q.amount,
                ![q.doc].status =
                   StatusPaid(item[q.doc].paid + q.amount, item[q.doc].amount)]
  /\ payment' = [payment EXCEPT ![q.doc][q.ref] = q.amount]
  /\ control' = [control EXCEPT ![q.doc] = @ - q.amount]
  /\ requests' = requests \ {q}
  /\ UNCHANGED << announced, booked, recreated, notes, reversed, writtenOff,
                  shut >>

\* ApplyPaymentWithJournal: SELECT ... FOR UPDATE, the over-payment check, the
\* posted entry (unique source_event_id), the item and the payment row, all or
\* nothing.
CommitPayment(q) ==
  /\ q.op = "pay" /\ payment[q.doc][q.ref] = 0
  /\ item[q.doc].paid + q.amount <= item[q.doc].amount
  /\ item' = [item EXCEPT ![q.doc] =
                [status |-> StatusPaid(@.paid + q.amount, @.amount),
                 amount |-> @.amount, paid |-> @.paid + q.amount]]
  /\ payment' = [payment EXCEPT ![q.doc][q.ref] = q.amount]
  /\ control' = [control EXCEPT ![q.doc] = @ - q.amount]
  /\ requests' = requests \ {q}
  /\ UNCHANGED << announced, booked, recreated, notes, reversed, writtenOff,
                  shut >>

-----------------------------------------------------------------------------
(* Credit and debit notes. *)

\* The event id of a note is made of document, kind and reference.
Noted(d, k, r) ==
  \E n \in notes : n.doc = d /\ n.op = k /\ n.ref = r

\* CreateAdjustment up to IsEventProcessed.
BeginNote(d, k, r, a) ==
  /\ Live(d) /\ ~ shut /\ ~ Noted(d, k, r) /\ Room
  /\ requests' = requests \cup
                   {[op |-> k, doc |-> d, ref |-> r, amount |-> a]}
  /\ UNCHANGED << item, announced, booked, recreated, control, payment, notes,
                  reversed, writtenOff, shut >>

Delta(q) == IF q.op = "credit" THEN - q.amount ELSE q.amount

\* Variant: an item with payments is "partial" before it is looked at further.
StatusAdjustedPartialFirst(paid, amount) ==
  IF paid > 0 THEN "partial" ELSE IF amount = paid THEN "closed" ELSE "open"

StatusAdjusted(paid, amount) ==
  IF amount = paid THEN "closed" ELSE IF paid > 0 THEN "partial" ELSE "open"

\* Variant: the entry stays when the item turns out to be closed.
CommitNoteSideIgnored(q) ==
  LET amount == item[q.doc].amount + Delta(q) IN
  /\ q.op \in Kind /\ ~ Noted(q.doc, q.op, q.ref)
  /\ amount >= item[q.doc].paid /\ amount > 0 /\ amount <= MaxAmount
  /\ item' = IF item[q.doc].status \in {"open", "partial"}
               THEN [item EXCEPT ![q.doc].amount = amount]
               ELSE item
  /\ notes' = notes \cup {q}
  /\ control' = [control EXCEPT ![q.doc] = @ + Delta(q)]
  /\ requests' = requests \ {q}
  /\ UNCHANGED << announced, booked, recreated, payment, reversed, writtenOff,
                  shut >>

\* BookAdjustment: the entry, then adjustOpenItemAmountTx, which locks the
\* row, refuses a closed item and an amount below what was paid, and the
\* CHECK (amount > 0) of the table.
CommitNote(q) ==
  LET amount == item[q.doc].amount + Delta(q) IN
  /\ q.op \in Kind /\ ~ Noted(q.doc, q.op, q.ref)
  /\ item[q.doc].status \in {"open", "partial"}
  /\ amount >= item[q.doc].paid /\ amount > 0 /\ amount <= MaxAmount
  /\ item' = [item EXCEPT ![q.doc] =
                [status |-> StatusAdjusted(@.paid, amount), amount |-> amount,
                 paid |-> @.paid]]
  /\ notes' = notes \cup {q}
  /\ control' = [control EXCEPT ![q.doc] = @ + Delta(q)]
  /\ requests' = requests \ {q}
  /\ UNCHANGED << announced, booked, recreated, payment, reversed, writtenOff,
                  shut >>

-----------------------------------------------------------------------------
(* Write-offs. *)

\* WriteOffAR: the month, then what is owed, then processed_events.
BeginWriteOff(d) ==
  /\ Live(d) /\ ~ shut /\ Owed(d) > 0 /\ writtenOff[d] = 0 /\ Room
  /\ requests' = requests \cup
                   {[op |-> "writeoff", doc |-> d, amount |-> Owed(d)]}
  /\ UNCHANGED << item, announced, booked, recreated, control, payment, notes,
                  reversed, writtenOff, shut >>

\* WriteOffReceivable's transaction credits what was owed when it looked, and
\* closes the item whatever has been paid since.
CommitWriteOff(q) ==
  /\ q.op = "writeoff" /\ writtenOff[q.doc] = 0
  /\ writtenOff' = [writtenOff EXCEPT ![q.doc] = q.amount]
  /\ control' = [control EXCEPT ![q.doc] = @ - q.amount]
  /\ item' = IF Live(q.doc) THEN [item EXCEPT ![q.doc].status = "closed"]
                            ELSE item
  /\ requests' = requests \ {q}
  /\ UNCHANGED << announced, booked, recreated, payment, notes, reversed,
                  shut >>

-----------------------------------------------------------------------------
(* The ledger reverses a posting: POST /ledger/entries/:id/reverse takes any *)
(* posted entry, whatever subledger it belongs to.                          *)

\* What the entries of the documents moved on the control account.
Posting(d, kind, ref, moved) ==
  [doc |-> d, of |-> << kind, ref >>, moved |-> moved]

Postings ==
  { Posting(d, "sale", d, announced[d]) : d \in booked }
  \cup { Posting(d, "pay", r, - payment[d][r]) : d \in Doc, r \in PayRef }
  \cup { Posting(n.doc, n.op, n.ref, Delta(n)) : n \in notes }

\* Variant: the mirror's lines carry base amounts.
ReverseInBase(x) ==
  /\ x \in Postings \ reversed /\ x.moved # 0
  /\ Cardinality(reversed) < MaxReversed
  /\ reversed' = reversed \cup {x}
  /\ control' = [control EXCEPT ![x.doc] = @ - 2 * x.moved]
  /\ UNCHANGED << item, announced, booked, recreated, payment, notes,
                  writtenOff, requests, shut >>

\* ReverseEntry: the entry is 'reversed' and counts no more, its mirror has no
\* base amounts (see Journal), and the item, the payment row and the note are
\* not looked at.
ReverseEntry(x) ==
  /\ x \in Postings \ reversed /\ x.moved # 0
  /\ Cardinality(reversed) < MaxReversed
  /\ reversed' = reversed \cup {x}
  /\ control' = [control EXCEPT ![x.doc] = @ - x.moved]
  /\ UNCHANGED << item, announced, booked, recreated, payment, notes,
                  writtenOff, requests, shut >>

\* A request fails: a guard of its transaction, the database or the client.
Abandon(q) ==
  /\ requests' = requests \ {q}
  /\ UNCHANGED << item, announced, booked, recreated, control, payment, notes,
                  reversed, writtenOff, shut >>

-----------------------------------------------------------------------------
ItemNext(d) ==
  \/ \E a \in Amount : CreateItem(d, a)
  \/ BookSale(d)
  \/ \E s \in {"open", "partial", "closed"} : PatchStatus(d, s)
  \/ DeleteItem(d)
  \/ \E r \in PayRef, a \in Amount : BeginPayment(d, r, a)
  \/ \E k \in Kind, r \in NoteRef, a \in Amount : BeginNote(d, k, r, a)
  \/ BeginWriteOff(d)

RequestNext(q) ==
  CommitPayment(q) \/ CommitNote(q) \/ CommitWriteOff(q) \/ Abandon(q)

Next ==
  \/ CloseOrReopen
  \/ \E x \in Postings : ReverseEntry(x)
  \/ \E d \in Doc : ItemNext(d)
  \/ \E q \in requests : RequestNext(q)

Spec == Init /\ [][Next]_vars

-----------------------------------------------------------------------------
(* Properties. *)

TypeOK ==
  /\ item \in [Doc -> Item]
  /\ announced \in [Doc -> Nat] /\ writtenOff \in [Doc -> Nat]
  /\ booked \subseteq Doc /\ recreated \subseteq Doc
  /\ control \in [Doc -> Int]
  /\ payment \in [Doc -> [PayRef -> Nat]]
  /\ notes \subseteq NoteRequest /\ reversed \subseteq Postings
  /\ requests \subseteq PayRequest \cup NoteRequest \cup WriteOffRequest
  /\ shut \in BOOLEAN

\* Payments and credit notes that race on one item never leave it paid beyond
\* its amount (the row lock and the two checks behind it).
PaidWithinAmount == \A d \in Doc : item[d].paid <= item[d].amount

Received(d) == SumFunction(payment[d])

\* amount_paid is what the payment rows add up to: two requests under one
\* Idempotency-Key count once, and no item is deleted under a payment
\* (ApplyPaymentWithJournal, DeleteAROpenItem).
PaidIsWhatWasReceived == \A d \in Doc : item[d].paid = Received(d)

\* An item that owes nothing is closed, whichever of the payment and the
\* credit note came last; it is never dunned or aged.
NothingOwedIsClosed ==
  \A d \in Doc : Live(d) /\ Owed(d) = 0 => item[d].status = "closed"

Unbooked(d) == IF d \in booked THEN 0 ELSE announced[d]

Undone(d) == SumFunction([x \in { y \in reversed : y.doc = d } |-> x.moved])

\* The control account and the subledger agree on every document, in any
\* order of payments, notes and the booking of the sale itself, as long as it
\* was not written off nor deleted and entered again.  Reversing an entry
\* parts them, by that entry and no more, and nothing the subledger does later
\* (a payment of the rest, a retry under the same reference, the late
\* booking of the sale) hides or doubles the difference.
ControlTiesToSubledger ==
  \A d \in Doc :
    Live(d) /\ writtenOff[d] = 0 /\ d \notin recreated =>
      control[d] + Unbooked(d) + Undone(d) = Owed(d)

\* What an item shows as paid was received, and is no more than was owed.
PaidIsReceived == PaidWithinAmount /\ PaidIsWhatWasReceived

\* Status, balance and control account of an item agree.
SubledgerTies == NothingOwedIsClosed /\ ControlTiesToSubledger

\* Payments, item and control account tell one story, however they interleave.
ItemsTie == PaidIsReceived /\ SubledgerTies
=============================================================================
