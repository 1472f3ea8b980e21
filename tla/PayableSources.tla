--------------------------- MODULE PayableSources ---------------------------
(***************************************************************************)
(* Where payables come from (consumer/procurement.go, consumer.go,         *)
(* supplychain.go, handlers/ledger_api.go, ledger/grir.go).  Procurement,  *)
(* contracts, fuel, coffee and the API raise the AP item and enqueue its   *)
(* invoice.posted in the same transaction; the consumer of that event      *)
(* books the entry and then links the item.  Other services may publish    *)
(* invoice.posted themselves.  Events arrive more than once.               *)
(***************************************************************************)
EXTENDS Integers, FiniteSets, Functions

CONSTANTS
  Doc,       \* document references
  Outside,   \* invoice.posted events of other services
  Names,     \* the document each of them names
  Bill,      \* what the events of a document may say, see NoBill
  Unit,      \* a cent, in the parts of a cent amounts are told in
  Rate,      \* percentages the reverse-charge code may have, 0 when it has none
  Whole,     \* what a rate is a part of
  NoEvent,   \* the link of an item without an entry
  Worker,    \* handlers of invoice.posted in flight
  MaxDeleted \* bills deleted, at most

BillsAssumption ==
  /\ IsFiniteSet(Doc) /\ IsFiniteSet(Outside) /\ Doc \cap Outside = {}
  /\ NoEvent \notin Doc \cup Outside
  /\ \A m \in Outside : Names[m] \in Doc
  /\ \A m \in Doc \cup Outside : \A b \in Bill[m] :
       b.amount \in Nat /\ b.vat \in Nat /\ b.stock \in Nat
  /\ Unit \in Nat \ {0} /\ Whole \in Nat \ {0} /\ Rate \subseteq Nat

VARIABLES
  item,      \* ap_open_items by document_ref: what raised it, its entry
  message,   \* by event: what the published invoice.posted says
  entry,     \* events that were booked
  account,   \* the accounts the entries are on, each on its natural side
  rate,      \* of the reverse-charge tax code
  assessed,  \* documents self-assessed by hand
  deleted,   \* documents whose bill was deleted, once at least
  answer,    \* by event: how the consumer ended it
  worker     \* each handler's step, its event, the rate it read

vars == << item, message, entry, account, rate, assessed, deleted, answer,
           worker >>

Event == Doc \cup Outside
DocOf(m) == IF m \in Doc THEN m ELSE Names[m]

NoBill == [source |-> "none", amount |-> 0, vat |-> 0, stock |-> 0, po |-> FALSE,
           reverse |-> FALSE]
NoItem == [bill |-> NoBill, amount |-> 0, entry |-> NoEvent]
Idle == [at |-> "idle", event |-> NoEvent, rate |-> 0]
Account == {"payable", "clearing", "stock", "expense", "input", "output"}

Init ==
  /\ item = [d \in Doc |-> NoItem]
  /\ message = [m \in Event |-> NoBill]
  /\ entry = {}
  /\ account = [a \in Account |-> 0]
  /\ rate \in Rate
  /\ assessed = {} /\ deleted = {}
  /\ answer = [m \in Event |-> "none"]
  /\ worker = [w \in Worker |-> Idle]

\* n / k to the cent.
Cents(n, k) == Unit * ((2 * n + k * Unit) \div (2 * k * Unit))

-----------------------------------------------------------------------------
(* Raising a payable. *)

\* Variant: fuel drawn is announced, and no payable recorded, as it once was.
RecordedUnlessFuel(b) == b.source # "fuel"

Recorded(b) == TRUE

\* A contract payment hands no outbox row to CreateAPItem.
Announced(b) == b.source # "contract"

\* Variant: the reference is not unique, a second item takes its place.
NotRaisedAnyway(d) == TRUE

NotRaised(d) == item[d] = NoItem

\* CreateAPOpenItem: the item, kept to the cent and refused at nothing, and the
\* event with the amount as it was told.
Raise(d, b) ==
  /\ IF NotRaised(d) /\ Cents(b.amount, 1) > 0
     THEN /\ item' = IF Recorded(b)
                     THEN [item EXCEPT ![d] = [bill |-> b, entry |-> NoEvent,
                                               amount |-> Cents(b.amount, 1)]]
                     ELSE item
          /\ message' = IF Announced(b) /\ message[d] = NoBill
                        THEN [message EXCEPT ![d] = b] ELSE message
     ELSE UNCHANGED << item, message >>
  /\ UNCHANGED << entry, account, rate, assessed, deleted, answer, worker >>

\* DeleteBillLegacy, of a bill nothing was paid on: neither its entry nor its
\* event goes with it, and when it is entered again nothing is announced.
DeleteBill(d) ==
  /\ item[d] # NoItem /\ Cardinality(deleted \cup {d}) <= MaxDeleted
  /\ item' = [item EXCEPT ![d] = NoItem]
  /\ deleted' = deleted \cup {d}
  /\ UNCHANGED << message, entry, account, rate, assessed, answer, worker >>

PublishDirectly(m, b) ==
  /\ message[m] = NoBill /\ m \in Outside
  /\ message' = [message EXCEPT ![m] = b]
  /\ UNCHANGED << item, entry, account, rate, assessed, deleted,
                  answer, worker >>

-----------------------------------------------------------------------------
(* Booking it. *)

\* An event comes again until its offset is committed, to whoever asks.
Fetch(w, m) ==
  /\ worker[w] = Idle
  /\ message[m] # NoBill /\ answer[m] = "none"
  /\ worker' = [worker EXCEPT ![w] = [at |-> "read", event |-> m, rate |-> 0]]
  /\ UNCHANGED << item, message, entry, account, rate, assessed,
                  deleted, answer >>

\* GetTaxCode, before the transaction.
ReadRate(w) ==
  /\ worker[w].at = "read"
  /\ worker' = [worker EXCEPT ![w].at = "book",
                  ![w].rate = IF message[worker[w].event].reverse THEN rate ELSE 0]
  /\ UNCHANGED << item, message, entry, account, rate, assessed,
                  deleted, answer >>

\* A VAT amount above the gross is ignored.
Vat(b) == IF b.vat > b.amount THEN 0 ELSE b.vat
Net(b) == b.amount - Vat(b)

\* The net of an order clears GR/IR; any other is stock up to what the event
\* calls stock, and expense.
Capitalised(b) ==
  IF b.po THEN 0 ELSE IF b.stock > Net(b) THEN Net(b) ELSE b.stock
Cleared(b) == IF b.po THEN Net(b) ELSE 0

\* Variant: self-assessed VAT is owed to the supplier.
OwedWithReverse(b, reverse) == b.amount + reverse

\* The credit of the control account: reverse-charge VAT is no part of it.
Owed(b, reverse) == b.amount

Line(b, reverse, a) ==
  CASE a = "payable"  -> Owed(b, reverse)
    [] a = "clearing" -> Cleared(b)
    [] a = "stock"    -> Capitalised(b)
    [] a = "expense"  -> Net(b) - Cleared(b) - Capitalised(b)
    [] a = "input"    -> Vat(b) + reverse
    [] a = "output"   -> reverse

\* Variant: a second delivery books again.
UnseenAnyway(m) == TRUE

Unseen(m) == m \notin entry

\* Variant: an event that was booked before is taken for done.
LeftToDoUnlessBooked(m) == IF m \in entry THEN Idle.at ELSE "link"

\* The entry found is returned as the new one would be.
LeftToDo(m) == "link"

\* BookPostedEntry.
BookAPInvoice(w) ==
  LET m == worker[w].event
      b == message[m]
      reverse == Cents(Net(b) * worker[w].rate, Whole) IN
  /\ worker[w].at = "book"
  /\ IF Unseen(m)
     THEN /\ entry' = entry \cup {m}
          /\ account' = [a \in Account |-> account[a] + Line(b, reverse, a)]
     ELSE UNCHANGED << entry, account >>
  /\ IF LeftToDo(m) = "link"
     THEN /\ worker' = [worker EXCEPT ![w].at = "link"]
          /\ UNCHANGED answer
     ELSE /\ worker' = [worker EXCEPT ![w] = Idle]
          /\ answer' = [answer EXCEPT ![m] = "done"]
  /\ UNCHANGED << item, message, rate, assessed, deleted >>

\* linkOpenItem with LinkAPOpenItemByDocumentRef, an UPDATE that may find no
\* row; then the offset.
Link(w) ==
  LET m == worker[w].event
      d == DocOf(m) IN
  /\ worker[w].at = "link"
  /\ item' = IF item[d] # NoItem /\ item[d].entry = NoEvent
             THEN [item EXCEPT ![d].entry = m] ELSE item
  /\ answer' = [answer EXCEPT ![m] = "done"]
  /\ worker' = [worker EXCEPT ![w] = Idle]
  /\ UNCHANGED << message, entry, account, rate, assessed, deleted >>

\* What one handler did stays done.
Answered(m, a) ==
  IF answer[m] = "done" THEN answer ELSE [answer EXCEPT ![m] = a]

\* It failed, which is logged.
LinkFails(w) ==
  /\ worker[w].at = "link"
  /\ answer' = Answered(worker[w].event, "unlinked")
  /\ worker' = [worker EXCEPT ![w] = Idle]
  /\ UNCHANGED << item, message, entry, account, rate, assessed, deleted >>

\* The handler dies; the event is delivered again.
Crash(w) ==
  /\ worker[w] # Idle
  /\ worker' = [worker EXCEPT ![w] = Idle]
  /\ UNCHANGED << item, message, entry, account, rate, assessed,
                  deleted, answer >>

\* Its retries are used up before it booked: the dead-letter queue.
Park(w) ==
  /\ worker[w].at \in {"read", "book"}
  /\ answer' = Answered(worker[w].event, "parked")
  /\ worker' = [worker EXCEPT ![w] = Idle]
  /\ UNCHANGED << item, message, entry, account, rate, assessed, deleted >>

-----------------------------------------------------------------------------
(* The reverse-charge tax code. *)

UpsertTaxCode(r) ==
  /\ rate' = r
  /\ UNCHANGED << item, message, entry, account, assessed, deleted,
                  answer, worker >>

\* Variant: only what is recoverable is booked.
OutputUnbooked(vat) == 0

Output(vat) == vat

\* SelfAssessReverseCharge, once for a reference.
SelfAssess(d, net) ==
  LET vat == Cents(net * rate, Whole) IN
  /\ vat > 0 /\ d \notin assessed
  /\ assessed' = assessed \cup {d}
  /\ account' = [account EXCEPT !["input"] = @ + vat, !["output"] = @ + Output(vat)]
  /\ UNCHANGED << item, message, entry, rate, deleted, answer, worker >>

Next ==
  \/ \E d \in Doc : \/ DeleteBill(d)
                    \/ \E b \in Bill[d] : Raise(d, b)
                    \/ \E b \in Bill[d] : b.reverse /\ SelfAssess(d, Net(b))
  \/ \E m \in Outside : \E b \in Bill[m] : PublishDirectly(m, b)
  \/ \E w \in Worker : \/ \E m \in Event : Fetch(w, m)
                       \/ ReadRate(w) \/ BookAPInvoice(w) \/ Link(w)
                       \/ LinkFails(w) \/ Crash(w) \/ Park(w)
  \/ \E r \in Rate : UpsertTaxCode(r)

Spec == Init /\ [][Next]_vars

-----------------------------------------------------------------------------
(* Properties. *)

Raised == { d \in Doc : item[d] # NoItem }
OfEntries(f) == SumFunction([m \in Event |-> IF m \in entry THEN f[m] ELSE 0])

\* ListOrphanedAPJournals: entries no item is linked to.
Orphans == { m \in entry : \A d \in Doc : item[d].entry # m }

\* A payable a consumer has answered for is booked and linked, also when the
\* consumer died after the booking (linkOpenItem on redelivery); only an entry
\* of another service for the same document can stand in its own entry's place.
AnsweredIsLinked ==
  \A d \in Raised \ deleted : answer[d] = "done" => d \in entry /\ item[d].entry # NoEvent

\* Nothing is booked on the payables account that no payable stands for, except
\* what other services post, a failed link left or a deletion: what ap_orphans.go
\* lists is never a document finance raised and linked by itself.
OrphansAreForeign ==
  \A m \in (Orphans \cap Doc) \ deleted :
    \/ answer[m] \in {"unlinked", "none"}
    \/ answer[m] = "parked" /\ m \in entry
    \/ item[m].entry \in Outside

Distance(x, y) == IF x > y THEN x - y ELSE y - x

\* What the entries are worth, those of finance's own payables as the items have it.
Posted == [m \in Event |-> IF m \in Doc \ deleted THEN item[m].amount
                          ELSE message[m].amount]

\* The tie-out of account 2000 (control_recon.go): the entries finance owes its
\* own payables, those of other services and of deleted bills are all the account
\* holds, and it differs from them by the parts of a cent the items do not keep.
ControlTies ==
  LET own == entry \cap Doc IN
  /\ own \ deleted \subseteq { d \in Raised : Announced(item[d].bill) }
  /\ Distance(account["payable"], OfEntries(Posted)) * 2 <= Unit * Cardinality(own)

\* A self-assessment owes nobody anything: what is recoverable over what is
\* due is the VAT that suppliers billed (BookAPInvoice, VATReturn).
VatIsBilled ==
  account["input"] - account["output"] =
    OfEntries([m \in Event |-> Vat(message[m])])

\* Payables, their entries and the accounts tie.
PayablesTie == AnsweredIsLinked /\ OrphansAreForeign /\ ControlTies /\ VatIsBilled
=============================================================================
