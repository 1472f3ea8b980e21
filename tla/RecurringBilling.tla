-------------------------- MODULE RecurringBilling --------------------------
(***************************************************************************)
(* A recurring schedule turned into invoices by the ticker of every        *)
(* replica, and the issuing of an invoice (worker/recurring.go,            *)
(* repository/recurring.go, ledger/invoicing.go).  The period is claimed   *)
(* before its invoice exists; an invoice is issued in four transactions,   *)
(* by a worker or by whoever asks for it over HTTP.                        *)
(***************************************************************************)
EXTENDS Integers

CONSTANTS
  Worker,      \* the recurring invoicer of each replica
  Caller,      \* HTTP requests
  Invoice,     \* invoice ids
  LastPeriod   \* bound on the periods that fall due

VARIABLES
  today,     \* the latest period that is due
  nextRun,   \* next_run of the schedule, as the number of its period
  invoice,   \* invoices: status and the period billed, 0 for none
  entries,   \* how many entries were booked for each invoice
  items,     \* invoices with an AR open item
  deferred,  \* invoices with a revenue schedule
  request    \* what each worker and caller is doing

vars == << today, nextRun, invoice, entries, items, deferred, request >>

Idle == [at |-> "idle", period |-> 0, id |-> 0]

Init ==
  /\ today = 1 /\ nextRun = 1
  /\ invoice = [i \in Invoice |-> [status |-> "none", period |-> 0]]
  /\ entries = [i \in Invoice |-> 0]
  /\ items = {} /\ deferred = {}
  /\ request = [r \in Worker \cup Caller |-> Idle]

At(r, step) == request[r].at = step
Goto(r, step) == request' = [request EXCEPT ![r].at = step]
Stop(r) == request' = [request EXCEPT ![r] = Idle]

Tick ==
  /\ today < LastPeriod
  /\ today' = today + 1
  /\ UNCHANGED << nextRun, invoice, entries, items, deferred, request >>

-----------------------------------------------------------------------------
(* The worker. *)

\* ListDueRecurring.
ListDue(w) ==
  /\ At(w, "idle") /\ nextRun <= today
  /\ request' = [request EXCEPT ![w] =
                   [at |-> "claim", period |-> nextRun, id |-> 0]]
  /\ UNCHANGED << today, nextRun, invoice, entries, items, deferred >>

\* Variant: the UPDATE does not compare the date.
ClaimedAlways(w) == TRUE

\* ClaimRecurring: the UPDATE finds the date the worker has read.
Claimed(w) == nextRun = request[w].period

Claim(w) ==
  /\ At(w, "claim")
  /\ IF Claimed(w) THEN /\ nextRun' = request[w].period + 1
                        /\ Goto(w, "create")
                   ELSE Stop(w) /\ UNCHANGED nextRun
  /\ UNCHANGED << today, invoice, entries, items, deferred >>

Draft(i, period) ==
  /\ invoice[i].status = "none"
  /\ invoice' = [invoice EXCEPT ![i] = [status |-> "draft", period |-> period]]
  /\ UNCHANGED << today, nextRun, entries, items, deferred >>

\* CreateInvoice by the worker, which goes on to issue it.
CreateClaimed(w, i) ==
  /\ At(w, "create")
  /\ Draft(i, request[w].period)
  /\ request' = [request EXCEPT ![w] =
                   [at |-> "read", period |-> request[w].period, id |-> i]]

\* CreateInvoice over HTTP.
CreateByHand(i) == Draft(i, 0) /\ UNCHANGED request

-----------------------------------------------------------------------------
(* IssueInvoice. *)

\* A caller asks for an invoice to be issued.
AskToIssue(c, i) ==
  /\ At(c, "idle") /\ invoice[i].status # "none"
  /\ request' = [request EXCEPT ![c] = [at |-> "read", period |-> 0, id |-> i]]
  /\ UNCHANGED << today, nextRun, invoice, entries, items, deferred >>

\* Only a draft is issued.
ReadInvoice(r) ==
  /\ At(r, "read")
  /\ IF invoice[request[r].id].status = "draft" THEN Goto(r, "book") ELSE Stop(r)
  /\ UNCHANGED << today, nextRun, invoice, entries, items, deferred >>

\* Variant: the entry carries no source event.
IsBookedNever(i) == FALSE

IsBooked(i) == entries[i] > 0

\* BookPostedEntry under invoice.issued:<id>: a booked one is returned.
Book(r) ==
  /\ At(r, "book")
  /\ entries' = IF IsBooked(request[r].id) THEN entries
                ELSE [entries EXCEPT ![request[r].id] = @ + 1]
  /\ Goto(r, "item")
  /\ UNCHANGED << today, nextRun, invoice, items, deferred >>

\* Variant: the next transaction is entered whether or not this one failed.
OpenItemOrNot(r) ==
  /\ At(r, "item")
  /\ items' \in {items, items \cup {request[r].id}}
  /\ Goto(r, "mark")
  /\ UNCHANGED << today, nextRun, invoice, entries, deferred >>

\* CreateAROpenItem, whose unique violation is not an error here.
OpenItem(r) ==
  /\ At(r, "item")
  /\ items' = items \cup {request[r].id}
  /\ Goto(r, "mark")
  /\ UNCHANGED << today, nextRun, invoice, entries, deferred >>

\* MarkInvoiceIssued; the rows it changes are not counted.
MarkIssued(r) ==
  /\ At(r, "mark")
  /\ invoice' = [invoice EXCEPT ![request[r].id].status = "issued"]
  /\ Goto(r, "defer")
  /\ UNCHANGED << today, nextRun, entries, items, deferred >>

\* CreateSchedule of a ratable invoice, once for its number.
Defer(r) ==
  /\ At(r, "defer")
  /\ deferred' = deferred \cup {request[r].id}
  /\ Stop(r)
  /\ UNCHANGED << today, nextRun, invoice, entries, items >>

\* A transaction fails or the process dies: the request is gone.
Fails(r) ==
  /\ ~ At(r, "idle")
  /\ Stop(r)
  /\ UNCHANGED << today, nextRun, invoice, entries, items, deferred >>

Issue(r) ==
  ReadInvoice(r) \/ Book(r) \/ OpenItem(r) \/ MarkIssued(r) \/ Defer(r)

Next ==
  \/ Tick
  \/ \E i \in Invoice : CreateByHand(i)
  \/ \E w \in Worker :
       ListDue(w) \/ Claim(w) \/ \E i \in Invoice : CreateClaimed(w, i)
  \/ \E c \in Caller, i \in Invoice : AskToIssue(c, i)
  \/ \E r \in Worker \cup Caller : Issue(r) \/ Fails(r)

Spec == Init /\ [][Next]_vars

-----------------------------------------------------------------------------
(* Properties. *)

\* However many replicas see the same due schedule and whatever crashes, a
\* period is billed by one invoice at most (ClaimRecurring).
BilledOncePerPeriod ==
  \A i, k \in Invoice :
    invoice[i].period > 0 /\ invoice[i].period = invoice[k].period => i = k

\* An invoice issued by several requests, or again after a crash, is booked
\* once (IssueInvoice: idempotent).
BookedOnce == \A i \in Invoice : entries[i] <= 1

\* An issued invoice, and one whose revenue is deferred, is in the ledger and
\* in the subledger, whichever request got how far.
IssuedIsOwed ==
  \A i \in Invoice : invoice[i].status = "issued" \/ i \in deferred =>
    entries[i] > 0 /\ i \in items

\* One invoice a period, one entry an invoice (ClaimRecurring, IssueInvoice).
BilledOnce == BilledOncePerPeriod /\ BookedOnce

\* What is billed is billed once and owed.
InvoicesTie == BilledOnce /\ IssuedIsOwed
=============================================================================
