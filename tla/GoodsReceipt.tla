---------------------------- MODULE GoodsReceipt ----------------------------
(***************************************************************************)
(* The goods-receipt/invoice-receipt clearing of one purchase order:       *)
(* receipts accrue, invoices clear, in either order, and a review raises   *)
(* what does not match (ledger/grir.go, repository/grni.go,                *)
(* threewaymatch.go).  Each booking changes the order's accrual row in its *)
(* own transaction; the review and the variance write-off read the row     *)
(* before and act on what they read.                                       *)
(***************************************************************************)
EXTENDS Integers, FiniteSets

CONSTANTS
  Receipt, Invoice,  \* source events
  Value,             \* the value of each
  Quantity,          \* the quantity of each, 0 when the event carries none
  Tolerance,         \* difference let through, in percent
  WriteOff,          \* write-off requests in flight
  Day                \* the days they are made on

ValueAssumption ==
  /\ Value \in [Receipt \cup Invoice -> Int]
  /\ Quantity \in [Receipt \cup Invoice -> Nat]

VARIABLES
  accrual,     \* the row in grni_accruals, with its match_status
  account,     \* the order's part of the GR/IR clearing account, credit side
  exceptions,  \* match_exceptions: the state of each type
  processed,   \* source events
  review,      \* DetectMatchExceptions: where it is and the row it read
  request,     \* write-off requests: where they are and the residual they read
  stale        \* a residual was booked that had changed since it was read

vars == << accrual, account, exceptions, processed, review, request, stale >>

Type == {"orphan_invoice", "price_variance", "over_invoice", "qty_variance"}
NoRow == [accrued |-> 0, cleared |-> 0, received |-> 0, invoiced |-> 0,
          status |-> "none"]

Init ==
  /\ accrual = NoRow /\ account = 0
  /\ exceptions = [t \in Type |-> "none"]
  /\ processed = {}
  /\ review = [at |-> "idle", row |-> NoRow]
  /\ request = [w \in WriteOff |-> [at |-> "idle", residual |-> 0]]
  /\ stale = FALSE

Residual == accrual.accrued - accrual.cleared

\* A new row's status is open.
Opened(x) == IF x.status = "none" THEN [x EXCEPT !.status = "open"] ELSE x

-----------------------------------------------------------------------------
(* Receipts and invoices. *)

\* BookGRNAccrual with AddGRNIAccrualTx, once for an event.
BookGRNAccrual(e) ==
  /\ e \in Receipt \ processed
  /\ processed' = processed \cup {e}
  /\ account' = account + Value[e]
  /\ accrual' = Opened([accrual EXCEPT !.accrued = @ + Value[e],
                                       !.received = @ + Quantity[e]])
  /\ UNCHANGED << exceptions, review, request, stale >>

\* BookAPInvoice with ClearGRNIAccrualTx; the row need not be there yet.
BookAPInvoice(e) ==
  /\ e \in Invoice \ processed
  /\ processed' = processed \cup {e}
  /\ account' = account - Value[e]
  /\ accrual' = Opened([accrual EXCEPT !.cleared = @ + Value[e],
                                       !.invoiced = @ + Quantity[e]])
  /\ UNCHANGED << exceptions, review, request, stale >>

-----------------------------------------------------------------------------
(* The review, each statement a transaction of its own. *)

Apart(x, y) == 100 * (IF x > y THEN x - y ELSE y - x) > Tolerance * x

Orphan(x) == x.cleared > 0 /\ x.accrued = 0
BothSides(x) == x.cleared > 0 /\ x.accrued > 0
QuantitiesApart(x) == /\ x.received > 0 /\ x.invoiced > 0
                      /\ Apart(x.received, x.invoiced)

\* What DetectMatchExceptions raises for a row.
Raised(x) ==
  { t \in Type :
      \/ t = "orphan_invoice" /\ Orphan(x)
      \/ /\ BothSides(x)
         /\ \/ /\ Apart(x.accrued, x.cleared)
               /\ t = IF x.cleared > x.accrued THEN "over_invoice"
                                               ELSE "price_variance"
            \/ t = "qty_variance" /\ QuantitiesApart(x) }

Verdict(x) ==
  IF Orphan(x) THEN "pending"
  ELSE IF ~ BothSides(x) THEN "open"
  ELSE IF Raised(x) = {} THEN "matched" ELSE "variance"

ReadAccruals ==
  /\ review.at = "idle" /\ accrual.status # "none"
  /\ review' = [at |-> "raise", row |-> accrual]
  /\ UNCHANGED << accrual, account, exceptions, processed, request, stale >>

\* Variant: a match resolves only the variance types.
ResolvedByMatchVariances == {"price_variance", "over_invoice", "qty_variance"}

ResolvedByMatch == Type

Resolve(types) ==
  [t \in Type |-> IF t \in types /\ exceptions[t] = "open" THEN "resolved"
                                                          ELSE exceptions[t]]

\* upsertMatchException, which leaves a resolved exception as it is, or the
\* automatic resolution.
RaiseExceptions ==
  /\ review.at = "raise"
  /\ exceptions' =
       IF Verdict(review.row) = "matched" THEN Resolve(ResolvedByMatch)
       ELSE [t \in Type |->
               IF t \in Raised(review.row) /\ exceptions[t] = "none"
                 THEN "open" ELSE exceptions[t]]
  /\ review' = [review EXCEPT !.at = "stamp"]
  /\ UNCHANGED << accrual, account, processed, request, stale >>

StampStatus ==
  /\ review.at = "stamp"
  /\ accrual' = [accrual EXCEPT !.status = Verdict(review.row)]
  /\ review' = [at |-> "idle", row |-> NoRow]
  /\ UNCHANGED << account, exceptions, processed, request, stale >>

\* ResolveMatchException, by hand.
ResolveMatchException(t) ==
  /\ exceptions[t] = "open"
  /\ exceptions' = [exceptions EXCEPT ![t] = "resolved"]
  /\ UNCHANGED << accrual, account, processed, review, request, stale >>

-----------------------------------------------------------------------------
(* The variance write-off. *)

ReadResidual(w) ==
  /\ request[w].at = "idle" /\ Residual # 0
  /\ request' = [request EXCEPT ![w] = [at |-> "book", residual |-> Residual]]
  /\ UNCHANGED << accrual, account, exceptions, processed, review, stale >>

\* Variant: the row is made even whether or not the entry is new.
WriteOffVarianceAgain(w, d) ==
  LET e == << "variance", d >>
  IN  /\ request[w].at = "book"
      /\ request' = [request EXCEPT ![w] = [at |-> "idle", residual |-> 0]]
      /\ processed' = processed \cup {e}
      /\ account' = IF e \in processed THEN account
                                       ELSE account - request[w].residual
      /\ accrual' = [accrual EXCEPT !.cleared = accrual.accrued,
                                    !.status = "matched"]
      /\ exceptions' = Resolve(Type)
      /\ stale' = (stale \/ Residual # request[w].residual)
      /\ UNCHANGED review

\* WriteOffGRNIVariance: the residual that was read is booked, once a day, and
\* the row made even as it stands now.
WriteOffVariance(w, d) ==
  LET e == << "variance", d >>
  IN  /\ request[w].at = "book"
      /\ request' = [request EXCEPT ![w] = [at |-> "idle", residual |-> 0]]
      /\ IF e \in processed
           THEN UNCHANGED << account, accrual, exceptions, processed, stale >>
           ELSE /\ processed' = processed \cup {e}
                /\ account' = account - request[w].residual
                /\ accrual' = [accrual EXCEPT !.cleared = accrual.accrued,
                                              !.status = "matched"]
                /\ exceptions' = Resolve(Type)
                /\ stale' = (stale \/ Residual # request[w].residual)
      /\ UNCHANGED review

Next ==
  \/ \E e \in Receipt : BookGRNAccrual(e)
  \/ \E e \in Invoice : BookAPInvoice(e)
  \/ ReadAccruals \/ RaiseExceptions \/ StampStatus
  \/ \E t \in Type : ResolveMatchException(t)
  \/ \E w \in WriteOff :
       ReadResidual(w) \/ \E d \in Day : WriteOffVariance(w, d)

Spec == Init /\ [][Next]_vars

-----------------------------------------------------------------------------
(* Properties. *)

\* The clearing account holds what the order's row says is open, in whatever
\* order receipts, invoices and write-offs of any day arrive, unless a residual
\* was out of date when it was booked.
ClearingTies == ~ stale => account = Residual

\* An order marked matched, by a review that has ended or a write-off, leaves
\* no open exception behind for somebody to look into.
MatchedIsSettled ==
  review.at = "idle" /\ accrual.status = "matched" =>
    \A t \in Type : exceptions[t] # "open"

\* The clearing account ties to the order, and a matched order is settled
\* (AddGRNIAccrualTx, DetectMatchExceptions, WriteOffGRNIVariance).
OrderSettles == ClearingTies /\ MatchedIsSettled
=============================================================================
