-------------------------- MODULE PaymentsClearing --------------------------
(***************************************************************************)
(* Account 1050, Payments Clearing.  A payments.settled event books the    *)
(* disbursement and its row of the clearing list in one transaction; a     *)
(* clerk matches the row to a document, which posts nothing; tills upload  *)
(* receipts in batches, and card takings debit the same account.  Entries  *)
(* are keyed by event id or receipt number, rows by instruction.           *)
(***************************************************************************)
EXTENDS Integers, FiniteSetsExt

CONSTANTS
  Settled,    \* payments.settled events: id, instruction, category, amount
  Receipt,    \* till receipts: till, id (its number), type, tender, gross, vat
  Document,
  Unbooked    \* not an event, a receipt or a row

VARIABLES
  entry,        \* by source event id: the event or receipt it was booked from
  debited,      \* the account an event's entry debits
  row,          \* payments_clearing_items by instruction: amount, against
  matched,      \* documents a clerk was told the row is cleared against
  told,         \* what a till was told of each receipt last
  viaClearing   \* coffeePayoutViaClearing

vars == << entry, debited, row, matched, told, viaClearing >>

Id == { e.id : e \in Settled } \cup { r.id : r \in Receipt }
Instruction == { e.instruction : e \in Settled }
Nothing == "open"  \* cleared_against of an open row

Init ==
  /\ entry = [i \in Id |-> Unbooked]
  /\ debited = [e \in Settled |-> Unbooked]
  /\ row = [i \in Instruction |-> Unbooked]
  /\ matched = [i \in Instruction |-> {}]
  /\ told = [r \in Receipt |-> "nothing"]
  /\ viaClearing \in BOOLEAN

\* disbursementDebit
DisbursementDebit(e) ==
  IF e.category = "coffee_payout" /\ ~viaClearing THEN "1400" ELSE "1050"

\* Variant: a settlement delivered again opens its row again.
AddRowAgain(e) == [amount |-> e.amount, against |-> Nothing]

\* AddPaymentsClearingItemTx: a row that is there keeps amount and match.
AddRow(e) ==
  IF row[e.instruction] = Unbooked
  THEN [amount |-> e.amount, against |-> Nothing] ELSE row[e.instruction]

\* BookPaymentSettlement: entry and row commit together; an event that is
\* booked already books nothing.
Settle(e) ==
  LET account == DisbursementDebit(e) IN
  /\ entry[e.id] = Unbooked
  /\ entry' = [entry EXCEPT ![e.id] = e]
  /\ debited' = [debited EXCEPT ![e] = account]
  /\ row' = IF account = "1050"
            THEN [row EXCEPT ![e.instruction] = AddRow(e)] ELSE row
  /\ UNCHANGED << matched, told, viaClearing >>

\* Variant: a row that is cleared takes the second document.
ClearAnyRow(i, d) ==
  /\ row[i] # Unbooked
  /\ row' = [row EXCEPT ![i].against = d]
  /\ matched' = [matched EXCEPT ![i] = @ \cup {d}]
  /\ UNCHANGED << entry, debited, told, viaClearing >>

\* ClearPaymentsClearingItem: an open row, once.
Clear(i, d) ==
  /\ row[i] # Unbooked /\ row[i].against = Nothing
  /\ row' = [row EXCEPT ![i].against = d]
  /\ matched' = [matched EXCEPT ![i] = @ \cup {d}]
  /\ UNCHANGED << entry, debited, told, viaClearing >>

\* ingestOnePOSReceipt: the number alone is the key.  A number that is booked
\* answers "posted" with the entry that is there, whichever till's it is.
Ingest(r) ==
  /\ entry' = [entry EXCEPT ![r.id] = IF @ = Unbooked THEN r ELSE @]
  /\ told' = [told EXCEPT ![r] = "posted"]
  /\ UNCHANGED << debited, row, matched, viaClearing >>

\* The entry is booked and the answer lost: the till sends the batch again.
IngestUnanswered(r) ==
  /\ entry' = [entry EXCEPT ![r.id] = IF @ = Unbooked THEN r ELSE @]
  /\ UNCHANGED << debited, row, matched, told, viaClearing >>

\* A receipt that does not parse, no open period, or the database.  The others
\* of the batch go on.
Reject(r) ==
  /\ told' = [told EXCEPT ![r] = "rejected"]
  /\ UNCHANGED << entry, debited, row, matched, viaClearing >>

\* The service restarts with the other setting.
Redeploy ==
  /\ viaClearing' = ~viaClearing
  /\ UNCHANGED << entry, debited, row, matched, told >>

Next ==
  \/ \E e \in Settled : Settle(e)
  \/ \E i \in Instruction, d \in Document : Clear(i, d)
  \/ \E r \in Receipt : Ingest(r) \/ IngestUnanswered(r) \/ Reject(r)
  \/ Redeploy

Spec == Init /\ [][Next]_vars

-----------------------------------------------------------------------------
(* The books and the list. *)

Sign(r) == IF r.type = "return" THEN -1 ELSE 1
TenderAccount(r) == IF r.tender \in {"card", "mobile"} THEN "1050" ELSE "1000"

\* posLines, and the two lines of a settlement: what an entry debits an account.
Debit(i, a) ==
  LET x == entry[i] IN
  IF x = Unbooked THEN 0
  ELSE IF x \in Settled
  THEN (IF a = debited[x] THEN x.amount ELSE 0)
         - (IF a = "1000" THEN x.amount ELSE 0)
  ELSE Sign(x) * (CASE a = TenderAccount(x) -> x.gross
                    [] a = "4000" -> x.vat - x.gross
                    [] a = "2100" -> - x.vat
                    [] OTHER -> 0)
Balance(a) == MapThenSumSet(LAMBDA i : Debit(i, a), Id)

OpenTotal ==
  MapThenSumSet(
    LAMBDA i : IF row[i] # Unbooked /\ row[i].against = Nothing
               THEN row[i].amount ELSE 0,
    Instruction)

\* The row of ControlReconciliation for 1050.
Difference == Balance("1050") - OpenTotal

-----------------------------------------------------------------------------
(* Properties. *)

\* ledger/paymentsclearing.go:45: no clearing debit without its row, so that the
\* difference of the reconciliation is drift and never a race.  It is exactly
\* the rows matched and not yet moved by a journal, card takings, which have no
\* row, and what a second event of one instruction paid.
DifferenceIsExplained ==
  LET clearing(i) == { e \in Settled : e.instruction = i /\ debited[e] = "1050" }
      paid(i) == MapThenSumSet(LAMBDA e : e.amount, clearing(i))
  IN
  /\ \A i \in Instruction :
       /\ (row[i] = Unbooked) = (clearing(i) = {})
       /\ row[i] # Unbooked => \E e \in clearing(i) : row[i].amount = e.amount
  /\ Difference =
       MapThenSumSet(
         LAMBDA i : IF row[i] = Unbooked THEN 0
                    ELSE paid(i) - (IF row[i].against = Nothing
                                    THEN row[i].amount ELSE 0),
         Instruction)
       + MapThenSumSet(
           LAMBDA r : IF entry[r.id] = r /\ TenderAccount(r) = "1050"
                      THEN Sign(r) * r.gross ELSE 0,
           Receipt)

\* repository/payments_clearing.go:116: the first match stands.  One clerk is
\* told that a row is cleared, and its document is the row's, whatever is
\* delivered again afterwards.
FirstMatchStands ==
  \A i \in Instruction :
    row[i] # Unbooked =>
      matched[i] = (IF row[i].against = Nothing THEN {} ELSE {row[i].against})

\* A receipt answered as posted is in the takings, once, however often its batch
\* was sent, if no other till uses its number; of two that share one, the
\* first alone.
TakingsAreBooked ==
  /\ \A r \in Receipt :
       told[r] = "posted" =>
         \/ entry[r.id] = r
         \/ \E q \in Receipt \ {r} : q.id = r.id /\ entry[r.id] = q
  /\ - Balance("4000") - Balance("2100") =
       MapThenSumSet(LAMBDA r : IF entry[r.id] = r THEN Sign(r) * r.gross ELSE 0,
                     Receipt)

\* Account, list and tills agree (BookPaymentSettlement, IngestPOSReceipts).
ClearingTies == DifferenceIsExplained /\ FirstMatchStands /\ TakingsAreBooked
=============================================================================
