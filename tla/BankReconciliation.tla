------------------------- MODULE BankReconciliation -------------------------
(***************************************************************************)
(* The lines of an imported bank statement, matched to open documents.     *)
(* Confirming a draft match or matching by hand pays the document first    *)
(* (a payment under the ref recon:<line>), then flips the line to matched, *)
(* then writes the rows of the bank ledger: three transactions, and a      *)
(* request may fail before any of them.  Payments are keyed by document    *)
(* and ref, and may not exceed what the document is owed (see OpenItems).  *)
(***************************************************************************)
EXTENDS Integers, FiniteSets, Functions

CONSTANTS
  Line, Doc, NoDoc,
  Worth,       \* amount of a line
  Owed,        \* amount of a document
  Named,       \* the document the text of a line names
  MaxRequests  \* bound: requests in flight

VARIABLES
  status,  \* match_status of a line; "absent" before the import
  doc,     \* matched_document_ref
  settled, \* per line: the documents paid under recon:<line>
  byHand,  \* per line: documents paid by hand with the line's own reference
  bank,    \* bank_transactions: matched_ref of the line's row, if it has one
  requests

vars == << status, doc, settled, byHand, bank, requests >>

NoRow == "no row"

StatementAssumption ==
  /\ IsFiniteSet(Line) /\ Worth \in [Line -> Nat] /\ Owed \in [Doc -> Nat]
  /\ NoDoc \notin Doc /\ NoRow \notin Doc
Stage == {"settle", "flip", "record"}
Request == [op: {"confirm", "match"}, line: Line, doc: Doc, stage: Stage]

\* amount_paid of a document.
Paid(d) ==
  SumFunction([l \in Line |->
    (IF d \in settled[l] THEN Worth[l] ELSE 0)
      + (IF d \in byHand[l] THEN Worth[l] ELSE 0)])

Fits(l, d) == Paid(d) + Worth[l] <= Owed[d]

\* MaterializeBankTransactions: every line of the statement that is no draft
\* gets a row, once; done are those it reached.
\* Variant: drafts are not skipped.
MaterializeDrafts(done) ==
  bank' = [l \in Line |-> IF l \in done /\ bank[l] = NoRow /\ status'[l] # "absent"
                          THEN doc'[l] ELSE bank[l]]

Materialize(done) ==
  bank' = [l \in Line |-> IF l \in done /\ bank[l] = NoRow
                               /\ status'[l] \notin {"absent", "proposed"}
                          THEN doc'[l] ELSE bank[l]]

Init ==
  /\ status = [l \in Line |-> "absent"]
  /\ doc = [l \in Line |-> NoDoc]
  /\ settled = [l \in Line |-> {}]
  /\ byHand = [l \in Line |-> {}]
  /\ bank = [l \in Line |-> NoRow]
  /\ requests = {}

\* SyncBankFeed: the lines, then their rows.
Import ==
  /\ \A l \in Line : status[l] = "absent"
  /\ status' = [l \in Line |-> "unmatched"]
  /\ UNCHANGED << doc, settled, byHand, requests >>
  /\ \E done \in SUBSET Line : Materialize(done)

\* A payment entered at the desk under the reference the bank shows.
PayByHand(l, d) ==
  /\ d \notin byHand[l] /\ Fits(l, d)
  /\ byHand' = [byHand EXCEPT ![l] = @ \cup {d}]
  /\ UNCHANGED << status, doc, settled, bank, requests >>

\* AutoMatchStatementLines: the document of a payment with the line's
\* reference, else the document its text names.
Propose(l, d) ==
  /\ status[l] = "unmatched"
  /\ IF byHand[l] # {} THEN d \in byHand[l] ELSE d = Named[l]
  /\ status' = [status EXCEPT ![l] = "proposed"]
  /\ doc' = [doc EXCEPT ![l] = d]
  /\ UNCHANGED << settled, byHand, bank, requests >>

Reject(l) ==
  /\ status[l] = "proposed"
  /\ status' = [status EXCEPT ![l] = "unmatched"]
  /\ doc' = [doc EXCEPT ![l] = NoDoc]
  /\ UNCHANGED << settled, byHand, bank, requests >>

-----------------------------------------------------------------------------
(* ConfirmStatementLine and MatchStatementLine. *)

Begin(op, l, d) ==
  /\ Cardinality(requests) < MaxRequests
  /\ requests' = requests \cup
       {[op |-> op, line |-> l, doc |-> d, stage |-> "settle"]}
  /\ UNCHANGED << status, doc, settled, byHand, bank >>

BeginConfirm(l) == status[l] = "proposed" /\ Begin("confirm", l, doc[l])

\* GetStatementLine: found, whatever its status.
BeginMatch(l, d) == status[l] # "absent" /\ Begin("match", l, d)

Advance(q, stage) == requests' = (requests \ {q}) \cup {[q EXCEPT !.stage = stage]}

\* Variant: the payment path does not look at what is owed.
SettleUnchecked(q) ==
  /\ q.stage = "settle"
  /\ settled' = [settled EXCEPT ![q.line] = @ \cup {q.doc}]
  /\ Advance(q, "flip")
  /\ UNCHANGED << status, doc, byHand, bank >>

\* Variant: a refused payment does not stop the match.
SettleOrNot(q) ==
  /\ q.stage = "settle"
  /\ settled' = IF q.doc \in settled[q.line] \/ Fits(q.line, q.doc)
                THEN [settled EXCEPT ![q.line] = @ \cup {q.doc}] ELSE settled
  /\ Advance(q, "flip")
  /\ UNCHANGED << status, doc, byHand, bank >>

\* settleMatchedLine: idempotent per document and ref.
Settle(q) ==
  /\ q.stage = "settle"
  /\ q.doc \in settled[q.line] \/ Fits(q.line, q.doc)
  /\ settled' = [settled EXCEPT ![q.line] = @ \cup {q.doc}]
  /\ Advance(q, "flip")
  /\ UNCHANGED << status, doc, byHand, bank >>

\* Variant: the UPDATE does not look at the status.
FlipAlways(q) ==
  /\ q.stage = "flip"
  /\ status' = [status EXCEPT ![q.line] = "matched"]
  /\ doc' = IF q.op = "match" THEN [doc EXCEPT ![q.line] = q.doc] ELSE doc
  /\ Advance(q, "record")
  /\ UNCHANGED << settled, byHand, bank >>

\* The conditional UPDATE: a draft keeps the document it has now.
Flip(q) ==
  /\ q.stage = "flip"
  /\ status[q.line] = IF q.op = "match" THEN "unmatched" ELSE "proposed"
  /\ status' = [status EXCEPT ![q.line] = "matched"]
  /\ doc' = IF q.op = "match" THEN [doc EXCEPT ![q.line] = q.doc] ELSE doc
  /\ Advance(q, "record")
  /\ UNCHANGED << settled, byHand, bank >>

Record(q) ==
  /\ q.stage = "record"
  /\ requests' = requests \ {q}
  /\ UNCHANGED << status, doc, settled, byHand >>
  /\ \E done \in SUBSET Line : Materialize(done)

\* Refused or lost before its next transaction.
Fail(q) ==
  /\ requests' = requests \ {q}
  /\ UNCHANGED << status, doc, settled, byHand, bank >>

Next ==
  \/ Import
  \/ \E l \in Line, d \in Doc : PayByHand(l, d) \/ Propose(l, d) \/ BeginMatch(l, d)
  \/ \E l \in Line : Reject(l) \/ BeginConfirm(l)
  \/ \E q \in requests : Settle(q) \/ Flip(q) \/ Record(q) \/ Fail(q)

Spec == Init /\ [][Next]_vars

-----------------------------------------------------------------------------
TypeOK ==
  /\ status \in [Line -> {"absent", "unmatched", "proposed", "matched"}]
  /\ doc \in [Line -> Doc \cup {NoDoc}]
  /\ settled \in [Line -> SUBSET Doc] /\ byHand \in [Line -> SUBSET Doc]
  /\ bank \in [Line -> Doc \cup {NoDoc, NoRow}]
  /\ requests \subseteq Request

\* settleMatchedLine relies on the payment path to bound duplicate matches:
\* whatever is confirmed, matched and paid by hand together, no document
\* receives more than it is owed.
NotOverpaid == \A d \in Doc : Paid(d) <= Owed[d]

\* "Settlement runs first so a failed/invalid match never marks the line
\* matched": a matched line has paid a document.
MatchedMovedMoney == \A l \in Line : status[l] = "matched" => settled[l] # {}

\* A bank-ledger row that names a document belongs to a line that is matched
\* to that document: a draft leaves no such row behind when it is rejected.
RowIsConfirmed ==
  \A l \in Line : bank[l] \in Doc => status[l] = "matched" /\ doc[l] = bank[l]

\* A second reviewer cannot move a matched line to another document.
KeepsMatch ==
  \A l \in Line :
    status[l] = "matched" => status'[l] = "matched" /\ doc'[l] = doc[l]

MatchedStays == [][KeepsMatch]_vars

\* settleMatchedLine: "It is idempotent on the line id (paymentRef
\* recon:<lineID>), so re-confirming or retrying never double-settles": the
\* money of one line pays one document.
LineSettlesOnce == \A l \in Line : Cardinality(settled[l]) <= 1

\* Documents, lines and bank rows agree on what was paid
\* (MatchStatementLine, ConfirmStatementLine, MaterializeBankTransactions).
MatchedIsPaid == NotOverpaid /\ MatchedMovedMoney /\ RowIsConfirmed
=============================================================================
