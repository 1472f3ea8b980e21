---------------------------- MODULE MCServices ----------------------------
(***************************************************************************)
(* Small instances of Services, and beside them the services that no       *)
(* theorem is about yet, all checked in one run: a behaviour picks one     *)
(* service, and for those of this module s1 .. s9 are its variables, in    *)
(* the order its module declares them.                                     *)
(***************************************************************************)
EXTENDS Services, TLC

-----------------------------------------------------------------------------
(* Values for the constants of Services. *)

\* Two lines of one document; two intents of which the item takes one.
MCWorth == << 2, 1 >>
MCNamed == << "bill", "bill" >>
MCBankOwed == ("bill" :> 3) @@ ("other" :> 1)
MCIntentAmount == << 2, 2 >>

\* Two tiers; a journal that needs both, a payment that needs the first, and a
\* journal and a payment below every band.
MCMinAmount == << 1, 2 >>
MCAmountOf == [t \in Journal \cup Payment |->
                 CASE t = "j" -> 3 [] t = "p" -> 2 [] OTHER -> 1]
MCMayApprove == ("ann" :> {1}) @@ ("ben" :> {1, 2}) @@ ("cat" :> {2})

MCBasis == {-7, 1, 6}
MCTyped == {<< "short", 1 >>, << "padded", 2 >>, << "words", 0 >>}

\* An order received twice and invoiced twice, the second invoice without a
\* quantity and worth more than was received.
MCGoodsIn == {<< "grn", 1 >>, << "grn", 2 >>}
MCGoodsInvoice == {<< "invoice", 1 >>, << "invoice", 2 >>}
MCGoodsValue == [e \in MCGoodsIn \cup MCGoodsInvoice |->
                   IF e = << "invoice", 2 >> THEN 20 ELSE 10]
MCQuantity == [e \in MCGoodsIn \cup MCGoodsInvoice |->
                 IF e = << "invoice", 2 >> THEN 0 ELSE 1]

\* Nothing of a receivable is expected to be lost, then half of it.
MCLossOwed == << 2, 2 >>
MCLossPercent == [a \in 0 .. 1 |-> 50 * a]

\* Fuel, for an amount too small to keep as well, a contract's milestone, or an
\* invoice with VAT, of an order and under reverse charge or of goods for stock;
\* another service tells of the same document, with more VAT and stock than it
\* is worth.
Payable(source, amount, vat, stocked, po, charged) ==
  [source |-> source, amount |-> amount, vat |-> vat, stock |-> stocked,
   po |-> po, reverse |-> charged]
MCBillNames == << 1, 1 >>
MCBillOf == << { Payable("fuel", 7, 0, 0, FALSE, FALSE),
                 Payable("fuel", 1, 0, 0, FALSE, FALSE),
                 Payable("contract", 8, 0, 0, FALSE, FALSE),
                 Payable("procurement", 9, 1, 0, TRUE, TRUE),
                 Payable("procurement", 9, 1, 2, FALSE, FALSE) },
               { Payable("other", 3, 4, 4, FALSE, FALSE) } >>

CallerSymmetry == Permutations(Caller)

-----------------------------------------------------------------------------
(* The other services. *)

VARIABLES s1, s2, s3, s4, s5, s6, s7, s8, s9

spare == << s1, s2, s3, s4, s5, s6, s7, s8, s9 >>

\* What a service of so many variables leaves unused.
Rest5 == << s6, s7, s8, s9 >>
Rest6 == << s7, s8, s9 >>
Rest7 == << s8, s9 >>

Blank7 == s8 = 0 /\ s9 = 0
Blank6 == s7 = 0 /\ Blank7
Blank5 == s6 = 0 /\ Blank6
Blank0 == s1 = 0 /\ s2 = 0 /\ s3 = 0 /\ s4 = 0 /\ s5 = 0 /\ Blank5

Sched == INSTANCE Schedules WITH
  Schedule <- {1, 2}, Total <- << 5, 1 >>, Count <- 2, Month <- 1 .. 3,
  Run <- Caller,
  kind <- s1, created <- s2, stamped <- s3, released <- s4, completed <- s5,
  balance <- s6, booked <- s7, run <- s8, overlapped <- s9

Lease == INSTANCE LeaseSchedule WITH
  Payment <- {1, 2, 3, 5, 7, 10, 13, 20}, Rate <- {0, 1, 2}, Base <- 20,
  Term <- 1 .. 5,
  payment <- s1, rate <- s2, term <- s3, month <- s4, opening <- s5,
  depreciated <- s6, last <- s7

\* A group of three, one below the other: shares are issued, the mill is bought,
\* sells to the group, buys a machine and borrows; the year is closed.
NoParent == "none"
Posting(entity, counterparty, date, dr, cr, amount) ==
  [entity |-> entity, counterparty |-> counterparty, date |-> date,
   debit |-> dr, credit |-> cr, amount |-> amount]
Posted == {
  Posting("group", NoParent, 1, "1000", "3000", 3),
  Posting("mill", NoParent, 1, "1000", "3000", 3),
  Posting("shop", NoParent, 1, "1000", "3000", 1),
  Posting("group", "mill", 1, "1800", "1000", 2),
  Posting("group", "mill", 2, "1100", "4000", 2),
  Posting("mill", "group", 2, "5000", "2000", 2),
  Posting("mill", "group", 1, "1500", "2000", 2),
  Posting("group", NoParent, 1, "1000", "4000", 5),
  Posting("group", NoParent, 2, "5300", "1510", 1),
  Posting("group", NoParent, 2, "4000", "3000", 5),
  Posting("mill", NoParent, 2, "1500", "1000", 1),
  Posting("mill", NoParent, 2, "2000", "1000", 2)}
AssetCodes == {"1000", "1100", "1500", "1510", "1800"}
ChartOf == [a \in AssetCodes \cup {"2000", "3000", "4000", "5000", "5300"} |->
              CASE a \in AssetCodes -> "asset" [] a = "2000" -> "liability"
                [] a = "3000" -> "equity" [] a = "4000" -> "revenue"
                [] OTHER -> "expense"]
Statements == INSTANCE Reports WITH
  Entity <- {"group", "mill", "shop"},
  Parent <- [e \in {"group", "mill", "shop"} |->
               CASE e = "mill" -> "group" [] e = "shop" -> "mill"
                 [] OTHER -> NoParent],
  NoEntity <- NoParent, Entry <- Posted, Chart <- ChartOf, Cash <- {"1000"},
  Date <- {1, 2}, Percent <- {33, 50}, MaxPosted <- 2, MaxEdits <- 1,
  posted <- s1, active <- s2, accountType <- s3, owned <- s4, edits <- s5

\* Two events of one instruction and one of another; two tills whose receipts
\* share a number, and a return.
Instructed(id, instruction, category, amount) ==
  [id |-> id, instruction |-> instruction, category |-> category,
   amount |-> amount]
Till(till, id, type, tender, gross, vat) ==
  [till |-> till, id |-> id, type |-> type, tender |-> tender, gross |-> gross,
   vat |-> vat]
Clearing == INSTANCE PaymentsClearing WITH
  Settled <- { Instructed(1, 1, "vendor", 4), Instructed(2, 1, "vendor", 6),
               Instructed(3, 2, "coffee_payout", 5) },
  Receipt <- { Till(1, 7, "sale", "card", 3, 1), Till(2, 7, "sale", "cash", 5, 0),
               Till(2, 8, "return", "card", 2, 1) },
  Document <- {"x", "y"}, Unbooked <- Nobody,
  entry <- s1, debited <- s2, row <- s3, matched <- s4, told <- s5,
  viaClearing <- s6

Foreign == INSTANCE ForeignSettlement WITH
  Day <- {1, 2}, Rate <- {7, 18}, Unit <- 10, Amount <- {1, 2, 5},
  MaxSettled <- 2,
  today <- s1, table <- s2, item <- s3, bookedAt <- s4, control <- s5,
  gain <- s6, settled <- s7

\* An employee who is changed, terminated and changed by an event without a time.
Heard(id, type, at, standing) ==
  [id |-> id, type |-> type, time |-> at, status |-> standing]
Mirror == INSTANCE ErpMirror WITH
  Event <- { Heard(1, "updated", 1, "active"), Heard(2, "terminated", 2, "active"),
             Heard(3, "updated", 0, ""), Heard(4, "balance", 1, ""),
             Heard(5, "balance", 1, ""), Heard(6, "leave", 1, "") },
  Worker <- Caller, MaxLog <- 3, MaxTakes <- 3,
  log <- s1, committed <- s2, owner <- s3, takes <- s4, worker <- s5,
  employee <- s6, balance <- s7, accruals <- s8, late <- s9

Vendors == INSTANCE PartyMaster WITH
  Party <- {1, 2}, Nobody <- 0, Code <- {11, 12}, Purchase <- {1},
  RefOf <- << 11 >>, Worker <- Caller,
  vendor <- s1, claimed <- s2, heard <- s3, payable <- s4, told <- s5,
  request <- s6

Legacy == INSTANCE LegacyStore WITH
  Writer <- Caller, MaxNumber <- 2, MaxAudit <- 1,
  memory <- s1, saved <- s2, request <- s3, given <- s4, reused <- s5,
  behind <- s6, lost <- s7

MCInit ==
  /\ Init
  /\ \/ service \in Kept /\ Blank0
     \/ service = "schedules" /\ Sched!Init
     \/ service = "lease" /\ Lease!Init /\ Blank7
     \/ service = "reports" /\ Statements!Init /\ Blank5
     \/ service = "clearing" /\ Clearing!Init /\ Blank6
     \/ service = "foreign" /\ Foreign!Init /\ Blank7
     \/ service = "mirror" /\ Mirror!Init
     \/ service = "vendors" /\ Vendors!Init /\ Blank6
     \/ service = "legacy" /\ Legacy!Init /\ Blank7

Other ==
  \/ service = "schedules" /\ Sched!Next
  \/ service = "lease" /\ Lease!Next /\ UNCHANGED Rest7
  \/ service = "reports" /\ Statements!Next /\ UNCHANGED Rest5
  \/ service = "clearing" /\ Clearing!Next /\ UNCHANGED Rest6
  \/ service = "foreign" /\ Foreign!Next /\ UNCHANGED Rest7
  \/ service = "mirror" /\ Mirror!Next
  \/ service = "vendors" /\ Vendors!Next /\ UNCHANGED Rest6
  \/ service = "legacy" /\ Legacy!Next /\ UNCHANGED Rest7

\* What may end: everything is released, the last month is laid out, the mirror
\* was changed as often as the bound allows.
OtherEnded ==
  /\ \/ service = "schedules" /\ s6 <= 0 /\ s2 = {1, 2}
     \/ service = "lease" /\ s4 > s3
     \/ service = "mirror" /\ s4 = 3
  /\ UNCHANGED spare

MCNext ==
  \/ Next /\ UNCHANGED spare
  \/ (Other \/ OtherEnded) /\ UNCHANGED vars

MCSpec == MCInit /\ [][MCNext]_<< vars, spare >>

\* A request that runs an approval comes to an end, and approvers who can sign do.
approvalVars == Sign!vars
ApprovalsFair ==
  /\ MCSpec
  /\ \A a \in Caller :
       WF_approvalVars(Sign!Execution(a)) /\ WF_approvalVars(Sign!Decision(a))

-----------------------------------------------------------------------------
(* The properties of each service, by its name there. *)

ScheduleTies   == /\ service = "schedules" => Sched!ReleasedIsBooked
                  /\ service = "lease" => Lease!LeaseCloses
StatementsTie  == service = "reports" => Statements!StatementsTie
ClearingTies   == /\ service = "clearing" => Clearing!ClearingTies
                  /\ service = "foreign" => Foreign!SettlementTies
MastersFollow  == /\ service = "mirror" => Mirror!MirrorFollows
                  /\ service = "vendors" => Vendors!PartiesTie
SnapshotKeeps  == service = "legacy" => Legacy!SnapshotKeeps

ChargedOncePerPeriod == service = "assets" => Assets!ChargedOncePerPeriod
LineSettlesOnce      == service = "statement" => Bank!LineSettlesOnce
ApprovedIsExecuted   == Sign!ApprovedIsExecuted
=============================================================================
