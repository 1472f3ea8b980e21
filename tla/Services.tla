------------------------------ MODULE Services ------------------------------
(***************************************************************************)
(* The services that keep their own tables and that ServiceProofs and      *)
(* SubledgerProofs have theorems about, composed.  They share no table, so *)
(* an interleaving of two of them shows nothing that each does not show    *)
(* alone: a behaviour picks one service and moves its variables only.      *)
(* Services whose modules use the same name share the variable here, which *)
(* says nothing, as no behaviour has two of them.                          *)
(***************************************************************************)
EXTENDS Integers, FiniteSets

CONSTANTS
  Service, \* the services a behaviour may pick
  Caller,  \* requests in flight, replicas, references: all interchangeable
  Nobody,
  MaxFaults, \* bound on crashes and failed calls
  MaxEvents, \* bound on the events of fixed assets and of stock
  \* Open items, a customer's payments and notes; filing an invoice.
  Doc, NoteRef, Amount, MaxAmount, MaxInFlight, MaxReversed, MaxFilings,
  \* Bank statements; payment intents and links.
  StatementLine, BankDoc, Worth, NamedDoc, BankOwed, MaxRequests,
  Intent, IntentAmount, IntentOwed, MaxToken,
  \* Approvals.
  Actor, Journal, Payment, Tier, MinAmount, AmountOf, MayApprove,
  RequireApproval,
  \* Fixed assets; payroll runs and leave; the revaluation.
  Asset, Date, Period, InService, Cost, Salvage, Life, DecliningRate, AssetAmount,
  RunRef, NoRef, LastDay, MaxLiability, NoPeriod, MaxNet,
  \* The year end; income tax; the numbered registers; stock.
  LastMonth, YearAmount, MaxPosted, MaxLanding,
  TaxPeriod, Reference, Basis, Rate, Whole, RegisterAmount, Typed, MaxNumber,
  Value,
  \* The audit chain and its pages; migrations; the digest.
  MaxId, TailRow, NoTailRow, Socket, Image, MaxDeaths, OverdueItem, DayLength, LastHour,
  \* Recurring billing; provisions; the loss allowance; goods received.
  Clerk, Billed, LastPeriod,
  ProvisionRef, Estimate, Use, DiscountRate, DiscountBase, Years,
  LossDoc, LossOwed, LossPercent, LossPeriod, RecoveryRef, Recovered,
  GoodsIn, GoodsInvoice, GoodsValue, Quantity, Tolerance, WriteOffDay,
  \* Payables.
  BillDoc, BillEvent, BillNames, BillOf, CentParts, ChargeRate, ChargeWhole,
  MaxDeleted

VARIABLES
  service,
  entry, recorded, call, shut, faults, liability, valuation, orderly, net,
  forward, reverse, disturbed, events, pending, lock, nextId, tx, register,
  charges, surplus, ledger, run, result, retained, booked, closed, drafts,
  entries, landing, status, doc, settled, byHand, bank, requests, item,
  announced, recreated, control, payment, notes, reversed, writtenOff,
  approval, signed, executing, done, deleted, unread, row, filed, request,
  unguarded, paid, unmarked, account, told, unchecked, ran, replica, deaths,
  now, worker, delivered, slipped, stock, work, bought, processed, time,
  clock, committed, socket, untold, overtaken, token, made, answered, beaten,
  rows, balance, taken, today, nextRun, invoice, items, deferred,
  provision, movements, stale, allowance, runs, writeoffs, accrual, exceptions,
  review, message, rate, assessed, answer

Payroll == INSTANCE PayrollRuns WITH Ref <- RunRef
Leave == INSTANCE LeaveValuation
FX == INSTANCE Revaluation
Audit == INSTANCE AuditChain WITH Writer <- Caller
Assets == INSTANCE FixedAssets WITH Run <- Caller, Amount <- AssetAmount
Year == INSTANCE YearEnd WITH Amount <- YearAmount
Bank == INSTANCE BankReconciliation WITH
  Line <- StatementLine, Doc <- BankDoc, NoDoc <- Nobody, Named <- NamedDoc,
  Owed <- BankOwed
Items == INSTANCE OpenItems WITH PayRef <- Caller
Sign == INSTANCE Approvals WITH Approval <- Caller
Efris == INSTANCE EfrisSubmission WITH Request <- Caller
Intents == INSTANCE PaymentIntents WITH
  Request <- Caller, Amount <- IntentAmount, Owed <- IntentOwed
Tax == INSTANCE IncomeTax WITH Period <- TaxPeriod
Schema == INSTANCE SchemaMigrations WITH Replica <- Caller
Digest == INSTANCE OverdueDigest WITH Replica <- Caller, Item <- OverdueItem
Stock == INSTANCE StockMovements
Pages == INSTANCE AuditTail WITH Row <- TailRow, Nothing <- NoTailRow
Links == INSTANCE PaymentLinks WITH Request <- Caller
Registers == INSTANCE NumberedRegisters WITH Amount <- RegisterAmount
Billing == INSTANCE RecurringBilling WITH
  Worker <- Caller, Caller <- Clerk, Invoice <- Billed
Liab == INSTANCE Provisions WITH
  Request <- Caller, Reference <- ProvisionRef, Rate <- DiscountRate,
  Base <- DiscountBase
Credit == INSTANCE Allowance WITH
  Doc <- LossDoc, Owed <- LossOwed, Percent <- LossPercent,
  Period <- LossPeriod, Request <- Caller, Reference <- RecoveryRef,
  Sum <- Recovered
Goods == INSTANCE GoodsReceipt WITH
  Receipt <- GoodsIn, Invoice <- GoodsInvoice, Value <- GoodsValue,
  WriteOff <- Caller, Day <- WriteOffDay
Payables == INSTANCE PayableSources WITH
  Doc <- BillDoc, Outside <- BillEvent, Names <- BillNames, Bill <- BillOf,
  Unit <- CentParts, Rate <- ChargeRate, Whole <- ChargeWhole, NoEvent <- Nobody,
  Worker <- Caller

\* What the code makes of its values, by service.
ASSUME ServicesAssumption ==
  /\ Items!AmountsAssumption /\ Audit!WriterAssumption
  /\ Schema!ImageAssumption /\ Bank!StatementAssumption
  /\ Intents!IntentAssumption /\ Year!YearAssumption
  /\ Pages!RowAssumption /\ Digest!DayAssumption
  /\ Stock!ValueAssumption /\ Tax!TaxAssumption
  /\ FX!PeriodAssumption /\ Leave!DayAssumption
  /\ Registers!AmountAssumption /\ Assets!RateAssumption
  /\ Sign!TierAssumption /\ Sign!ActorAssumption /\ Sign!TargetAssumption
  /\ Liab!ProvisionAssumption /\ Credit!AllowanceAssumption
  /\ Goods!ValueAssumption /\ Payables!BillsAssumption

vars == <<
  service,
  entry, recorded, call, shut, faults, liability, valuation, orderly, net,
  forward, reverse, disturbed, events, pending, lock, nextId, tx, register,
  charges, surplus, ledger, run, result, retained, booked, closed, drafts,
  entries, landing, status, doc, settled, byHand, bank, requests, item,
  announced, recreated, control, payment, notes, reversed, writtenOff,
  approval, signed, executing, done, deleted, unread, row, filed, request,
  unguarded, paid, unmarked, account, told, unchecked, ran, replica, deaths,
  now, worker, delivered, slipped, stock, work, bought, processed, time,
  clock, committed, socket, untold, overtaken, token, made, answered, beaten,
  rows, balance, taken, today, nextRun, invoice, items, deferred,
  provision, movements, stale, allowance, runs, writeoffs, accrual, exceptions,
  review, message, rate, assessed, answer >>

Kept == {"payroll", "leave", "fx", "audit", "assets", "year", "statement",
         "openitems", "approvals", "efris", "intents", "tax", "schema",
         "digest", "stock", "tail", "links", "registers", "billing",
         "provisions", "credit", "receipts", "payables"}

-----------------------------------------------------------------------------
(* The variables of the services that were not picked. *)

Blank ==
  /\ IF service \in {"payroll", "leave", "tax", "payables"} THEN TRUE
     ELSE entry = 0
  /\ IF service \in {"payroll", "schema"} THEN TRUE ELSE recorded = 0
  /\ IF service \in {"payroll", "leave", "fx", "year", "tax", "registers"} THEN TRUE
     ELSE call = 0
  /\ IF service \in {"payroll", "openitems"} THEN TRUE ELSE shut = 0
  /\ IF service \in {"payroll", "fx", "approvals"} THEN TRUE ELSE faults = 0
  /\ IF service = "leave" THEN TRUE
     ELSE liability = 0 /\ valuation = 0 /\ orderly = 0
  /\ IF service = "fx" THEN TRUE ELSE net = 0 /\ forward = 0 /\ reverse = 0
  /\ IF service \in {"fx", "year", "intents"} THEN TRUE ELSE disturbed = 0
  /\ IF service \in {"audit", "assets", "provisions", "credit"} THEN TRUE
     ELSE events = 0
  /\ IF service = "audit" THEN TRUE ELSE pending = 0 /\ nextId = 0 /\ tx = 0
  /\ IF service \in {"audit", "digest"} THEN TRUE ELSE lock = 0
  /\ IF service \in {"assets", "registers"} THEN TRUE ELSE register = 0
  /\ IF service = "assets" THEN TRUE
     ELSE charges = 0 /\ surplus = 0 /\ ledger = 0 /\ run = 0
  /\ IF service = "year" THEN TRUE
     ELSE result = 0 /\ retained = 0 /\ drafts = 0 /\ landing = 0
  /\ IF service \in {"year", "billing"} THEN TRUE ELSE entries = 0
  /\ IF service \in {"year", "openitems"} THEN TRUE ELSE booked = 0
  /\ IF service \in {"year", "tax", "registers"} THEN TRUE ELSE closed = 0
  /\ IF service \in {"statement", "intents"} THEN TRUE ELSE status = 0
  /\ IF service = "statement" THEN TRUE
     ELSE doc = 0 /\ settled = 0 /\ byHand = 0 /\ bank = 0
  /\ IF service \in {"statement", "openitems"} THEN TRUE ELSE requests = 0
  /\ IF service \in {"openitems", "digest", "credit", "payables"} THEN TRUE
     ELSE item = 0
  /\ IF service \in {"openitems", "efris"} THEN TRUE ELSE announced = 0
  /\ IF service = "openitems" THEN TRUE
     ELSE /\ recreated = 0 /\ control = 0 /\ payment = 0 /\ notes = 0
          /\ reversed = 0 /\ writtenOff = 0
  /\ IF service = "approvals" THEN TRUE
     ELSE /\ approval = 0 /\ signed = 0 /\ executing = 0 /\ done = 0
          /\ unread = 0
  /\ IF service \in {"approvals", "payables"} THEN TRUE ELSE deleted = 0
  /\ IF service \in {"efris", "tax"} THEN TRUE ELSE row = 0
  /\ IF service = "efris" THEN TRUE ELSE filed = 0 /\ unguarded = 0
  /\ IF service \in {"efris", "intents", "links", "billing", "provisions",
                     "credit", "receipts"} THEN TRUE ELSE request = 0
  /\ IF service = "intents" THEN TRUE ELSE paid = 0 /\ unmarked = 0
  /\ IF service \in {"tax", "stock", "provisions", "receipts", "payables"}
     THEN TRUE ELSE account = 0
  /\ IF service \in {"tax", "stock"} THEN TRUE ELSE told = 0
  /\ IF service \in {"tax", "registers"} THEN TRUE ELSE unchecked = 0
  /\ IF service = "schema" THEN TRUE ELSE ran = 0 /\ replica = 0 /\ deaths = 0
  /\ IF service = "digest" THEN TRUE
     ELSE now = 0 /\ delivered = 0 /\ slipped = 0
  /\ IF service \in {"digest", "payables"} THEN TRUE ELSE worker = 0
  /\ IF service = "stock" THEN TRUE
     ELSE stock = 0 /\ work = 0 /\ bought = 0
  /\ IF service \in {"stock", "receipts"} THEN TRUE ELSE processed = 0
  /\ IF service = "tail" THEN TRUE
     ELSE /\ time = 0 /\ clock = 0 /\ committed = 0 /\ socket = 0
          /\ untold = 0 /\ overtaken = 0
  /\ IF service = "links" THEN TRUE
     ELSE token = 0 /\ made = 0 /\ answered = 0 /\ beaten = 0
  /\ IF service = "registers" THEN TRUE
     ELSE rows = 0 /\ balance = 0 /\ taken = 0
  /\ IF service = "billing" THEN TRUE
     ELSE today = 0 /\ nextRun = 0 /\ invoice = 0 /\ items = 0 /\ deferred = 0
  /\ IF service = "provisions" THEN TRUE ELSE provision = 0 /\ movements = 0
  /\ IF service \in {"provisions", "credit", "receipts"} THEN TRUE ELSE stale = 0
  /\ IF service = "credit" THEN TRUE
     ELSE allowance = 0 /\ runs = 0 /\ writeoffs = 0
  /\ IF service = "receipts" THEN TRUE
     ELSE accrual = 0 /\ exceptions = 0 /\ review = 0
  /\ IF service = "payables" THEN TRUE
     ELSE message = 0 /\ rate = 0 /\ assessed = 0 /\ answer = 0

Idle ==
  /\ IF service \in {"payroll", "leave", "tax", "payables"} THEN TRUE
     ELSE UNCHANGED entry
  /\ IF service \in {"payroll", "schema"} THEN TRUE ELSE UNCHANGED recorded
  /\ IF service \in {"payroll", "leave", "fx", "year", "tax", "registers"} THEN TRUE
     ELSE UNCHANGED call
  /\ IF service \in {"payroll", "openitems"} THEN TRUE ELSE UNCHANGED shut
  /\ IF service \in {"payroll", "fx", "approvals"} THEN TRUE
     ELSE UNCHANGED faults
  /\ IF service = "leave" THEN TRUE
     ELSE UNCHANGED << liability, valuation, orderly >>
  /\ IF service = "fx" THEN TRUE ELSE UNCHANGED << net, forward, reverse >>
  /\ IF service \in {"fx", "year", "intents"} THEN TRUE
     ELSE UNCHANGED disturbed
  /\ IF service \in {"audit", "assets", "provisions", "credit"} THEN TRUE
     ELSE UNCHANGED events
  /\ IF service = "audit" THEN TRUE ELSE UNCHANGED << pending, nextId, tx >>
  /\ IF service \in {"audit", "digest"} THEN TRUE ELSE UNCHANGED lock
  /\ IF service \in {"assets", "registers"} THEN TRUE ELSE UNCHANGED register
  /\ IF service = "assets" THEN TRUE
     ELSE UNCHANGED << charges, surplus, ledger, run >>
  /\ IF service = "year" THEN TRUE
     ELSE UNCHANGED << result, retained, drafts, landing >>
  /\ IF service \in {"year", "billing"} THEN TRUE ELSE UNCHANGED entries
  /\ IF service \in {"year", "openitems"} THEN TRUE ELSE UNCHANGED booked
  /\ IF service \in {"year", "tax", "registers"} THEN TRUE
     ELSE UNCHANGED closed
  /\ IF service \in {"statement", "intents"} THEN TRUE ELSE UNCHANGED status
  /\ IF service = "statement" THEN TRUE
     ELSE UNCHANGED << doc, settled, byHand, bank >>
  /\ IF service \in {"statement", "openitems"} THEN TRUE
     ELSE UNCHANGED requests
  /\ IF service \in {"openitems", "digest", "credit", "payables"} THEN TRUE
     ELSE UNCHANGED item
  /\ IF service \in {"openitems", "efris"} THEN TRUE ELSE UNCHANGED announced
  /\ IF service = "openitems" THEN TRUE
     ELSE UNCHANGED << recreated, control, payment, notes, reversed,
                         writtenOff >>
  /\ IF service = "approvals" THEN TRUE
     ELSE UNCHANGED << approval, signed, executing, done, unread >>
  /\ IF service \in {"approvals", "payables"} THEN TRUE ELSE UNCHANGED deleted
  /\ IF service \in {"efris", "tax"} THEN TRUE ELSE UNCHANGED row
  /\ IF service = "efris" THEN TRUE ELSE UNCHANGED << filed, unguarded >>
  /\ IF service \in {"efris", "intents", "links", "billing", "provisions",
                     "credit", "receipts"} THEN TRUE ELSE UNCHANGED request
  /\ IF service = "intents" THEN TRUE ELSE UNCHANGED << paid, unmarked >>
  /\ IF service \in {"tax", "stock", "provisions", "receipts", "payables"}
     THEN TRUE ELSE UNCHANGED account
  /\ IF service \in {"tax", "stock"} THEN TRUE ELSE UNCHANGED told
  /\ IF service \in {"tax", "registers"} THEN TRUE ELSE UNCHANGED unchecked
  /\ IF service = "schema" THEN TRUE ELSE UNCHANGED << ran, replica, deaths >>
  /\ IF service = "digest" THEN TRUE
     ELSE UNCHANGED << now, delivered, slipped >>
  /\ IF service \in {"digest", "payables"} THEN TRUE ELSE UNCHANGED worker
  /\ IF service = "stock" THEN TRUE
     ELSE UNCHANGED << stock, work, bought >>
  /\ IF service \in {"stock", "receipts"} THEN TRUE ELSE UNCHANGED processed
  /\ IF service = "tail" THEN TRUE
     ELSE UNCHANGED << time, clock, committed, socket, untold, overtaken >>
  /\ IF service = "links" THEN TRUE
     ELSE UNCHANGED << token, made, answered, beaten >>
  /\ IF service = "registers" THEN TRUE
     ELSE UNCHANGED << rows, balance, taken >>
  /\ IF service = "billing" THEN TRUE
     ELSE UNCHANGED << today, nextRun, invoice, items, deferred >>
  /\ IF service = "provisions" THEN TRUE
     ELSE UNCHANGED << provision, movements >>
  /\ IF service \in {"provisions", "credit", "receipts"} THEN TRUE
     ELSE UNCHANGED stale
  /\ IF service = "credit" THEN TRUE
     ELSE UNCHANGED << allowance, runs, writeoffs >>
  /\ IF service = "receipts" THEN TRUE
     ELSE UNCHANGED << accrual, exceptions, review >>
  /\ IF service = "payables" THEN TRUE
     ELSE UNCHANGED << message, rate, assessed, answer >>

-----------------------------------------------------------------------------
(* The specification. *)

Init ==
  /\ service \in Service
  /\ \/ service \notin Kept
     \/ service = "payroll" /\ Payroll!Init
     \/ service = "leave" /\ Leave!Init
     \/ service = "fx" /\ FX!Init
     \/ service = "audit" /\ Audit!Init
     \/ service = "assets" /\ Assets!Init
     \/ service = "year" /\ Year!Init
     \/ service = "statement" /\ Bank!Init
     \/ service = "openitems" /\ Items!Init
     \/ service = "approvals" /\ Sign!Init
     \/ service = "efris" /\ Efris!Init
     \/ service = "intents" /\ Intents!Init
     \/ service = "tax" /\ Tax!Init
     \/ service = "schema" /\ Schema!Init
     \/ service = "digest" /\ Digest!Init
     \/ service = "stock" /\ Stock!Init
     \/ service = "tail" /\ Pages!Init
     \/ service = "links" /\ Links!Init
     \/ service = "registers" /\ Registers!Init
     \/ service = "billing" /\ Billing!Init
     \/ service = "provisions" /\ Liab!Init
     \/ service = "credit" /\ Credit!Init
     \/ service = "receipts" /\ Goods!Init
     \/ service = "payables" /\ Payables!Init
  /\ Blank

Step ==
  /\ UNCHANGED service
  /\ \/ service = "payroll" /\ Payroll!Next
     \/ service = "leave" /\ Leave!Next
     \/ service = "fx" /\ FX!Next
     \/ service = "audit" /\ Audit!Next
     \/ service = "assets" /\ Assets!Next
     \/ service = "year" /\ Year!Next
     \/ service = "statement" /\ Bank!Next
     \/ service = "openitems" /\ Items!Next
     \/ service = "approvals" /\ Sign!Next
     \/ service = "efris" /\ Efris!Next
     \/ service = "intents" /\ Intents!Next
     \/ service = "tax" /\ Tax!Next
     \/ service = "schema" /\ Schema!Next
     \/ service = "digest" /\ Digest!Next
     \/ service = "stock" /\ Stock!Next
     \/ service = "tail" /\ Pages!Next
     \/ service = "links" /\ Links!Next
     \/ service = "registers" /\ Registers!Next
     \/ service = "billing" /\ Billing!Next
     \/ service = "provisions" /\ Liab!Next
     \/ service = "credit" /\ Credit!Next
     \/ service = "receipts" /\ Goods!Next
     \/ service = "payables" /\ Payables!Next
  /\ Idle

\* What may end: the ids are used up, the replicas have stopped as often as the
\* bound allows, no token is left, the provision is closed, every event of the
\* order has arrived.
Ended ==
  /\ \/ service = "audit" /\ nextId > MaxId
     \/ service = "schema" /\ deaths = MaxDeaths
     \/ service = "links" /\ made = MaxToken
     \/ service = "provisions" /\ provision.status \in {"settled", "reversed"}
     \/ service = "receipts" /\ GoodsIn \cup GoodsInvoice \subseteq processed
  /\ UNCHANGED vars

Next == Step \/ Ended

Spec == Init /\ [][Next]_vars

-----------------------------------------------------------------------------
(* The properties of each service, by its name there. *)

PayrollTies     == /\ service = "payroll" => Payroll!RunPostedOnce
                   /\ service = "leave" => Leave!LeaveTies
RevaluationTies == service = "fx" => FX!RevaluationReverses
ChainVerifies   == service = "audit" => Audit!ChainVerifies
RegisterSound   == service = "assets" => Assets!RegisterSound
YearCloses      == service = "year" => Year!YearCloses
MatchedIsPaid   == service = "statement" => Bank!MatchedIsPaid
ItemsTie        == service = "openitems" => Items!ItemsTie
ApprovalsSound  == service = "approvals" => Sign!ApprovalsSound
IntentsTie      == /\ service = "intents" => Intents!IntentsTie
                   /\ service = "links" => Links!LinkLeads
RegistersTie    == service = "registers" => Registers!RegistersTie
TaxTies         == service = "tax" => Tax!TaxTies
SchemaInOrder   == service = "schema" => Schema!SchemaInOrder
NoticesSound    == /\ service = "digest" => Digest!ChasedSparingly
                   /\ service = "tail" => Pages!ChangesPushed
StockTies       == /\ service = "stock" => Stock!StockTies
                   /\ service = "receipts" => Goods!OrderSettles
PurchasesTie    == service = "payables" => Payables!PayablesTie
InvoicesTie     == service = "billing" => Billing!InvoicesTie
ProvisionTies   == service = "provisions" => Liab!ProvisionTies
AllowanceTies   == service = "credit" => Credit!AllowanceTies

ChargeKeepsSalvage == [][service = "assets" => Assets!KeepsSalvage]_vars

\* What was decided elsewhere stays decided: the match of a statement line, a
\* rejection or an approval, the acknowledgement of the tax authority, the lock
\* of a year.
DecidedStays ==
  [][ /\ service = "statement" => Bank!KeepsMatch
      /\ service = "approvals" => Sign!KeepsDecision
      /\ service = "efris" => Efris!KeepsAcknowledged
      /\ service = "year" => Year!KeepsLocked ]_vars
=============================================================================
