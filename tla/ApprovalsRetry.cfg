SPECIFICATION ApprovalsFair
CONSTANTS
  Service = {"approvals"}
  Caller = {c1}
  Nobody = Nobody
  MaxFaults = 1
  MaxEvents = 3
  Doc = {"inv"}
  NoteRef = {"note"}
  Amount = {1, 2}
  MaxAmount = 3
  MaxInFlight = 2
  MaxReversed = 1
  MaxFilings = 3
  StatementLine = {1, 2}
  BankDoc = {"bill", "other"}
  Worth <- MCWorth
  NamedDoc <- MCNamed
  BankOwed <- MCBankOwed
  MaxRequests = 2
  Intent = {1, 2}
  IntentAmount <- MCIntentAmount
  IntentOwed = 3
  MaxToken = 4
  Actor = {"ann", "ben", "cat"}
  Journal = {"j", "q"}
  Payment = {"p", "s"}
  Tier = {1, 2}
  MinAmount <- MCMinAmount
  AmountOf <- MCAmountOf
  MayApprove <- MCMayApprove
  RequireApproval = TRUE
  Asset = {"truck"}
  Date = {1, 2}
  Period = {1, 2}
  InService = 2
  Cost = 4
  Salvage = 1
  Life = 2
  DecliningRate = 6
  AssetAmount = {1, 5}
  RunRef = {1, 2}
  NoRef = 0
  LastDay = 2
  MaxLiability = 2
  NoPeriod = 0
  MaxNet = 1
  LastMonth = 2
  YearAmount = {1}
  MaxPosted = 1
  MaxLanding = 1
  TaxPeriod = {2026}
  Reference = {1}
  Basis <- MCBasis
  Rate = {3}
  Whole = 10
  RegisterAmount = {1}
  Typed <- MCTyped
  MaxNumber = 3
  Value = {2, 3}
  MaxId = 5
  TailRow = {1, 2, 3}
  NoTailRow = 0
  Socket = {"page"}
  Image = {2, 3, 4}
  MaxDeaths = 3
  OverdueItem = {1, 2}
  DayLength = 2
  LastHour = 5
  Clerk = {"clerk"}
  Billed = {1, 2}
  LastPeriod = 2
  ProvisionRef = {"x", "y"}
  Estimate = {0, 6}
  Use = {2, 9}
  DiscountRate = 1
  DiscountBase = 2
  Years = {0, 1}
  LossDoc = {1, 2}
  LossOwed <- MCLossOwed
  LossPercent <- MCLossPercent
  LossPeriod = {1}
  RecoveryRef = {"x"}
  Recovered = {2}
  GoodsIn <- MCGoodsIn
  GoodsInvoice <- MCGoodsInvoice
  GoodsValue <- MCGoodsValue
  Quantity <- MCQuantity
  Tolerance = 5
  WriteOffDay = {1, 2}
  BillDoc = {1}
  BillEvent = {2}
  BillNames <- MCBillNames
  BillOf <- MCBillOf
  CentParts = 4
  ChargeRate = {0, 1}
  ChargeWhole = 2
  MaxDeleted = 1
PROPERTY ApprovedIsExecuted
