------------------------------ MODULE Reports ------------------------------
(***************************************************************************)
(* The financial statements over the posted entries: trial balance, profit *)
(* and loss, balance sheet, changes in equity, both cash flow statements   *)
(* and the consolidation of a group.  Each is a query of its own with its  *)
(* own filters; between two of them entries are posted and reversed, and   *)
(* accounts are deactivated, reactivated or given another type.  Amounts   *)
(* are base-currency cents; every entry has one debit and one credit line. *)
(***************************************************************************)
EXTENDS Integers, FiniteSetsExt

CONSTANTS
  Entity, Parent,     \* the entities, and the parent of each, or NoEntity
  NoEntity,
  Entry,              \* entries that may be posted: entity, counterparty,
                      \* date, debit and credit account, amount
  Chart,              \* the accounts and their types at first
  Cash,               \* is_cash_equivalent
  Date,
  Percent,            \* ownership fractions, in percent
  MaxPosted, MaxEdits \* bounds: entries posted at once, edits of the chart

VARIABLES
  posted,      \* entries with status posted
  active,      \* accounts with active = TRUE
  accountType,
  owned,       \* ownership_pct of each entity
  edits

vars == << posted, active, accountType, owned, edits >>

Account == DOMAIN Chart
Type == {"asset", "liability", "equity", "revenue", "expense"}
Unbounded == 0  \* a date parameter that is left out

OfType(types) == { a \in Account : accountType[a] \in types }

\* SUM(debit_base) - SUM(credit_base) of the accounts over the entries.
Net(accounts, entries) ==
  MapThenSumSet(
    LAMBDA e : e.amount * (  (IF e.debit \in accounts THEN 1 ELSE 0)
                           - (IF e.credit \in accounts THEN 1 ELSE 0)),
    entries)

Init ==
  /\ posted = {} /\ active = Account /\ accountType = Chart
  /\ owned = [e \in Entity |-> 100] /\ edits = 0

\* Its accounts were active when it was drafted; nobody looks again.
PostEntry(e) ==
  /\ e \notin posted /\ Cardinality(posted) < MaxPosted
  /\ posted' = posted \cup {e}
  /\ UNCHANGED << active, accountType, owned, edits >>

\* The entry is posted no more, and its mirror carries no base amounts.
ReverseEntry(e) ==
  /\ e \in posted
  /\ posted' = posted \ {e}
  /\ UNCHANGED << active, accountType, owned, edits >>

Edit == edits < MaxEdits /\ edits' = edits + 1 /\ UNCHANGED posted

\* DeactivateChartAccount: whatever its balance.
Deactivate(a) ==
  /\ a \in active
  /\ Edit
  /\ active' = active \ {a}
  /\ UNCHANGED << accountType, owned >>

\* UpdateChartAccount: the type may change under posted lines.
UpdateAccount(a, type, activeNow) ==
  /\ Edit
  /\ accountType' = [accountType EXCEPT ![a] = type]
  /\ active' = IF activeNow THEN active \cup {a} ELSE active \ {a}
  /\ UNCHANGED owned

SetEntityOwnership(e, percent) ==
  /\ Edit
  /\ owned' = [owned EXCEPT ![e] = percent]
  /\ UNCHANGED << active, accountType >>

Next ==
  \/ \E e \in Entry : PostEntry(e) \/ ReverseEntry(e)
  \/ \E a \in Account : Deactivate(a)
  \/ \E a \in Account, type \in Type, on \in BOOLEAN : UpdateAccount(a, type, on)
  \/ \E e \in Entity, percent \in Percent : SetEntityOwnership(e, percent)

Spec == Init /\ [][Next]_vars

-----------------------------------------------------------------------------
(* The statements. *)

\* EntityScope: an entity, or it and all below it.
Scope(root, consolidated) ==
  LET below[n \in 0 .. Cardinality(Entity)] ==
        IF n = 0 THEN {root}
        ELSE below[n - 1] \cup { e \in Entity : Parent[e] \in below[n - 1] }
  IN  IF consolidated THEN below[Cardinality(Entity)] ELSE {root}

Window(from, to, scope) ==
  { e \in posted : /\ e.entity \in scope
                   /\ from = Unbounded \/ e.date >= from
                   /\ to = Unbounded \/ e.date <= to }

\* The two totals of TrialBalance.
TrialDebit(from, to, scope) ==
  MapThenSumSet(LAMBDA e : e.amount,
                { e \in Window(from, to, scope) : e.debit \in active })
TrialCredit(from, to, scope) ==
  MapThenSumSet(LAMBDA e : e.amount,
                { e \in Window(from, to, scope) : e.credit \in active })

\* Variant: accounts that are not active are counted.
NetIncomeOfAll(from, to, scope) ==
  - Net(OfType({"revenue", "expense"}), Window(from, to, scope))

NetIncome(from, to, scope) ==
  - Net(active \cap OfType({"revenue", "expense"}), Window(from, to, scope))

\* The assets of BalanceSheet, and its liabilities and equity with the line
\* for the earnings that no closing entry has moved yet.
Assets(asOf, scope) ==
  Net(active \cap OfType({"asset"}), Window(Unbounded, asOf, scope))
Claims(asOf, scope) ==
  NetIncome(Unbounded, asOf, scope)
    - Net(active \cap OfType({"liability", "equity"}),
          Window(Unbounded, asOf, scope))

\* Variant: the opening takes in the first day of the window.
OpeningEquityThrough(from, scope) ==
  - Net(active \cap OfType({"equity"}), Window(Unbounded, from, scope))

\* StatementOfChangesInEquity: before the window, and through its end.
OpeningEquity(from, scope) ==
  - Net(active \cap OfType({"equity"}),
        { e \in Window(Unbounded, Unbounded, scope) :
            from = Unbounded \/ e.date < from })
ClosingEquity(to, scope) ==
  - Net(active \cap OfType({"equity"}), Window(Unbounded, to, scope))

\* CashFlow: the other side of every entry that touches cash, by activity.
CashEntries(from, to, scope) ==
  { e \in Window(from, to, scope) : e.debit \in Cash \/ e.credit \in Cash }
Category(a) ==
  CASE a \in {"1500", "1510"} -> "investing"
    [] a \notin {"1500", "1510"} /\ accountType[a] = "equity" -> "financing"
    [] OTHER -> "operating"

\* Variant: the cash legs are counted with the others.
ActivityWithCash(category, from, to, scope) ==
  - Net({ a \in Account : Category(a) = category },
        CashEntries(from, to, scope))

Activity(category, from, to, scope) ==
  - Net({ a \in Account \ Cash : Category(a) = category },
        CashEntries(from, to, scope))

\* IndirectCashFlow: from net income to the change in cash.
IndirectChange(from, to, scope) ==
  LET w == Window(from, to, scope) IN
    - Net(OfType({"revenue", "expense"}), w)
    + Net({"5300", "5310", "5500"}, w) - Net({"1100"}, w) - Net({"2000"}, w)
    + Activity("investing", from, to, scope)
    + Activity("financing", from, to, scope)

\* TransactionalEliminations: entries between two entities of the scope that
\* touch no consolidation account.
Control == {"1800", "1900", "3200"}
Eliminated(from, to, scope) ==
  { e \in Window(from, to, scope) :
      e.counterparty \in scope /\ {e.debit, e.credit} \cap Control = {} }

\* StructuralEliminations: what each subsidiary of the scope adds to the assets
\* (investment out, goodwill in) and to the equity (its own out, the share of
\* others in).
Rounded(n) == IF n < 0 THEN - ((50 - n) \div 100) ELSE (n + 50) \div 100
Subsidiaries(scope) == { s \in scope : Parent[s] \in scope }
SubEquity(s, asOf) == - Net(OfType({"equity"}), Window(Unbounded, asOf, {s}))
OwnedEquity(s, asOf) == Rounded(SubEquity(s, asOf) * owned[s])
Investment(s, asOf) ==
  Net({"1800"}, { e \in Window(Unbounded, asOf, {Parent[s]}) :
                    e.counterparty = s })
Goodwill(s, asOf) == Investment(s, asOf) - OwnedEquity(s, asOf)

\* Variant: the others' share is not shown.
NCINever(s, asOf) == 0

NCI(s, asOf) == SubEquity(s, asOf) - OwnedEquity(s, asOf)

\* The balance sheet of a group: the sum of its members', less what the
\* eliminations take from each section.
GroupAssets(asOf, scope) ==
  Assets(asOf, scope)
    - Net(OfType({"asset"}), Eliminated(Unbounded, asOf, scope))
    + MapThenSumSet(LAMBDA s : Goodwill(s, asOf) - Investment(s, asOf),
                    Subsidiaries(scope))
GroupClaims(asOf, scope) ==
  Claims(asOf, scope)
    + Net(OfType({"liability", "equity"}), Eliminated(Unbounded, asOf, scope))
    + MapThenSumSet(LAMBDA s : NCI(s, asOf) - SubEquity(s, asOf),
                    Subsidiaries(scope))

-----------------------------------------------------------------------------
(* Properties.  Each speaks of one scope and of all its windows. *)

Bound == {Unbounded} \cup Date
Hidden(entries) == Net(Account \ active, entries)

\* A trial balance exists to surface imbalance (handlers/ledger_api.go:761): its
\* totals differ by what lies on deactivated accounts, and by nothing else.
TrialBalanceFoots(scope) ==
  \A from, to \in Bound :
    TrialDebit(from, to, scope) - TrialCredit(from, to, scope) =
      - Hidden(Window(from, to, scope))

\* repository/reports.go:109, "Assets = Liabilities + Equity holds exactly": on
\* any day, before and after closing entries, whatever types accounts were
\* given, but for the balances of deactivated accounts.
BalanceSheetBalances(scope) ==
  \A asOf \in Bound :
    Assets(asOf, scope) - Claims(asOf, scope) =
      - Hidden(Window(Unbounded, asOf, scope))

\* The statement of changes in equity ends at the equity of the balance sheet,
\* less the earnings from before its window that were not closed yet.
EquityTies(scope) ==
  \A from \in Date, to \in Bound :
    to = Unbounded \/ from <= to =>
      /\ ClosingEquity(to, scope) + NetIncome(Unbounded, to, scope) =
           Claims(to, scope)
             + Net(active \cap OfType({"liability"}),
                   Window(Unbounded, to, scope))
      /\ ClosingEquity(to, scope) - OpeningEquity(from, scope) =
           - Net(active \cap OfType({"equity"}), Window(from, to, scope))

\* What the indirect statement names: results but the add-backs, receivables and
\* payables.  It covers an entry between two of them, one of them against cash,
\* cash against an investing or financing account, an add-back against any
\* other balance.
AddBack == {"5300", "5310", "5500"}
Named == (OfType({"revenue", "expense"}) \ AddBack) \cup {"1100", "2000"}
Covered(e) ==
  LET legs == {e.debit, e.credit} IN
  \/ legs \subseteq Named
  \/ \E a \in legs \cap Cash :
       \A b \in legs \ {a} : b \in Named \/ Category(b) # "operating"
  \/ \E a \in legs \cap AddBack :
       \A b \in legs \ {a} : b \notin Named \cup AddBack \cup Cash

\* repository/cashflow.go:25: the categories sum to the change in cash, transfers
\* between two cash accounts left out.  The indirect statement gets there too
\* (cashflow.go:86) where it covers every entry and no account changed type.
CashFlowTies(scope) ==
  \A from, to \in Bound :
    LET change == Net(Cash, Window(from, to, scope)) IN
    /\ Activity("operating", from, to, scope)
         + Activity("investing", from, to, scope)
         + Activity("financing", from, to, scope) = change
    /\ accountType = Chart /\ (\A e \in Window(from, to, scope) : Covered(e)) =>
         IndirectChange(from, to, scope) = change

\* repository/consolidation.go:174, handlers/reports.go:134: the group's sheet
\* balances for any ownership, rounded as it is, once matched trades cancel: it
\* is off by the intra-group result that is left, and by deactivated accounts.
GroupBalances(scope) ==
  \A asOf \in Bound :
    GroupAssets(asOf, scope) - GroupClaims(asOf, scope) =
      Net(OfType({"revenue", "expense"}), Eliminated(Unbounded, asOf, scope))
        - Hidden(Window(Unbounded, asOf, scope))

\* The statements agree with one another, for every entity alone and with all
\* below it (repository/reports.go).
StatementsTie ==
  \A root \in Entity, consolidated \in BOOLEAN :
    LET scope == Scope(root, consolidated) IN
    /\ TrialBalanceFoots(scope) /\ BalanceSheetBalances(scope)
    /\ EquityTies(scope) /\ CashFlowTies(scope) /\ GroupBalances(scope)
=============================================================================
