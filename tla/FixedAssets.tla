---------------------------- MODULE FixedAssets ----------------------------
(***************************************************************************)
(* The fixed-asset register beside its accounts: registration, the monthly *)
(* depreciation run, impairment and its reversal, revaluation, disposal    *)
(* (repository/fixed_assets.go, fixed_assets_ias16.go).  Every operation   *)
(* is one transaction under the row lock of its asset.  A depreciation run *)
(* picks its assets from a snapshot and waits for their locks afterwards;  *)
(* having waited, PostgreSQL looks again at the asset's row, and not at    *)
(* the missing depreciation entry it was joined with.                      *)
(***************************************************************************)
EXTENDS Integers, FiniteSets

CONSTANTS
  Asset, Date,
  Period,    \* months, as numbers
  Run,       \* depreciation requests in flight
  InService, \* the month every asset is in service from
  Cost, Salvage, Life,
  DecliningRate, \* yearly, for assets depreciated on their book value
  Amount,    \* amounts the callers ask for, as carrying amounts and reversals
  MaxEvents  \* bound on the adjustments and disposals

RateAssumption ==
  /\ Cost \in Nat /\ Salvage \in Nat /\ Life \in Nat \ {0}
  /\ DecliningRate \in Nat /\ Amount \subseteq Nat

VARIABLES
  register,  \* fa_assets
  charges,   \* how often each asset was charged for each month
  surplus,   \* the sum of surplus_delta in fa_revaluations
  ledger,    \* each asset's part of the accounts 1500, 1510 and 3100, and
             \* what was taken off 1500 for it by hand
  events,    \* processed source events
  run

vars == << register, charges, surplus, ledger, events, run >>

Idle == [at |-> "idle", period |-> InService, due |-> {}]

Init ==
  /\ register = [a \in Asset |-> [status |-> "none", cost |-> 0,
                                  accumulated |-> 0, capitalized |-> FALSE,
                                  method |-> "straight_line"]]
  /\ charges = [a \in Asset |-> [m \in Period |-> 0]]
  /\ surplus = [a \in Asset |-> 0]
  /\ ledger = [a \in Asset |-> [cost |-> 0, accumulated |-> 0, surplus |-> 0,
                                byHand |-> 0]]
  /\ events = {}
  /\ run = [r \in Run |-> Idle]

Active(a) == register[a].status = "active"
NBV(a) == register[a].cost - register[a].accumulated
Lesser(x, y) == IF x < y THEN x ELSE y
AtLeastZero(x) == IF x < 0 THEN 0 ELSE x

-----------------------------------------------------------------------------
(* Depreciation. *)

\* Decimal division, rounded to the cent, half up.
Rounded(n, d) == (2 * n + d) \div (2 * d)

\* A month's charge: on the book value by the declining rate, or the
\* depreciable base spread over the life.
Monthly(a) ==
  IF register[a].method = "declining_balance" THEN Rounded(NBV(a) * DecliningRate, 12)
  ELSE Rounded(AtLeastZero(register[a].cost - Salvage), Life)

Remaining(a) == AtLeastZero(register[a].cost - Salvage - register[a].accumulated)

\* Variant: the last charge is not cut to what remains.
ChargeUncapped(a) == IF Remaining(a) > 0 THEN Monthly(a) ELSE 0

\* No more than is left of the depreciable base.
Charge(a) == Lesser(Monthly(a), Remaining(a))

\* RunDepreciation: the snapshot of its SELECT ... FOR UPDATE.
SelectDue(r, m) ==
  /\ run[r].at = "idle"
  /\ run' = [run EXCEPT ![r] =
               [at |-> "lock", period |-> m,
                due |-> { a \in Asset : Active(a) /\ m >= InService
                                        /\ charges[a][m] = 0 }]]
  /\ UNCHANGED << register, charges, surplus, ledger, events >>

\* Variant: an asset is charged as the snapshot had it, whatever it is now.
ChargedFromSnapshot(r) == { a \in run[r].due : Charge(a) > 0 }

\* The assets still active when their locks are had, and with something left.
Charged(r) == { a \in run[r].due : Active(a) /\ Charge(a) > 0 }

\* The entry's insert does nothing on a conflict; the register and the posting
\* go on regardless.
CommitRun(r) ==
  LET Depreciated(x, a) ==
        IF a \in Charged(r) THEN [x EXCEPT !.accumulated = @ + Charge(a)] ELSE x
  IN  /\ run[r].at = "lock"
      /\ register' = [a \in Asset |-> Depreciated(register[a], a)]
      /\ ledger' = [a \in Asset |-> Depreciated(ledger[a], a)]
      /\ charges' = [a \in Asset |->
                       IF a \in Charged(r)
                         THEN [charges[a] EXCEPT ![run[r].period] = @ + 1]
                         ELSE charges[a]]
      /\ run' = [run EXCEPT ![r] = Idle]
      /\ UNCHANGED << surplus, events >>

\* An account is missing, the connection breaks: nothing was done.
RollbackRun(r) ==
  /\ run[r].at = "lock"
  /\ run' = [run EXCEPT ![r] = Idle]
  /\ UNCHANGED << register, charges, surplus, ledger, events >>

-----------------------------------------------------------------------------
(* The other operations, each one transaction. *)

\* CreateFixedAsset, with the reclass into 1500 unless it is record-only.
Register(a, capitalize, method) ==
  /\ register[a].status = "none"
  /\ register' = [register EXCEPT ![a] =
                    [status |-> "active", cost |-> Cost, accumulated |-> 0,
                     capitalized |-> capitalize, method |-> method]]
  /\ ledger' = IF capitalize THEN [ledger EXCEPT ![a].cost = @ + Cost]
                             ELSE ledger
  /\ UNCHANGED << charges, surplus, events, run >>

\* The event was not processed yet, and now is.
Process(a, kind, d) ==
  /\ << kind, a, d >> \notin events /\ Cardinality(events) < MaxEvents
  /\ events' = events \cup {<< kind, a, d >>}

WriteDown(a, x) ==
  /\ register' = [register EXCEPT ![a].accumulated = @ + x]
  /\ ledger' = [ledger EXCEPT ![a].accumulated = @ + x]

\* BookImpairment, down to the recoverable amount.
BookImpairment(a, recoverable, d) ==
  /\ Active(a)
  /\ NBV(a) > recoverable
  /\ WriteDown(a, NBV(a) - recoverable)
  /\ Process(a, "impair", d)
  /\ UNCHANGED << charges, surplus, run >>

\* Variant: the amount is taken as it was asked for.
ReverseImpairmentUncapped(a, amount, d) ==
  /\ Active(a)
  /\ amount > 0
  /\ WriteDown(a, - amount)
  /\ Process(a, "reverse", d)
  /\ UNCHANGED << charges, surplus, run >>

\* ReverseImpairment, capped by the accumulated depreciation.
ReverseImpairment(a, amount, d) ==
  LET capped == Lesser(amount, register[a].accumulated)
  IN  /\ Active(a)
      /\ capped > 0
      /\ WriteDown(a, - capped)
      /\ Process(a, "reverse", d)
      /\ UNCHANGED << charges, surplus, run >>

\* Variant: the whole decrease is taken from the surplus account.
ToSurplusWhole(a, delta) == delta

\* What a movement puts on 3100: an increase wholly; a decrease as far as the
\* asset's sum of movements goes, the rest being an expense.
ToSurplus(a, delta) ==
  IF delta > 0 THEN delta
  ELSE - Lesser(- delta, AtLeastZero(surplus[a]))

\* BookRevaluation, which moves the gross cost.
BookRevaluation(a, newCarrying, d) ==
  LET delta == newCarrying - NBV(a)
  IN  /\ Active(a)
      /\ delta # 0
      /\ register' = [register EXCEPT ![a].cost = @ + delta]
      /\ ledger' = [ledger EXCEPT ![a] =
                      [cost |-> @.cost + delta, accumulated |-> @.accumulated,
                       surplus |-> @.surplus + ToSurplus(a, delta),
                       byHand |-> @.byHand]]
      /\ surplus' = [surplus EXCEPT ![a] = @ + delta]
      /\ Process(a, "revalue", d)
      /\ UNCHANGED << charges, run >>

\* BookAssetDisposalSubledger: the cost and what is accumulated on it leave
\* the accounts, the difference to the proceeds is a gain or a loss.
Dispose(a, d) ==
  /\ Active(a)
  /\ ledger' = [ledger EXCEPT ![a] =
                  [cost |-> @.cost - register[a].cost,
                   accumulated |-> @.accumulated - register[a].accumulated,
                   surplus |-> @.surplus, byHand |-> @.byHand]]
  /\ register' = [register EXCEPT ![a].status = "disposed"]
  /\ Process(a, "dispose", d)
  /\ UNCHANGED << charges, surplus, run >>

\* BookAssetDisposal of an asset the register does not have: the book value
\* the event carries leaves the account.
DisposeUnregistered(a, bookValue, d) ==
  /\ register[a].status = "none"
  /\ ledger' = [ledger EXCEPT ![a] =
                  [cost |-> @.cost - bookValue, accumulated |-> @.accumulated,
                   surplus |-> @.surplus, byHand |-> @.byHand + bookValue]]
  /\ Process(a, "dispose", d)
  /\ UNCHANGED << register, charges, surplus, run >>

Next ==
  \/ \E r \in Run :
       (\E m \in Period : SelectDue(r, m)) \/ CommitRun(r) \/ RollbackRun(r)
  \/ \E a \in Asset :
       \/ \E capitalize \in BOOLEAN, method \in {"straight_line", "declining_balance"} :
            Register(a, capitalize, method)
       \/ \E d \in Date :
            \/ Dispose(a, d)
            \/ \E x \in Amount :
                 \/ BookImpairment(a, x, d) \/ ReverseImpairment(a, x, d)
                 \/ BookRevaluation(a, x, d) \/ DisposeUnregistered(a, x, d)

Spec == Init /\ [][Next]_vars

-----------------------------------------------------------------------------
(* Properties. *)

\* The register and the accounts agree on every capitalized asset, and a
\* disposed one has left the accounts, a depreciation run that had picked it
\* before notwithstanding; what an earlier event took off by hand apart.
RegisterTiesToLedger ==
  \A a \in Asset : register[a].capitalized =>
    LET x == register[a]
        gone == x.status = "disposed"
    IN  /\ ledger[a].cost + ledger[a].byHand = IF gone THEN 0 ELSE x.cost
        /\ ledger[a].accumulated = IF gone THEN 0 ELSE x.accumulated

\* Neither the cost nor the carrying amount goes below zero, in whatever order
\* runs, impairments, reversals and revaluations come (the caps of
\* ReverseImpairment and BookRevaluation).
CarryingInRange ==
  \A a \in Asset :
    0 <= register[a].accumulated /\ register[a].accumulated <= register[a].cost

\* Depreciation does not take an asset below its salvage value, not even when
\* two runs of one month overlap (RunDepreciation computes from the locked row).
KeepsSalvage ==
  \A a \in Asset :
    charges'[a] # charges[a] =>
      register'[a].cost - register'[a].accumulated >= Salvage

ChargeKeepsSalvage == [][KeepsSalvage]_vars

\* The revaluation surplus account is never overdrawn (BookRevaluation).
SurplusNotOverdrawn == \A a \in Asset : ledger[a].surplus >= 0

\* repository/fixed_assets.go:184: the (asset, period) unique index makes the
\* run idempotent.  An asset is charged for a month at most once.
ChargedOncePerPeriod ==
  \A a \in Asset : \A m \in Period : charges[a][m] <= 1

\* The register and the ledger agree on every asset, within its bounds
\* (RunDepreciation, BookImpairment, BookRevaluation, BookAssetDisposalSubledger).
RegisterSound == RegisterTiesToLedger /\ CarryingInRange /\ SurplusNotOverdrawn
=============================================================================
