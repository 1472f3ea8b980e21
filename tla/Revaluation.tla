---------------------------- MODULE Revaluation ----------------------------
(***************************************************************************)
(* Period-end revaluation of open foreign receivables and payables:        *)
(* compute the net unrealized gain, book it on the last day of the period  *)
(* and book its reversal on the first day of the next (ledger/             *)
(* revaluation.go).  The two bookings are two transactions, each           *)
(* idempotent on its own event id.                                         *)
(***************************************************************************)
EXTENDS Integers

CONSTANTS
  Period,
  Caller,    \* POST /fx/revalue requests in flight
  NoPeriod,
  MaxNet,    \* bound on the net gain or loss
  MaxFaults  \* bound on requests that fail half way

PeriodAssumption == NoPeriod \notin Period /\ MaxNet \in Nat

VARIABLES
  net,        \* what the open balances and the period-end rate come to now
  forward,    \* the gain booked on fx.revalue:<period>; 0 when there is none
  reverse,    \* the amount booked on fx.revalue.reversal:<period>
  call,       \* the step of each request, its period and the net it computed
  disturbed,  \* periods whose requests overlapped or failed half way
  faults

vars == << net, forward, reverse, call, disturbed, faults >>

Net == -MaxNet..MaxNet

Free == [at |-> "free", period |-> NoPeriod, net |-> 0]

Init ==
  /\ net = [p \in Period |-> 0]
  /\ forward = [p \in Period |-> 0]
  /\ reverse = [p \in Period |-> 0]
  /\ call = [c \in Caller |-> Free]
  /\ disturbed = {} /\ faults = 0

\* BookPostedEntry on an event id: what is booked already stays.
Booked(amounts, c) ==
  [amounts EXCEPT ![call[c].period] = IF @ = 0 THEN call[c].net ELSE @]

Running(p) == \E c \in Caller : call[c].period = p

-----------------------------------------------------------------------------
(* Steps. *)

\* A payment, a new document or another rate for the end of the period.
BalancesMove(p) ==
  /\ net' \in { [net EXCEPT ![p] = n] : n \in Net }
  /\ UNCHANGED << forward, reverse, call, disturbed, faults >>

\* RevalueFX up to the first booking; a net of zero books nothing.
Compute(c, p) ==
  /\ call[c] = Free
  /\ net[p] # 0
  /\ call' = [call EXCEPT ![c] =
                [at |-> "forward", period |-> p, net |-> net[p]]]
  /\ disturbed' = IF Running(p) THEN disturbed \cup {p} ELSE disturbed
  /\ UNCHANGED << net, forward, reverse, faults >>

\* Variant: the reversal is booked first.
BookForwardLater(c) ==
  /\ call[c].at = "forward"
  /\ reverse' = Booked(reverse, c)
  /\ call' = [call EXCEPT ![c].at = "reverse"]
  /\ UNCHANGED << net, forward, disturbed, faults >>

BookForward(c) ==
  /\ call[c].at = "forward"
  /\ forward' = Booked(forward, c)
  /\ call' = [call EXCEPT ![c].at = "reverse"]
  /\ UNCHANGED << net, reverse, disturbed, faults >>

\* Variant: the second booking finds the balances as they are by then.
BookReverseRecomputed(c) ==
  /\ call[c].at = "reverse"
  /\ LET p == call[c].period
     IN  reverse' = [reverse EXCEPT ![p] = IF @ = 0 THEN net[p] ELSE @]
  /\ call' = [call EXCEPT ![c] = Free]
  /\ UNCHANGED << net, forward, disturbed, faults >>

BookReverse(c) ==
  /\ call[c].at = "reverse"
  /\ reverse' = Booked(reverse, c)
  /\ call' = [call EXCEPT ![c] = Free]
  /\ UNCHANGED << net, forward, disturbed, faults >>

CallFails(c) ==
  /\ call[c] # Free
  /\ faults < MaxFaults /\ faults' = faults + 1
  /\ disturbed' = disturbed \cup {call[c].period}
  /\ call' = [call EXCEPT ![c] = Free]
  /\ UNCHANGED << net, forward, reverse >>

Next ==
  \/ \E p \in Period : BalancesMove(p)
  \/ \E c \in Caller :
       \/ \E p \in Period : Compute(c, p)
       \/ BookForward(c) \/ BookReverse(c) \/ CallFails(c)

Spec == Init /\ [][Next]_vars

-----------------------------------------------------------------------------
(* Properties. *)

\* The next period starts from a clean base: once no request for a period
\* runs, its reversal undoes exactly what was booked, however the balances
\* moved meanwhile and however often the period is revalued again
\* (ledger/revaluation.go:21-27).  It needs requests for the period that
\* neither overlapped nor stopped half way.
ReversalMirrors ==
  \A p \in Period \ disturbed : ~ Running(p) => reverse[p] = forward[p]

\* The next period is never hit by the reversal of a revaluation that was not
\* booked, whatever fails and however requests overlap
\* (ledger/revaluation.go:111-126).
ReversalFollowsForward ==
  \A p \in Period : reverse[p] # 0 => forward[p] # 0

\* What a period's revaluation books is taken back in the next one, and
\* nothing else is (RevalueFX).
RevaluationReverses == ReversalMirrors /\ ReversalFollowsForward
=============================================================================
