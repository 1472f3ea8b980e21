----------------------------- MODULE Provisions -----------------------------
(***************************************************************************)
(* One IAS 37 provision: recognition at present value, unwinding, use,     *)
(* remeasurement and reversal (repository/provisions_liab.go).  Every      *)
(* operation reads the provision, decides its movement, and books it in a  *)
(* transaction that does not look at the status again.  An operation is    *)
(* booked once for its reference; with none, once a day.                   *)
(***************************************************************************)
EXTENDS Integers

CONSTANTS
  Request,
  Reference,   \* references, or days
  Estimate,    \* estimates, at recognition and remeasurement
  Use,         \* amounts to be settled in cash
  Rate, Base,  \* the yearly discount rate as a fraction Rate / Base
  Years        \* years to settlement, 0 for none

\* The handlers let no negative amount through; a power of a positive number is
\* positive, which the provers cannot be asked to find.
ProvisionAssumption ==
  /\ Estimate \subseteq Nat /\ Use \subseteq Nat
  /\ Rate \in Nat /\ Base \in Nat \ {0}
  /\ \A y \in Years : Base^y \in Nat /\ (Base + Rate)^y \in Nat \ {0}

VARIABLES
  provision,  \* the row in liab_provisions
  movements,  \* the sum of its rows in provision_movements
  account,    \* its part of the liability account, 2400 or 2410
  events,     \* processed source events
  request,    \* what each request has read and decided
  stale       \* a movement was booked on an amount that had changed

vars == << provision, movements, account, events, request, stale >>

Idle == [at |-> "idle", kind |-> "none", delta |-> 0, read |-> 0]

Init ==
  /\ provision = [status |-> "none", carrying |-> 0]
  /\ movements = 0 /\ account = 0 /\ events = {}
  /\ request = [r \in Request |-> Idle]
  /\ stale = FALSE

-----------------------------------------------------------------------------

\* Rounded to the cent, half up; the operands are not negative.
Rounded(n, d) == (2 * n + d) \div (2 * d)

PresentValue(estimate, years) ==
  Rounded(estimate * Base^years, (Base + Rate)^years)

\* RecognizeProvision.  A repeated call makes another provision; an amount that
\* comes to nothing has no journal line (journal_line_one_side).
Recognize(estimate, years) ==
  /\ provision.status = "none" /\ estimate > 0
  /\ LET carrying == PresentValue(estimate, years)
     IN  /\ carrying > 0
         /\ provision' = [status |-> "active", carrying |-> carrying]
         /\ movements' = carrying /\ account' = carrying
  /\ UNCHANGED << events, request, stale >>

\* The operation has found the provision active and knows its movement, which
\* is not nothing.
Decide(r, kind, delta) ==
  /\ request[r].at = "idle"
  /\ provision.status = "active" /\ delta # 0
  /\ request' = [request EXCEPT ![r] = [at |-> "book", kind |-> kind,
                                        delta |-> delta,
                                        read |-> provision.carrying]]
  /\ UNCHANGED << provision, movements, account, events, stale >>

Unwind(r) == Decide(r, "unwind", Rounded(provision.carrying * Rate, Base))

\* Variant: the amount is taken as it was asked for.
UtilizeUncapped(r, amount) == Decide(r, "utilize", - amount)

Utilize(r, amount) ==
  Decide(r, "utilize",
         - (IF amount > provision.carrying THEN provision.carrying ELSE amount))

\* The new estimate is the new carrying amount: it is not discounted.
Remeasure(r, estimate) ==
  Decide(r, "remeasure", estimate - provision.carrying)

Reverse(r) == Decide(r, "reverse", - provision.carrying)

\* Variant: a provision that comes to nothing stays active.
StatusAfterBelow(kind, carrying) ==
  IF kind = "reverse" THEN "reversed"
  ELSE IF carrying < 0 THEN "settled" ELSE provision.status

StatusAfter(kind, carrying) ==
  IF kind = "reverse" THEN "reversed"
  ELSE IF carrying <= 0 THEN "settled" ELSE provision.status

\* bookProvisionOp: entry, row and movement in one transaction, the carrying
\* amount kept from going below zero.
Book(r, ref) ==
  LET x == request[r]
      e == << x.kind, ref >>
      carrying == provision.carrying + x.delta
  IN  /\ x.at = "book" /\ e \notin events
      /\ events' = events \cup {e}
      /\ account' = account + x.delta
      /\ movements' = movements + x.delta
      /\ provision' = [status |-> StatusAfter(x.kind, carrying),
                       carrying |-> IF carrying < 0 THEN 0 ELSE carrying]
      /\ stale' = (stale \/ x.read # provision.carrying)
      /\ request' = [request EXCEPT ![r] = Idle]

\* The reference was booked before and its entry is returned, or the call
\* fails.
BookNothing(r) ==
  /\ request[r].at = "book"
  /\ request' = [request EXCEPT ![r] = Idle]
  /\ UNCHANGED << provision, movements, account, events, stale >>

Next ==
  \/ \E estimate \in Estimate, years \in Years : Recognize(estimate, years)
  \/ \E r \in Request :
       \/ Unwind(r) \/ Reverse(r) \/ BookNothing(r)
       \/ \E amount \in Use : Utilize(r, amount)
       \/ \E estimate \in Estimate : Remeasure(r, estimate)
       \/ \E ref \in Reference : Book(r, ref)

Spec == Init /\ [][Next]_vars

-----------------------------------------------------------------------------
(* Properties. *)

\* Unless a movement was decided on an amount that has changed since, the
\* carrying amount is what the liability account and the movements say
\* (bookProvisionOp: the floor at zero never cuts a movement).
CarryingTies ==
  ~ stale => provision.carrying = account /\ account = movements

\* A provision is closed exactly when nothing of it is left, whichever way it
\* was used up.
ClosedIsEmpty ==
  ~ stale /\ provision.status # "none" =>
    (provision.status = "active" <=> provision.carrying > 0)

\* Carrying amount, account, movements and status of a provision agree
\* (bookProvisionOp).
ProvisionTies == CarryingTies /\ ClosedIsEmpty
=============================================================================
