--------------------------- MODULE PaymentIntents ---------------------------
(***************************************************************************)
(* Intents to collect on a receivable.  Confirming one reads the intent,   *)
(* applies a payment under the reference intent:<id> and marks the intent, *)
(* in separate transactions.  The payment looks for its own event before   *)
(* it locks the item, and refuses what exceeds the balance.                *)
(***************************************************************************)
EXTENDS Integers, FiniteSets, Functions

CONSTANTS
  Intent, Request,
  Amount,  \* what an intent collects
  Owed     \* what the item is owed

IntentAssumption ==
  IsFiniteSet(Intent) /\ Amount \in [Intent -> Nat] /\ Owed \in Nat

VARIABLES
  status,     \* payment_intents.status; "none" before it is created
  paid,       \* intents whose payment is booked
  request,    \* confirmations in flight
  unmarked,   \* ghost: paid by a request that was given up before it said so
  disturbed   \* ghost: confirmed twice at once, or paid under an error

vars == << status, paid, request, unmarked, disturbed >>

Idle == [at |-> "idle", intent |-> CHOOSE i \in Intent : TRUE]

\* amount_paid of the item.
Collected == SumFunction([i \in Intent |-> IF i \in paid THEN Amount[i] ELSE 0])

Goto(r, stage) == request' = [request EXCEPT ![r].at = stage]
Stop(r) == request' = [request EXCEPT ![r] = Idle]

Init ==
  /\ status = [i \in Intent |-> "none"]
  /\ paid = {}
  /\ request = [r \in Request |-> Idle]
  /\ unmarked = {}
  /\ disturbed = {}

\* CreatePaymentIntent: the balance is not looked at.
Create(i) ==
  /\ status[i] = "none"
  /\ status' = [status EXCEPT ![i] = "pending"]
  /\ UNCHANGED << paid, request, unmarked, disturbed >>

\* ConfirmPaymentIntent: a failed intent can be confirmed again.
Confirm(r, i) ==
  /\ request[r].at = "idle" /\ status[i] \in {"pending", "failed"}
  /\ request' = [request EXCEPT ![r] = [at |-> "look up", intent |-> i]]
  /\ disturbed' =
       IF \E q \in Request : request[q].at # "idle" /\ request[q].intent = i
       THEN disturbed \cup {i} ELSE disturbed
  /\ UNCHANGED << status, paid, unmarked >>

\* Variant: a payment that is booked already is not found.
LookUpNever(r) ==
  /\ request[r].at = "look up"
  /\ Goto(r, "pay")
  /\ UNCHANGED << status, paid, unmarked, disturbed >>

\* ApplyPaymentWithJournal: the event is processed, or the item is locked next.
LookUp(r) ==
  /\ request[r].at = "look up"
  /\ Goto(r, IF request[r].intent \in paid THEN "succeed" ELSE "pay")
  /\ UNCHANGED << status, paid, unmarked, disturbed >>

\* Behind the row lock, over-application and the unique source event refuse.
Refused(i) == i \in paid \/ Collected + Amount[i] > Owed

Pay(r) ==
  LET i == request[r].intent IN
  /\ request[r].at = "pay"
  /\ paid' = IF Refused(i) THEN paid ELSE paid \cup {i}
  /\ Goto(r, IF Refused(i) THEN "fail" ELSE "succeed")
  /\ UNCHANGED << status, unmarked, disturbed >>

\* The database fails under either step, or loses the answer to the commit.
DatabaseFails(r) ==
  LET i == request[r].intent IN
  /\ request[r].at \in {"look up", "pay"}
  /\ paid' \in {paid} \cup (IF request[r].at = "pay" /\ ~Refused(i)
                           THEN {paid \cup {i}} ELSE {})
  /\ Goto(r, "fail")
  /\ disturbed' = IF i \in paid' THEN disturbed \cup {i} ELSE disturbed
  /\ UNCHANGED << status, unmarked >>

\* MarkPaymentIntentStatus: whatever the status is by now.
Mark(r) ==
  /\ request[r].at \in {"succeed", "fail"}
  /\ status' = [status EXCEPT ![request[r].intent] =
                  IF request[r].at = "succeed" THEN "succeeded" ELSE "failed"]
  /\ unmarked' = unmarked \ {request[r].intent}
  /\ Stop(r)
  /\ UNCHANGED << paid, disturbed >>

\* The process dies, or the mark fails.
GiveUp(r) ==
  /\ request[r].at # "idle"
  /\ Stop(r)
  /\ unmarked' = IF request[r].at = "succeed"
                 THEN unmarked \cup {request[r].intent} ELSE unmarked
  /\ UNCHANGED << status, paid, disturbed >>

Next ==
  \/ \E i \in Intent : Create(i)
  \/ \E r \in Request :
       \/ \E i \in Intent : Confirm(r, i)
       \/ LookUp(r) \/ Pay(r) \/ DatabaseFails(r) \/ Mark(r) \/ GiveUp(r)

Spec == Init /\ [][Next]_vars

-----------------------------------------------------------------------------
(* Properties. *)

\* An intent is shown as collected only when its money is booked, and as failed
\* only when it is not, whatever crashed before a retry.  It tells otherwise, by
\* name, after two confirmations at once (the one that loses the race marks the
\* paid intent failed), after an error under a booked payment, and from a crash
\* behind the payment to the next confirmation.
IntentTellsPayment ==
  \A i \in Intent :
    /\ status[i] = "succeeded" => i \in paid
    /\ status[i] = "failed" /\ i \notin unmarked \cup disturbed
         /\ (\A r \in Request : request[r].intent = i => request[r].at = "idle") =>
           i \notin paid

\* The intents of one item, each of them checked on its own, collect no more
\* than is owed.
CollectedWithinOwed == Collected <= Owed

\* Intents, payments and item agree (ConfirmPaymentIntent).
IntentsTie == IntentTellsPayment /\ CollectedWithinOwed
=============================================================================
