---------------------------- MODULE PaymentLinks ----------------------------
(***************************************************************************)
(* The payment link of a receivable (repository/adjustments.go             *)
(* EnsurePaymentLinkToken, handlers/customer_ar_api.go PaymentLink): one   *)
(* statement looks for the token, another stores a new one where there is  *)
(* none, and the caller is answered the token it found or made.            *)
(***************************************************************************)
EXTENDS Naturals

CONSTANTS
  Request,  \* requests in flight
  MaxToken  \* bound: tokens made

VARIABLES
  token,    \* payment_link_token, 0 when there is none
  made,     \* tokens made so far
  request,  \* the token each request is about to store, 0 when it has none
  answered, \* the tokens callers were answered
  beaten    \* ghost: those that were made and not stored

vars == << token, made, request, answered, beaten >>

Init ==
  /\ token = 0 /\ made = 0
  /\ request = [r \in Request |-> 0]
  /\ answered = {} /\ beaten = {}

\* The link exists.
Find(r) ==
  /\ request[r] = 0 /\ token # 0
  /\ answered' = answered \cup {token}
  /\ UNCHANGED << token, made, request, beaten >>

\* It does not; uuid.New.
Make(r) ==
  /\ request[r] = 0 /\ token = 0 /\ made < MaxToken
  /\ made' = made + 1
  /\ request' = [request EXCEPT ![r] = made']
  /\ UNCHANGED << token, answered, beaten >>

\* Variant: whatever is stored is written over.
MissingAnyway == TRUE

\* AND (payment_link_token IS NULL OR payment_link_token = '')
Missing == token = 0

\* How many rows the UPDATE matched is not looked at.
Store(r) ==
  /\ request[r] # 0
  /\ token' = IF Missing THEN request[r] ELSE token
  /\ beaten' = IF Missing THEN beaten ELSE beaten \cup {request[r]}
  /\ answered' = answered \cup {request[r]}
  /\ request' = [request EXCEPT ![r] = 0]
  /\ UNCHANGED made

\* The statement fails; an error is answered.
Fail(r) ==
  /\ request[r] # 0
  /\ request' = [request EXCEPT ![r] = 0]
  /\ UNCHANGED << token, made, answered, beaten >>

Next == \E r \in Request : Find(r) \/ Make(r) \/ Store(r) \/ Fail(r)

Spec == Init /\ [][Next]_vars

-----------------------------------------------------------------------------
\* A link a customer was sent leads to the receivable for good, however many
\* requests made one at once, but for that of a request that came second with
\* its own (adjustments.go:332-339): it is answered although nothing stores it.
LinkLeads == answered \ beaten \subseteq {token}
=============================================================================
