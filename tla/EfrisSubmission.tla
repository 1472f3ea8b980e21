-------------------------- MODULE EfrisSubmission --------------------------
(***************************************************************************)
(* Filing an invoice with the revenue authority (EFRIS).  A request looks  *)
(* whether the document is acknowledged, queues a row, calls the           *)
(* authority, writes what it answered and enqueues an event: five steps    *)
(* with no lock over them.  The authority may have filed what the caller   *)
(* takes for failed: a lost answer and a refusal look the same.            *)
(***************************************************************************)
EXTENDS Integers, FiniteSets

CONSTANTS
  Doc, Request,
  MaxFilings  \* bound: fiscal receipts per document

VARIABLES
  row,        \* efris_submissions: status by document, "none" without a row
  filed,      \* fiscal receipts the authority has issued
  announced,  \* documents whose finance.efris.submitted event is in the outbox
  request,    \* requests in flight
  unguarded   \* ghost: documents a request went on for unchecked, or beside another

vars == << row, filed, announced, request, unguarded >>

Status == {"none", "pending", "submitted", "acknowledged", "failed"}
Stage == {"idle", "queue", "submit", "complete", "announce"}
Idle == [at |-> "idle", doc |-> CHOOSE d \in Doc : TRUE, answer |-> "none"]

Goto(r, stage) == request' = [request EXCEPT ![r].at = stage]
Answers(r, answer) ==
  request' = [request EXCEPT ![r] =
                [at |-> "complete", doc |-> @.doc, answer |-> answer]]
Stop(r) == request' = [request EXCEPT ![r] = Idle]

\* Some other request for d is in flight.
Busy(r, d) == \E q \in Request \ {r} : request[q].at # "idle" /\ request[q].doc = d

Init ==
  /\ row = [d \in Doc |-> "none"]
  /\ filed = [d \in Doc |-> 0]
  /\ announced = {}
  /\ request = [r \in Request |-> Idle]
  /\ unguarded = {}

Admit(r, d) ==
  /\ request[r].at = "idle"
  /\ request' = [request EXCEPT ![r] = [at |-> "queue", doc |-> d, answer |-> "none"]]
  /\ UNCHANGED << row, filed, announced >>

\* Variant: the row is not looked at.
CheckNever(r, d) ==
  /\ Admit(r, d)
  /\ unguarded' = IF Busy(r, d) THEN unguarded \cup {d} ELSE unguarded

\* GetEFRISSubmission: an acknowledged document answers at once.
Check(r, d) ==
  /\ row[d] # "acknowledged"
  /\ Admit(r, d)
  /\ unguarded' = IF Busy(r, d) THEN unguarded \cup {d} ELSE unguarded

\* Its error is not looked at: the request goes on as if there were no row.
CheckFails(r, d) ==
  /\ Admit(r, d)
  /\ unguarded' = unguarded \cup {d}

\* QueueEFRISSubmission: an existing row keeps its status.
Queue(r) ==
  /\ request[r].at = "queue"
  /\ row' = [row EXCEPT ![request[r].doc] = IF @ = "none" THEN "pending" ELSE @]
  /\ Goto(r, "submit")
  /\ UNCHANGED << filed, announced, unguarded >>

\* The authority files the document and says so; an adapter may pass on that
\* it has taken it without acknowledging it yet.
Accepted(r) ==
  LET d == request[r].doc IN
  /\ request[r].at = "submit" /\ filed[d] < MaxFilings
  /\ filed' = [filed EXCEPT ![d] = @ + 1]
  /\ \E answer \in {"acknowledged", "submitted"} : Answers(r, answer)
  /\ UNCHANGED << row, announced, unguarded >>

\* The answer is lost after the authority has filed, or it refuses: both are an
\* error of the adapter, and "failed".
AnswerLost(r) ==
  LET d == request[r].doc IN
  /\ request[r].at = "submit" /\ filed[d] < MaxFilings
  /\ filed' = [filed EXCEPT ![d] = @ + 1]
  /\ Answers(r, "failed")
  /\ UNCHANGED << row, announced, unguarded >>

Refused(r) ==
  /\ request[r].at = "submit"
  /\ Answers(r, "failed")
  /\ UNCHANGED << row, filed, announced, unguarded >>

Answered(r) ==
  IF request[r].answer = "acknowledged" THEN Goto(r, "announce") ELSE Stop(r)

\* CompleteEFRISSubmission: the row takes the answer whatever it says now.
Complete(r) ==
  /\ request[r].at = "complete"
  /\ row' = [row EXCEPT ![request[r].doc] = request[r].answer]
  /\ Answered(r)
  /\ UNCHANGED << filed, announced, unguarded >>

\* Its failure is logged, and the request goes on.
CompleteFails(r) ==
  /\ request[r].at = "complete"
  /\ Answered(r)
  /\ UNCHANGED << row, filed, announced, unguarded >>

\* EnqueueOutbox: one event id per document.
Announce(r) ==
  /\ request[r].at = "announce"
  /\ announced' = announced \cup {request[r].doc}
  /\ Stop(r)
  /\ UNCHANGED << row, filed, unguarded >>

\* The caller hangs up, which cancels what is left, or the process dies.
GiveUp(r) ==
  /\ request[r].at # "idle"
  /\ Stop(r)
  /\ UNCHANGED << row, filed, announced, unguarded >>

Next ==
  \E r \in Request :
    \/ \E d \in Doc : (Check(r, d) \/ CheckFails(r, d))
    \/ Queue(r) \/ Accepted(r) \/ AnswerLost(r) \/ Refused(r)
    \/ Complete(r) \/ CompleteFails(r) \/ Announce(r) \/ GiveUp(r)

Spec == Init /\ [][Next]_vars

-----------------------------------------------------------------------------
(* Properties. *)

\* handlers/integrations_api.go:74: an acknowledged document is never submitted
\* again.  It is filed no more and its row stays, unless two requests for it
\* were in flight at once or the row could not be read: the check and the call
\* are not one step.  And nothing is shown or announced as fiscalised that the
\* authority has not filed.
KeepsAcknowledged ==
  \A d \in Doc :
    /\ row[d] = "acknowledged" /\ d \notin unguarded' =>
         filed'[d] = filed[d] /\ row'[d] = "acknowledged"
    /\ row'[d] = "acknowledged" \/ d \in announced' => filed'[d] > 0

AcknowledgedIsFinal == [][KeepsAcknowledged]_vars
=============================================================================
