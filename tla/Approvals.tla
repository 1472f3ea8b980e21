----------------------------- MODULE Approvals -----------------------------
(***************************************************************************)
(* Tiered sign-off of high-value journals and payments: approvals are      *)
(* submitted, signed tier by tier, and executed by the request that put    *)
(* the last signature (ledger/approvals.go, repository/approvals.go,       *)
(* handlers/approvals.go).  Signing and rejecting hold the approval's row  *)
(* lock for their whole transaction; the execution that follows the last   *)
(* signature is a transaction of its own, and so is marking it executed.   *)
(***************************************************************************)
EXTENDS Integers, FiniteSets

CONSTANTS
  Actor, Approval,
  Journal,          \* draft entries, the targets of type "journal"
  Payment,          \* payment references, the targets of type "payment"
  Tier,             \* finance_approval_tiers, ordered by number
  MinAmount,        \* min_amount of each tier
  AmountOf,         \* the amount of each target
  MayApprove,       \* the tiers each actor holds the permission of
  RequireApproval,  \* cfg.RequireApproval
  Nobody,
  MaxFaults         \* bound on crashes and failed calls

Target == Journal \cup Payment

TierAssumption ==
  /\ Tier \subseteq Nat /\ IsFiniteSet(Tier)
  /\ MinAmount \in [Tier -> Nat] /\ AmountOf \in [Target -> Nat]
ActorAssumption ==
  /\ MayApprove \in [Actor -> SUBSET Tier] /\ Nobody \notin Actor
  /\ RequireApproval \in BOOLEAN /\ MaxFaults \in Nat
TargetAssumption == Journal \cap Payment = {} /\ Nobody \notin Target

VARIABLES
  approval,   \* finance_approvals: status, target and requester
  signed,     \* who approved each tier, from finance_approval_decisions
  executing,  \* the step the request that finalized the approval is at
  done,       \* how often each target was posted or paid
  deleted,    \* journals whose draft was deleted
  unread,     \* journals posted while the guard could not read the draft
  faults

vars == << approval, signed, executing, done, deleted, unread, faults >>

Unsubmitted == [status |-> "none", target |-> Nobody, by |-> Nobody]

Init ==
  /\ approval = [a \in Approval |-> Unsubmitted]
  /\ signed = [a \in Approval |-> [k \in Tier |-> Nobody]]
  /\ executing = [a \in Approval |-> "no"]
  /\ done = [t \in Target |-> 0]
  /\ deleted = {} /\ unread = {} /\ faults = 0

-----------------------------------------------------------------------------
(* Helpers. *)

\* RequiredApprovalTiers: every band the amount exceeds, not only the highest.
Required(t) == { k \in Tier : AmountOf[t] > MinAmount[k] }

Status(a) == approval[a].status

Unsigned(a) == { k \in Required(approval[a].target) : signed[a][k] = Nobody }

\* Variant: the check that the approver signed no other tier is forgotten.
HasSignedUnchecked(x, a) == FALSE

HasSigned(x, a) == \E k \in Tier : signed[a][k] = x

\* PostJournalEntry posts a draft, once.
Postable(j) == j \notin deleted /\ done[j] = 0

\* Variant: the payment reference is not looked up before paying.
PaidAgain(p) == [done EXCEPT ![p] = IF @ < 2 THEN @ + 1 ELSE @]

\* ApplyARPayment and ApplyAPPayment: a reference already paid returns the
\* payment there is.
Paid(p) == [done EXCEPT ![p] = IF @ = 0 THEN 1 ELSE @]

-----------------------------------------------------------------------------
(* Handlers. *)

\* POST /v1/approvals: below the first band nothing is created.  A journal
\* must exist, but may be posted already or have another approval.
Submit(x, a, t) ==
  /\ Status(a) = "none"
  /\ t \notin deleted
  /\ Required(t) # {}
  /\ approval' = [approval EXCEPT ![a] =
                    [status |-> "pending", target |-> t, by |-> x]]
  /\ UNCHANGED << signed, executing, done, deleted, unread, faults >>

\* RecordApprovalTier: the lowest unsigned tier, by somebody who is not the
\* requester, has signed no tier of it and holds that tier's permission.  The
\* last signature makes the same request go on to execute the target.
Approve(x, a) ==
  /\ Status(a) = "pending"
  /\ x # approval[a].by
  /\ ~ HasSigned(x, a)
  /\ \E k \in Unsigned(a) :
       /\ \A l \in Unsigned(a) : k <= l
       /\ k \in MayApprove[x]
       /\ signed' = [signed EXCEPT ![a][k] = x]
       /\ IF Unsigned(a) = {k}
            THEN /\ approval' = [approval EXCEPT ![a].status = "approved"]
                 /\ executing' = [executing EXCEPT ![a] = "execute"]
            ELSE UNCHANGED << approval, executing >>
  /\ UNCHANGED << done, deleted, unread, faults >>

\* Variant: RejectApproval looks at no status.
RejectAnyStatus(x, a) ==
  /\ Status(a) # "none"
  /\ \/ x = approval[a].by
     \/ Required(approval[a].target) \cap MayApprove[x] # {}
  /\ approval' = [approval EXCEPT ![a].status = "rejected"]
  /\ UNCHANGED << signed, executing, done, deleted, unread, faults >>

\* RejectApproval: the requester, or a holder of any required permission.
Reject(x, a) ==
  /\ Status(a) = "pending"
  /\ \/ x = approval[a].by
     \/ Required(approval[a].target) \cap MayApprove[x] # {}
  /\ approval' = [approval EXCEPT ![a].status = "rejected"]
  /\ UNCHANGED << signed, executing, done, deleted, unread, faults >>

\* Variant: a refused post is reported, the approval marked executed all the
\* same.
ExecuteJournalRegardless(a) ==
  LET draft == approval[a].target
  IN  /\ executing[a] = "execute" /\ draft \in Journal
      /\ done' = IF Postable(draft) THEN [done EXCEPT ![draft] = @ + 1] ELSE done
      /\ executing' = [executing EXCEPT ![a] = "mark"]
      /\ UNCHANGED << approval, signed, deleted, unread, faults >>

\* executeApproval of a journal: PostJournalEntry, whose refusal ends the
\* request and leaves the approval as it is.
ExecuteJournal(a) ==
  LET draft == approval[a].target
  IN  /\ executing[a] = "execute" /\ draft \in Journal
      /\ IF Postable(draft)
           THEN /\ done' = [done EXCEPT ![draft] = @ + 1]
                /\ executing' = [executing EXCEPT ![a] = "mark"]
           ELSE /\ executing' = [executing EXCEPT ![a] = "no"]
                /\ UNCHANGED done
      /\ UNCHANGED << approval, signed, deleted, unread, faults >>

\* executeApproval of a payment, which is idempotent on its reference.
ExecutePayment(a) ==
  /\ executing[a] = "execute" /\ approval[a].target \in Payment
  /\ done' = Paid(approval[a].target)
  /\ executing' = [executing EXCEPT ![a] = "mark"]
  /\ UNCHANGED << approval, signed, deleted, unread, faults >>

\* MarkApprovalExecuted, which looks at no status.
MarkApprovalExecuted(a) ==
  /\ executing[a] = "mark"
  /\ approval' = [approval EXCEPT ![a].status = "executed"]
  /\ executing' = [executing EXCEPT ![a] = "no"]
  /\ UNCHANGED << signed, done, deleted, unread, faults >>

\* The post, the payment or the mark fails (a closed period, an overpayment, a
\* lost connection) or the replica stops: the request is over.
ExecutionFails(a) ==
  /\ executing[a] # "no"
  /\ faults < MaxFaults /\ faults' = faults + 1
  /\ executing' = [executing EXCEPT ![a] = "no"]
  /\ UNCHANGED << approval, signed, done, deleted, unread >>

\* ApprovalGuard lets a direct post or payment through.
Unguarded(t) == ~ RequireApproval \/ Required(t) = {}

\* POST /v1/journal-entries/:id/post.
PostDirect(j) ==
  /\ Postable(j)
  /\ Unguarded(j)
  /\ done' = [done EXCEPT ![j] = @ + 1]
  /\ UNCHANGED << approval, signed, executing, deleted, unread, faults >>

\* The same, when GetJournalEntry fails: the handler skips the guard and posts.
PostUnread(j) ==
  /\ faults < MaxFaults /\ faults' = faults + 1
  /\ RequireApproval /\ Postable(j)
  /\ done' = [done EXCEPT ![j] = @ + 1]
  /\ unread' = unread \cup {j}
  /\ UNCHANGED << approval, signed, executing, deleted >>

\* POST /v1/ar|ap/:id/payments: the amount is in the request, and a guard that
\* cannot read the tiers refuses.
PayDirect(p) ==
  /\ Unguarded(p)
  /\ done' = Paid(p)
  /\ UNCHANGED << approval, signed, executing, deleted, unread, faults >>

\* DELETE /v1/journal-entries/:id.
DeleteDraft(j) ==
  /\ Postable(j)
  /\ deleted' = deleted \cup {j}
  /\ UNCHANGED << approval, signed, executing, done, unread, faults >>

Execution(a) ==
  ExecuteJournal(a) \/ ExecutePayment(a) \/ MarkApprovalExecuted(a)

Decision(a) == \E x \in Actor : Approve(x, a)

Next ==
  \/ \E a \in Approval :
       \/ \E x \in Actor, t \in Target : Submit(x, a, t)
       \/ Decision(a)
       \/ \E x \in Actor : Reject(x, a)
       \/ Execution(a) \/ ExecutionFails(a)
  \/ \E j \in Journal : PostDirect(j) \/ PostUnread(j) \/ DeleteDraft(j)
  \/ \E p \in Payment : PayDirect(p)

Spec == Init /\ [][Next]_vars

-----------------------------------------------------------------------------
(* Properties. *)

\* Every required tier of a is signed, by a permitted holder, no two by the
\* same person and none by the requester.
FullySigned(a) ==
  LET R == Required(approval[a].target)
  IN  /\ \A k \in R : /\ signed[a][k] \in Actor \ {approval[a].by}
                      /\ k \in MayApprove[signed[a][k]]
      /\ \A k, l \in R : signed[a][k] = signed[a][l] => k = l

\* While approval is enforced, no target above the first band is posted or
\* paid without one approval of that very target being fully signed: the
\* guard and the sign-off leave no second way round
\* (handlers/approvals.go:117-140, repository/approvals.go:165-246).
\* A journal whose guard could not read the draft is outside it.
DualControl ==
  RequireApproval =>
    \A t \in Target : done[t] > 0 /\ Required(t) # {} /\ t \notin unread =>
      \E a \in Approval : approval[a].target = t /\ FullySigned(a)

\* A rejection, by whoever and however close to the last signature, is final
\* and never executed: an approval leaves "rejected" for nothing and nothing
\* but "pending" becomes "rejected" (repository/approvals.go:250-300).
KeepsDecision ==
  \A a \in Approval :
    /\ Status(a) = "rejected" =>
         Status(a)' = "rejected" /\ executing'[a] = "no"
    /\ Status(a) \in {"approved", "executed"} => Status(a)' # "rejected"

DecidedIsFinal == [][KeepsDecision]_vars

\* However many approvals name one target and whatever is retried or paid
\* directly beside them, the target is posted or paid once
\* (ledger/approvals.go:82-125).
DoneOnce == \A t \in Target : done[t] <= 1

\* An approval marked executed has its target posted or paid, also when the
\* draft was deleted or posted by another way between sign-off and execution
\* (ledger/approvals.go:90-107).
ExecutedIsDone ==
  \A a \in Approval : Status(a) = "executed" => done[approval[a].target] > 0

\* ledger/approvals.go:60 and :79 say a failed execution leaves the approval
\* approved and retryable: an approved target that can still be posted or paid
\* is posted or paid in the end.
ApprovedIsExecuted ==
  \A a \in Approval, t \in Target :
    Status(a) = "approved" /\ approval[a].target = t
      ~> done[t] > 0 \/ t \in deleted

\* An approval acts once, and says so only when it has (executeApproval).
ApprovalActsOnce == DoneOnce /\ ExecutedIsDone

\* A target goes out once, and only as its signatures allow.
ApprovalsSound == DualControl /\ ApprovalActsOnce
=============================================================================
