---------------------------- MODULE PayrollRuns ----------------------------
(***************************************************************************)
(* Posting a finalized payroll run, or a stated leave provision: look the  *)
(* reference up, create a draft entry, post it, record the run             *)
(* (ledger/payroll.go, repository/payroll_runs.go).  The four steps are    *)
(* four transactions, asked for by the payroll API and by the consumer of  *)
(* erp.payroll.run_posted; the draft is an ordinary draft meanwhile, which *)
(* the ledger API can post or delete.                                      *)
(***************************************************************************)
EXTENDS Integers

CONSTANTS
  Ref,       \* run_ref or provision_ref
  Caller,    \* requests and consumers in flight
  NoRef,
  MaxFaults  \* bound on crashes and failed calls

VARIABLES
  entry,     \* the journal entry whose source_event_id is the reference
  recorded,  \* references with a row in payroll_runs
  call,      \* the step and reference of each caller
  shut,      \* the current month is closed
  faults

vars == << entry, recorded, call, shut, faults >>

Free == [at |-> "free", ref |-> NoRef]

Init ==
  /\ entry = [r \in Ref |-> "none"]
  /\ recorded = {}
  /\ call = [c \in Caller |-> Free]
  /\ shut = FALSE /\ faults = 0

Goto(c, step) == [call EXCEPT ![c].at = step]

-----------------------------------------------------------------------------
(* PostPayrollRun and PostLeaveProvision. *)

\* A request or a (re)delivered event for a reference.
Ask(c, r) ==
  /\ call[c] = Free
  /\ call' = [call EXCEPT ![c] = [at |-> "look", ref |-> r]]
  /\ UNCHANGED << entry, recorded, shut, faults >>

\* GetPayrollRunByRef: a run already recorded is returned.
Look(c) ==
  /\ call[c].at = "look"
  /\ call' = IF call[c].ref \in recorded THEN [call EXCEPT ![c] = Free]
                                         ELSE Goto(c, "create")
  /\ UNCHANGED << entry, recorded, shut, faults >>

\* Variant: a draft that exists already is taken over, also from a caller at
\* work.
CreateTakesOver(c) ==
  /\ call[c].at = "create"
  /\ LET r == call[c].ref
     IN  /\ entry' = [entry EXCEPT ![r] = IF @ = "none" THEN "draft" ELSE @]
         /\ call' = Goto(c, IF entry[r] = "posted" THEN "record" ELSE "post")
  /\ UNCHANGED << recorded, shut, faults >>

\* CreateJournalEntry: any entry with that source event, a draft included,
\* makes the insert fail on uq_journal_source_event and the call with it.
Create(c) ==
  /\ call[c].at = "create"
  /\ LET r == call[c].ref
     IN  IF entry[r] = "none"
           THEN /\ entry' = [entry EXCEPT ![r] = "draft"]
                /\ call' = Goto(c, "post")
           ELSE /\ call' = [call EXCEPT ![c] = Free]
                /\ UNCHANGED entry
  /\ UNCHANGED << recorded, shut, faults >>

\* Variant: the error of PostJournalEntry is dropped.
PostErrorDropped(c) ==
  /\ call[c].at = "post"
  /\ LET r == call[c].ref
     IN  entry' = IF entry[r] = "draft" /\ ~ shut
                    THEN [entry EXCEPT ![r] = "posted"] ELSE entry
  /\ call' = Goto(c, "record")
  /\ UNCHANGED << recorded, shut, faults >>

\* PostJournalEntry: the entry is dated today, so a closed month refuses it;
\* so does an entry that is no draft any more.
Post(c) ==
  /\ call[c].at = "post"
  /\ LET r == call[c].ref
     IN  IF entry[r] = "draft" /\ ~ shut
           THEN /\ entry' = [entry EXCEPT ![r] = "posted"]
                /\ call' = Goto(c, "record")
           ELSE /\ call' = [call EXCEPT ![c] = Free]
                /\ UNCHANGED entry
  /\ UNCHANGED << recorded, shut, faults >>

\* RecordPayrollRun: run_ref is unique, so a second row is refused.
Record(c) ==
  /\ call[c].at = "record"
  /\ recorded' = recorded \cup {call[c].ref}
  /\ call' = [call EXCEPT ![c] = Free]
  /\ UNCHANGED << entry, shut, faults >>

\* A step fails for another reason, or the replica stops.
CallFails(c) ==
  /\ call[c] # Free
  /\ faults < MaxFaults /\ faults' = faults + 1
  /\ call' = [call EXCEPT ![c] = Free]
  /\ UNCHANGED << entry, recorded, shut >>

-----------------------------------------------------------------------------
(* The ledger API and the calendar. *)

PostByHand(r) ==
  /\ entry[r] = "draft" /\ ~ shut
  /\ entry' = [entry EXCEPT ![r] = "posted"]
  /\ UNCHANGED << recorded, call, shut, faults >>

DeleteDraft(r) ==
  /\ entry[r] = "draft"
  /\ entry' = [entry EXCEPT ![r] = "none"]
  /\ UNCHANGED << recorded, call, shut, faults >>

CloseOrReopen ==
  /\ shut' = ~ shut
  /\ UNCHANGED << entry, recorded, call, faults >>

Advance(c) == Look(c) \/ Create(c) \/ Post(c) \/ Record(c)

Posting ==
  \E c \in Caller :
    (\E r \in Ref : Ask(c, r)) \/ Advance(c) \/ CallFails(c)

Next ==
  \/ Posting
  \/ \E r \in Ref : PostByHand(r) \/ DeleteDraft(r)
  \/ CloseOrReopen

Spec == Init /\ [][Next]_vars

\* Callers only, in an open month: every call ends, and every reference is
\* asked for again and again.
Retried ==
  /\ Init /\ [][Posting]_vars
  /\ \A c \in Caller :
       WF_vars(Advance(c)) /\ \A r \in Ref : SF_vars(Ask(c, r))

-----------------------------------------------------------------------------
(* Properties. *)

\* A recorded run has its posted entry: whatever a colleague deletes or posts
\* by hand between the steps, and however two callers race, no run is shown
\* as posted that the ledger does not carry (ledger/payroll.go:108-142).
RecordedIsPosted == \A r \in recorded : entry[r] = "posted"

\* A caller that gets as far as recording is the only one to get there: the
\* unique source event keeps two callers past the lookup from both booking
\* (ledger/payroll.go:70-75, 106-118).
OneCallerRecords ==
  \A c, d \in Caller :
    /\ call[c].at = "record" /\ call[d].at = "record"
    /\ call[c].ref = call[d].ref
    => c = d

\* ledger/payroll.go:54-55 says "posting the same run twice returns the
\* existing record", so a run that is asked for again and again is recorded.
RunIsRecorded ==
  \A r \in Ref : (\E c \in Caller : call[c].ref = r) ~> r \in recorded

\* A payroll run and its entry belong together, one to one (PostPayrollRun).
RunPostedOnce == RecordedIsPosted /\ OneCallerRecords
=============================================================================
