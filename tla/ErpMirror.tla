----------------------------- MODULE ErpMirror -----------------------------
(***************************************************************************)
(* The mirror of HR's employees, leave balances and leave requests         *)
(* (consumer/erp.go, repository/payroll_erp.go,                            *)
(* repository/payroll_leave_valuation.go), kept from a topic that delivers *)
(* at least once: a worker that lost its partition finishes the event it   *)
(* had, and its successor starts again at the committed offset.  HR        *)
(* publishes in any order of its events' times.  An employee's row is      *)
(* guarded by the time of the event it came from; a balance, or a rate,    *)
(* which is kept in the same way, is not.                                  *)
(***************************************************************************)
EXTENDS Integers, Sequences, SequencesExt, FiniteSetsExt

CONSTANTS
  Event,    \* of one employee: id, type, time, status; time 0: it has none
  Worker,
  Nobody,
  MaxLog,   \* bound: events HR publishes
  MaxTakes  \* bound: changes of the partition's owner

EmployeeTypes == {"created", "updated", "terminated"}

VARIABLES
  log,       \* the events as HR published them
  committed, \* the offset of the consumer group
  owner, takes,
  worker,    \* each worker's step and offset
  employee,  \* the row of one employee: status, last_event_at, its event
  balance,   \* the event the leave balance came from; 0: none
  accruals,  \* payroll_leave_accruals: how many rows each event has
  late       \* ghost: a balance was written by a worker without the partition

vars == << log, committed, owner, takes, worker, employee, balance, accruals, late >>

NoRow == [status |-> "none", at |-> 0, from |-> 0]
Out == [at |-> "out", offset |-> 0]

Now == 1 + Max({0} \cup { log[i].time : i \in DOMAIN log })

Init ==
  /\ log = << >> /\ committed = 0
  /\ owner = Nobody /\ takes = 0
  /\ worker = [w \in Worker |-> Out]
  /\ employee = NoRow /\ balance = 0
  /\ accruals = [e \in Event |-> 0]
  /\ late = FALSE

-----------------------------------------------------------------------------
(* The topic and its consumer group. *)

Publish(e) ==
  /\ Len(log) < MaxLog /\ e \notin ToSet(log)
  /\ log' = Append(log, e)
  /\ UNCHANGED << committed, owner, takes, worker, employee, balance, accruals, late >>

\* A rebalance, or a restart of the owner; one in the middle of an event
\* finishes it.
Take(w) ==
  /\ takes < MaxTakes /\ worker[w].at = "out"
  /\ takes' = takes + 1 /\ owner' = w
  /\ worker' = [v \in Worker |->
       CASE v = w -> [at |-> "fetch", offset |-> committed + 1]
         [] worker[v].at = "handle" -> worker[v]
         [] OTHER -> Out]
  /\ UNCHANGED << log, committed, employee, balance, accruals, late >>

Fetch(w) ==
  /\ worker[w].at = "fetch" /\ worker[w].offset <= Len(log)
  /\ worker' = [worker EXCEPT ![w].at = "handle"]
  /\ UNCHANGED << log, committed, owner, takes, employee, balance, accruals, late >>

Crash(w) ==
  /\ worker[w].at # "out"
  /\ worker' = [worker EXCEPT ![w] = Out]
  /\ owner' = IF owner = w THEN Nobody ELSE owner
  /\ UNCHANGED << log, committed, takes, employee, balance, accruals, late >>

-----------------------------------------------------------------------------
(* The handlers. *)

\* An event without a time is taken for one of this moment.
TimeOf(e) == IF e.time = 0 THEN Now ELSE e.time

\* Variant: the row is overwritten by whatever arrives.
AppliesAlways(e) == TRUE

\* ON CONFLICT ... WHERE EXCLUDED.last_event_at >= last_event_at.
Applies(e) == employee = NoRow \/ TimeOf(e) >= employee.at

StatusOf(e) ==
  IF e.type = "terminated" THEN "terminated"
  ELSE IF e.status = "" THEN "active" ELSE e.status

HandleEmployee(e) ==
  /\ e.type \in EmployeeTypes
  /\ employee' = IF Applies(e)
                 THEN [status |-> StatusOf(e), at |-> TimeOf(e), from |-> e.id]
                 ELSE employee
  /\ UNCHANGED << balance, accruals, late >>

\* UpsertLeaveBalance and UpsertEmployeeRate: the last write stands.
HandleBalance(w, e) ==
  /\ e.type = "balance"
  /\ balance' = e.id
  /\ late' = (late \/ owner # w)
  /\ UNCHANGED << employee, accruals >>

\* Variant: a redelivered request is recorded again.
RecordedAgain(e) == accruals[e] + 1

\* ON CONFLICT (source_event_id) DO NOTHING.
Recorded(e) == 1

HandleLeave(e) ==
  /\ e.type = "leave"
  /\ accruals' = [accruals EXCEPT ![e] = Recorded(e)]
  /\ UNCHANGED << employee, balance, late >>

Effect(w, e) == HandleEmployee(e) \/ HandleBalance(w, e) \/ HandleLeave(e)

Handle(w) ==
  /\ worker[w].at = "handle"
  /\ Effect(w, log[worker[w].offset])
  /\ worker' = [worker EXCEPT ![w].at = IF owner = w THEN "commit" ELSE "out"]
  /\ UNCHANGED << log, committed, owner, takes >>

\* Variant: the first of a batch is committed for all of it.
CommittedAhead(w) == Len(log)

Committed(w) == worker[w].offset

\* Only the owner's commit is taken; one that fails is made good by the next.
Commit(w) ==
  /\ worker[w].at = "commit"
  /\ committed' \in { committed, Committed(w) }
  /\ worker' = [worker EXCEPT ![w] = [at |-> "fetch", offset |-> @.offset + 1]]
  /\ UNCHANGED << log, owner, takes, employee, balance, accruals, late >>

Next ==
  \/ \E e \in Event : Publish(e)
  \/ \E w \in Worker : Take(w) \/ Fetch(w) \/ Handle(w) \/ Commit(w) \/ Crash(w)

Spec == Init /\ [][Next]_vars

-----------------------------------------------------------------------------
(* Properties. *)

DoneOf(types) == { i \in 1 .. committed : log[i].type \in types }

\* "a stale/out-of-order event cannot overwrite newer state (e.g. resurrect a
\* terminated employee)" (payroll_erp.go:48): whatever the order of the topic
\* and however often it delivers, the row is of no older an event than those
\* done, unless it is of one without a time.
EmployeeIsNewest ==
  \A i \in DoneOf(EmployeeTypes) :
    /\ employee # NoRow
    /\ \A e \in Event : e.id = employee.from /\ e.time # 0 => e.time >= log[i].time

\* A balance is never left older than what the group has committed, unless a
\* worker wrote it that had lost the partition: nothing but the order of the
\* topic guards it (UpsertLeaveBalance).
BalanceIsLast ==
  ~ late => \A i \in DoneOf({"balance"}) :
              \E j \in i .. Len(log) : log[j].id = balance

\* Every leave request done is recorded, and none twice
\* (RecordPayrollLeaveAccrual).
LeaveRecordedOnce ==
  /\ \A i \in DoneOf({"leave"}) : accruals[log[i]] = 1
  /\ \A e \in Event : accruals[e] <= 1

MirrorFollows ==
  EmployeeIsNewest /\ BalanceIsLast /\ LeaveRecordedOnce
=============================================================================
