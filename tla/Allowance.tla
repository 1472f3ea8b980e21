------------------------------ MODULE Allowance ------------------------------
(***************************************************************************)
(* The allowance for doubtful debts: the period's run that trues it up to  *)
(* the expected loss on open receivables, write-offs that use it, and      *)
(* recoveries (repository/provisions_ecl.go).  Target, allowance and what  *)
(* is owed are read before the transaction that books what follows from    *)
(* them.  Receivables are in the base currency.                            *)
(***************************************************************************)
EXTENDS Integers, FiniteSets, Functions

CONSTANTS
  Doc,        \* receivables
  Owed,       \* the amount of each
  Percent,    \* ecl_rates, by age from 0: percentages
  Period, Request,
  Reference,  \* of recoveries
  Sum         \* amounts recovered or paid

Age == 0 .. Cardinality(DOMAIN Percent) - 1

AllowanceAssumption ==
  /\ IsFiniteSet(Doc) /\ Owed \in [Doc -> Nat]
  /\ Percent \in [Age -> Nat] /\ 0 \in Age
  /\ IsFiniteSet(Period) /\ Sum \subseteq Nat

VARIABLES
  item,       \* ar_open_items: what is not paid, the age bucket, if closed
  allowance,  \* balance of account 1190, credit side
  runs,       \* ar_provisions: if a period has its row, and its movement
  writeoffs,  \* ar_writeoffs: what was written off, covered and recovered
  events,     \* processed source events
  request,    \* what each request has read
  stale       \* something was booked from a reading that no longer held

vars == << item, allowance, runs, writeoffs, events, request, stale >>

NotRun == [done |-> FALSE, movement |-> 0]
Idle == [at |-> "idle", period |-> 0, doc |-> 0, target |-> 0, read |-> 0,
         open |-> 0]

Init ==
  /\ item = [d \in Doc |-> [open |-> Owed[d], age |-> 0, closed |-> FALSE]]
  /\ allowance = 0
  /\ runs = [p \in Period |-> NotRun]
  /\ writeoffs = [d \in Doc |-> [amount |-> 0, covered |-> 0, recovered |-> 0]]
  /\ events = {}
  /\ request = [r \in Request |-> Idle]
  /\ stale = FALSE

-----------------------------------------------------------------------------

Lesser(x, y) == IF x < y THEN x ELSE y
AtLeastZero(x) == IF x < 0 THEN 0 ELSE x

\* The calendar moves a receivable into an older bucket.
GrowOld(d) ==
  /\ item[d].age + 1 \in Age
  /\ item' = [item EXCEPT ![d].age = @ + 1]
  /\ UNCHANGED << allowance, runs, writeoffs, events, request, stale >>

\* A payment, as OpenItems has it: an item written off is open again if it is
\* paid in part.
Pay(d, x) ==
  /\ x <= item[d].open
  /\ item' = [item EXCEPT ![d].open = @ - x, ![d].closed = (item[d].open = x)]
  /\ UNCHANGED << allowance, runs, writeoffs, events, request, stale >>

\* eclTarget: every open item times the rate of its age.
Loss(d) == (item[d].open * Percent[item[d].age]) \div 100
Target == SumFunction([d \in Doc |-> IF item[d].closed THEN 0 ELSE Loss(d)])

ReadTarget(r, p) ==
  /\ request[r].at = "idle"
  /\ request' = [request EXCEPT ![r] =
       [at |-> "allowance", period |-> p, doc |-> 0, target |-> Target,
        read |-> 0, open |-> 0]]
  /\ UNCHANGED << item, allowance, runs, writeoffs, events, stale >>

Movement(r) == request[r].target - request[r].read

ReadAllowance(r) ==
  /\ request[r].at = "allowance"
  /\ request' = [request EXCEPT ![r].at = "provide", ![r].read = allowance]
  /\ UNCHANGED << item, allowance, runs, writeoffs, events, stale >>

\* Variant: nobody looks whether the event was processed.
ProcessedNever(e) == FALSE

Processed(e) == e \in events

\* The row of a period that has one is left alone.
Recorded(p, x) ==
  IF runs[p].done THEN runs
  ELSE [runs EXCEPT ![p] = [done |-> TRUE, movement |-> x]]

\* BookECLProvision: without a movement only the run is recorded, and the
\* period stays open for a run that has one, whose record is then a conflict.
Provide(r) ==
  LET p == request[r].period
      e == << "ecl", p >>
  IN  /\ request[r].at = "provide"
      /\ IF Movement(r) = 0
           THEN /\ runs' = Recorded(p, 0)
                /\ UNCHANGED << allowance, events, stale >>
         ELSE IF Processed(e)
           THEN UNCHANGED << runs, allowance, events, stale >>
         ELSE /\ runs' = Recorded(p, Movement(r))
              /\ allowance' = allowance + Movement(r)
              /\ events' = events \cup {e}
              /\ stale' = (stale \/ request[r].read # allowance)
      /\ request' = [request EXCEPT ![r] = Idle]
      /\ UNCHANGED << item, writeoffs >>

\* WriteOffReceivable: its reads.  It looks at no status.
ReadWriteOff(r, d) ==
  /\ request[r].at = "idle" /\ item[d].open > 0
  /\ request' = [request EXCEPT ![r] =
       [at |-> "writeoff", period |-> 0, doc |-> d, target |-> 0,
        read |-> allowance, open |-> item[d].open]]
  /\ UNCHANGED << item, allowance, runs, writeoffs, events, stale >>

\* Variant: all of it is taken from the allowance.
CoveredWhole(r) == request[r].open

Covered(r) == Lesser(request[r].open, AtLeastZero(request[r].read))

\* The write-off's transaction; its row is unique by document like its event.
WriteOff(r) ==
  LET d == request[r].doc
      e == << "writeoff", d >>
  IN  /\ request[r].at = "writeoff"
      /\ IF Processed(e)
           THEN UNCHANGED << item, allowance, writeoffs, events, stale >>
           ELSE /\ events' = events \cup {e}
                /\ allowance' = allowance - Covered(r)
                /\ item' = [item EXCEPT ![d].closed = TRUE]
                /\ writeoffs' = [writeoffs EXCEPT ![d].amount = request[r].open,
                                                  ![d].covered = Covered(r)]
                /\ stale' = (stale \/ request[r].read # allowance)
      /\ request' = [request EXCEPT ![r] = Idle]
      /\ UNCHANGED runs

\* RecoverWrittenOff, once for a reference, whatever document it names.
Recover(d, ref, x) ==
  LET e == << "recovery", ref >>
  IN  /\ writeoffs[d].amount > 0 /\ e \notin events
      /\ events' = events \cup {e}
      /\ writeoffs' = [writeoffs EXCEPT ![d].recovered = @ + x]
      /\ UNCHANGED << item, allowance, runs, request, stale >>

\* A read or the booking fails: nothing was done.
RequestFails(r) ==
  /\ request[r].at # "idle"
  /\ request' = [request EXCEPT ![r] = Idle]
  /\ UNCHANGED << item, allowance, runs, writeoffs, events, stale >>

Next ==
  \/ \E d \in Doc :
       \/ GrowOld(d) \/ \E x \in Sum : Pay(d, x)
       \/ \E x \in Sum, ref \in Reference : Recover(d, ref, x)
  \/ \E r \in Request :
       \/ \E p \in Period : ReadTarget(r, p)
       \/ \E d \in Doc : ReadWriteOff(r, d)
       \/ ReadAllowance(r) \/ Provide(r) \/ WriteOff(r) \/ RequestFails(r)

Spec == Init /\ [][Next]_vars

-----------------------------------------------------------------------------
(* Properties. *)

\* Write-offs use up no more allowance than there is, however they alternate
\* with the runs that raise and release it, unless one was decided on a balance
\* that had changed (WriteOffReceivable: the allowance first, the rest is an
\* expense).
AllowanceNotOverdrawn == ~ stale => allowance >= 0

RunMovements == SumFunction([p \in Period |-> runs[p].movement])
Covers == SumFunction([d \in Doc |-> writeoffs[d].covered])

\* db/migrations/047_ifrs9_ecl.sql: the movement of a period's row is
\* what was actually booked.  A period with an entry has its movement recorded.
RunIsRecorded == \A p \in Period : << "ecl", p >> \in events => runs[p].movement # 0

\* The allowance is what the recorded runs put on it less what the recorded
\* write-offs took, whatever is run again or races, unless a period's run was
\* recorded without movement before one was booked.
RecordsTieToAllowance ==
  RunIsRecorded =>
    allowance = RunMovements - Covers

\* The allowance is backed by its records and never overdrawn
\* (RunECLProvision, WriteOffReceivable).
AllowanceTies == AllowanceNotOverdrawn /\ RecordsTieToAllowance
=============================================================================
