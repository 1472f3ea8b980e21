--------------------------- MODULE DeliveryProofs ---------------------------
(* The safety part of the refinement of BookOnce by the relay and the        *)
(* consumer together, for every instance.  The types of the two components   *)
(* are those RelayProofs and ConsumerProofs show each of them to keep.       *)
EXTENDS EventDelivery, TLAPS

RP == INSTANCE RelayProofs
CP == INSTANCE ConsumerProofs WITH FreshGroup <- FALSE, MaxLog <- 0

\* Only a committed row has been attempted, and only committed rows have
\* reached the topic.
Travels ==
  /\ \A e \in Event \ stored : attempts[e] = 0
  /\ \A i \in 1 .. Len(log) : log[i] \in stored

DeliveryInv == RP!RelayTypeOK /\ CP!ConsumerTypeOK /\ Travels

LEMMA Assumptions == RP!RelayAssumption /\ CP!ConsumerAssumption
BY DeliveryAssumption
   DEF RP!RelayAssumption, CP!ConsumerAssumption, Relay!RelayAssumption,
       Group!ConsumerAssumption

\* The actions RelayProofs is about are those of the pipeline's relay.
LEMMA SameRelay == Relay!RelayNext => RP!RelayNext
<1>1. ASSUME NEW e \in Event
      PROVE  /\ Relay!BeginTx(e) => RP!BeginTx(e)
             /\ Relay!CommitTx(e) => RP!CommitTx(e)
  BY DEF Relay!BeginTx, RP!BeginTx, Relay!CommitTx, RP!CommitTx,
         Relay!Cardinality, RP!Cardinality
<1>2. ASSUME NEW r \in Replica
      PROVE  /\ Relay!TryLock(r) => RP!TryLock(r)
             /\ Relay!Fetch(r) => RP!Fetch(r)
             /\ Relay!Unlock(r) => RP!Unlock(r)
             /\ Relay!RelayCrash(r) => RP!RelayCrash(r)
             /\ Relay!LockLost(r) => RP!LockLost(r)
  BY DEF Relay!TryLock, RP!TryLock, Relay!Fetch, RP!Fetch, Relay!FirstBatch,
         RP!FirstBatch, Relay!Cardinality, RP!Cardinality, Relay!Due, RP!Due, Relay!Unlock, RP!Unlock,
         Relay!RelayCrash, RP!RelayCrash, Relay!LockLost, RP!LockLost,
         Relay!Goto, RP!Goto, Relay!NoPass, RP!NoPass,
         Relay!Fault, RP!Fault, Relay!NoFault, RP!NoFault
<1>3. ASSUME NEW r \in Replica
      PROVE  /\ Relay!Publish(r) => RP!Publish(r)
             /\ Relay!PublishFails(r) => RP!PublishFails(r)
             /\ Relay!PublishAckLost(r) => RP!PublishAckLost(r)
  BY DEF Relay!Publish, RP!Publish, Relay!PublishFails, RP!PublishFails,
         Relay!PublishAckLost, RP!PublishAckLost, Relay!Goto, RP!Goto,
         Relay!Current, RP!Current, Relay!Fault, RP!Fault,
         Relay!NoFault, RP!NoFault
<1>4. ASSUME NEW r \in Replica
      PROVE  /\ Relay!MarkOutboxPublished(r) => RP!MarkOutboxPublished(r)
             /\ Relay!MarkOutboxFailed(r) => RP!MarkOutboxFailed(r)
             /\ Relay!MarkIsLost(r) => RP!MarkIsLost(r)
  BY DEF Relay!MarkOutboxPublished, RP!MarkOutboxPublished,
         Relay!MarkOutboxFailed, RP!MarkOutboxFailed,
         Relay!MarkIsLost, RP!MarkIsLost, Relay!NextRow, RP!NextRow,
         Relay!Current, RP!Current, Relay!Fault, RP!Fault,
         Relay!NoFault, RP!NoFault
<1>5. QED
  BY <1>1, <1>2, <1>3, <1>4 DEF Relay!RelayNext, RP!RelayNext

\* Nor are those of the consumer any other.
LEMMA SameGroup == Group!ConsumerNext => CP!ConsumerNext
BY DEF Group!ConsumerNext, CP!ConsumerNext, Group!MemberNext, CP!MemberNext,
       Group!ReaderStep, CP!ReaderStep, Group!CloseOrReopen, CP!CloseOrReopen,
       Group!Assign, CP!Assign, Group!ConsumerCrash, CP!ConsumerCrash,
       Group!FetchMessage, CP!FetchMessage, Group!Ignore, CP!Ignore,
       Group!Reject, CP!Reject, Group!ResolveWindow, CP!ResolveWindow,
       Group!CheckProcessed, CP!CheckProcessed,
       Group!InsertEntry, CP!InsertEntry,
       Group!InsertDuplicate, CP!InsertDuplicate,
       Group!Link, CP!Link, Group!LinkFails, CP!LinkFails,
       Group!HandlerFails, CP!HandlerFails, Group!ToDLQ, CP!ToDLQ,
       Group!ToDLQFails, CP!ToDLQFails, Group!Commit, CP!Commit,
       Group!CommitFails, CP!CommitFails, Group!Goto, CP!Goto,
       Group!Retry, CP!Retry, Group!Held, CP!Held,
       Group!Fault, CP!Fault, Group!NoFault, CP!NoFault

-----------------------------------------------------------------------------
(* The invariant. *)

\* Which row a pass is at, in the names of either module.
LEMMA RowIsStored ==
  ASSUME RP!RelayTypeOK, NEW r \in Replica, relay[r].batch # {}
  PROVE  /\ Relay!Current(r) \in stored
         /\ Relay!Current(r) \in Event
<1>1. RP!Current(r) \in relay[r].batch /\ RP!Current(r) \in Event
  BY RP!CurrentInBatch, Assumptions
<1>2. Relay!Current(r) = RP!Current(r)
  BY DEF Relay!Current, RP!Current
<1>3. QED
  BY <1>1, <1>2 DEF RP!RelayTypeOK

\* What a step of the relay appends to the topic is a committed row.
LEMMA RelayAppends ==
  ASSUME RP!RelayTypeOK, Relay!RelayNext
  PROVE  \/ log' = log
         \/ \E e \in stored : e \in Event /\ log' = Append(log, e)
<1>1. ASSUME NEW r \in Replica, Relay!Publish(r) \/ Relay!PublishAckLost(r)
      PROVE  \E e \in stored : e \in Event /\ log' = Append(log, e)
  BY <1>1, RowIsStored DEF Relay!Publish, Relay!PublishAckLost
<1>2. QED
  BY <1>1
     DEF Relay!RelayNext, Relay!BeginTx, Relay!CommitTx, Relay!TryLock,
         Relay!Fetch, Relay!PublishFails, Relay!MarkOutboxPublished,
         Relay!MarkOutboxFailed, Relay!MarkIsLost, Relay!Unlock,
         Relay!RelayCrash, Relay!LockLost

LEMMA RelayStepKeeps ==
  ASSUME DeliveryInv, Relay!RelayNext, UNCHANGED group
  PROVE  DeliveryInv'
<1>1. RP!RelayTypeOK'
  BY SameRelay, RP!RelayTypeStep, Assumptions DEF DeliveryInv
<1>2. /\ log \in Seq(Event) /\ log' \in Seq(Event)
      /\ Len(log) \in Nat /\ Len(log') \in Nat /\ Len(log) <= Len(log')
      /\ \A i \in 1 .. Len(log') : log'[i] \in stored
  <2>1. log \in Seq(Event) /\ \A i \in 1 .. Len(log) : log[i] \in stored
    BY DEF DeliveryInv, RP!RelayTypeOK, Travels
  <2>2. CASE log' = log
    BY <2>1, <2>2
  <2>3. ASSUME NEW e \in stored, e \in Event, log' = Append(log, e)
        PROVE  /\ log' \in Seq(Event) /\ Len(log') = Len(log) + 1
               /\ \A i \in 1 .. Len(log') : log'[i] \in stored
    BY <2>1, <2>3
  <2>4. QED
    BY <2>1, <2>2, <2>3, RelayAppends DEF DeliveryInv
<1>3. faults' \in Nat
  BY <1>1 DEF RP!RelayTypeOK
<1>4. CP!ConsumerTypeOK'
  BY <1>2, <1>3
     DEF DeliveryInv, group, CP!ConsumerTypeOK, CP!Reader, CP!Step
<1>5. stored \subseteq stored' /\ \A e \in Event \ stored' : attempts'[e] = 0
  <2>1. ASSUME NEW r \in Replica, Relay!MarkOutboxFailed(r)
        PROVE  /\ stored' = stored
               /\ \A e \in Event \ stored : attempts'[e] = attempts[e]
    <3>1. Relay!Current(r) \in stored
      BY <2>1, RowIsStored DEF Relay!MarkOutboxFailed, DeliveryInv, RP!RelayTypeOK
    <3>2. QED
      BY <2>1, <3>1
         DEF Relay!MarkOutboxFailed, DeliveryInv, RP!RelayTypeOK
  <2>2. CASE attempts' = attempts /\ stored \subseteq stored'
    BY <2>2 DEF DeliveryInv, Travels
  <2>3. QED
    BY <2>1, <2>2
       DEF Relay!RelayNext, Relay!BeginTx, Relay!CommitTx, Relay!TryLock,
           Relay!Fetch, Relay!Publish, Relay!PublishFails, Relay!PublishAckLost,
           Relay!MarkOutboxPublished, Relay!MarkIsLost, Relay!Unlock,
           Relay!RelayCrash, Relay!LockLost, DeliveryInv, Travels
<1>6. QED
  BY <1>1, <1>2, <1>4, <1>5 DEF DeliveryInv, Travels

LEMMA GroupFaults ==
  ASSUME Group!ConsumerNext
  PROVE  /\ log' = log
         /\ faults \in Nat => faults' \in Nat
BY DEF Group!ConsumerNext, Group!MemberNext, Group!ReaderStep,
       Group!CloseOrReopen, Group!Assign, Group!ConsumerCrash,
       Group!FetchMessage, Group!Ignore, Group!Reject, Group!ResolveWindow,
       Group!CheckProcessed, Group!InsertEntry, Group!InsertDuplicate,
       Group!Link, Group!LinkFails, Group!HandlerFails, Group!ToDLQ,
       Group!ToDLQFails, Group!Commit, Group!CommitFails,
       Group!Fault, Group!NoFault

LEMMA GroupStepKeeps ==
  ASSUME DeliveryInv, Group!ConsumerNext, UNCHANGED outbox
  PROVE  DeliveryInv'
<1>1. CP!ConsumerTypeOK'
  BY SameGroup, CP!ConsumerTypeStep, Assumptions DEF DeliveryInv, CP!ConsumerStep
<1>2. log' = log /\ faults' \in Nat
  BY GroupFaults DEF DeliveryInv, RP!RelayTypeOK
<1>3. RP!Begun' = RP!Begun /\ RP!Busy' = RP!Busy
  BY DEF outbox, RP!Begun, RP!Busy
<1>4. RP!RelayTypeOK'
  BY <1>2, <1>3 DEF outbox, DeliveryInv, RP!RelayTypeOK
<1>5. QED
  BY <1>1, <1>2, <1>4 DEF outbox, DeliveryInv, Travels

LEMMA DeliveryInvariant == Safety => []DeliveryInv
<1>1. Init => DeliveryInv
  <2> SUFFICES ASSUME Init PROVE DeliveryInv
    OBVIOUS
  <2>1. RP!RelayTypeOK
    <3>1. RP!Init
      BY DEF Init, Relay!RelayInit, Relay!NoPass, RP!Init, RP!RelayInit,
             RP!NoPass
    <3>2. QED
      BY <3>1, RP!RelayTypeInit, Assumptions
  <2>2. CP!ConsumerTypeOK
    <3>1. CP!Init
      BY DEF Init, Group!ConsumerInit, CP!Init, CP!ConsumerInit
    <3>2. QED
      BY <3>1, CP!ConsumerTypeInit, Assumptions
  <2>3. Travels
    BY DEF Init, Relay!RelayInit, Travels
  <2>4. QED
    BY <2>1, <2>2, <2>3 DEF DeliveryInv
<1>2. DeliveryInv /\ [Next]_vars => DeliveryInv'
  <2>1. CASE UNCHANGED vars
    <3>1. RP!Begun' = RP!Begun /\ RP!Busy' = RP!Busy
      BY <2>1 DEF vars, outbox, RP!Begun, RP!Busy
    <3>2. QED
      BY <2>1, <3>1
         DEF vars, outbox, group, DeliveryInv, Travels, RP!RelayTypeOK,
             CP!ConsumerTypeOK
  <2>2. QED
    BY <2>1, RelayStepKeeps, GroupStepKeeps DEF Next
<1>3. QED
  BY <1>1, <1>2, PTL DEF Safety

-----------------------------------------------------------------------------
(* The refinement. *)

GivenUp == Exhausted \cup dlq \cup dropped

\* Giving up one event, perhaps again, is a step of BookOnce or none.
LEMMA GivesUp ==
  ASSUME NEW e \in Event, e \in stored, stored' = stored, booked' = booked,
         GivenUp' = GivenUp \/ GivenUp' = GivenUp \cup {e}
  PROVE  [Promise!Next]_(Promise!vars)
<1>1. CASE GivenUp' = GivenUp
  BY <1>1 DEF GivenUp, Promise!vars
<1>2. CASE GivenUp' = GivenUp \cup {e} /\ e \notin GivenUp
  BY <1>2 DEF GivenUp, Promise!Next, Promise!GiveUp
<1>3. QED
  BY <1>1, <1>2

LEMMA RelaySimulates ==
  ASSUME DeliveryInv, Relay!RelayNext, UNCHANGED group
  PROVE  [Promise!Next]_(Promise!vars)
<1>1. ASSUME NEW e \in Event, Relay!CommitTx(e)
      PROVE  [Promise!Next]_(Promise!vars)
  <2>1. attempts[e] = 0 /\ MaxAttempts \in Nat \ {0}
    BY <1>1, DeliveryAssumption
       DEF Relay!CommitTx, DeliveryInv, Travels, Relay!RelayAssumption
  <2>2. Exhausted' = Exhausted
    BY <1>1, <2>1 DEF Relay!CommitTx, Exhausted
  <2>3. QED
    BY <1>1, <2>2 DEF Relay!CommitTx, group, Promise!Next, Promise!Send
<1>2. ASSUME NEW r \in Replica, Relay!MarkOutboxFailed(r)
      PROVE  [Promise!Next]_(Promise!vars)
  <2>1. /\ Relay!Current(r) \in stored /\ Relay!Current(r) \in Event
        /\ attempts \in [Event -> Nat] /\ stored \subseteq Event
    BY <1>2, RowIsStored
       DEF Relay!MarkOutboxFailed, DeliveryInv, RP!RelayTypeOK, RP!Begun
  <2>2. /\ stored' = stored /\ dlq' = dlq /\ dropped' = dropped
        /\ booked' = booked
        /\ attempts' = [attempts EXCEPT ![Relay!Current(r)] = @ + 1]
    BY <1>2 DEF Relay!MarkOutboxFailed, group
  <2>3. MaxAttempts \in Nat
    BY DeliveryAssumption DEF Relay!RelayAssumption
  <2>4. \A e \in stored \ {Relay!Current(r)} : attempts'[e] = attempts[e]
    BY <2>1, <2>2
  <2>5. attempts'[Relay!Current(r)] >= attempts[Relay!Current(r)]
    BY <2>1, <2>2
  <2>6. \/ Exhausted' = Exhausted
        \/ Exhausted' = Exhausted \cup {Relay!Current(r)}
    <3>1. CASE attempts'[Relay!Current(r)] >= MaxAttempts
      BY <2>1, <2>2, <2>4, <3>1 DEF Exhausted
    <3>2. CASE ~ (attempts'[Relay!Current(r)] >= MaxAttempts)
      <4>1. ~ (attempts[Relay!Current(r)] >= MaxAttempts)
        BY <2>1, <2>2, <2>3, <3>2
      <4>2. QED
        BY <2>1, <2>2, <2>4, <3>2, <4>1 DEF Exhausted
    <3>3. QED
      BY <3>1, <3>2
  <2>7. GivenUp' = GivenUp \/ GivenUp' = GivenUp \cup {Relay!Current(r)}
    BY <2>2, <2>6 DEF GivenUp
  <2>8. QED
    BY <2>1, <2>2, <2>7, GivesUp
<1>3. CASE stored' = stored /\ attempts' = attempts
  BY <1>3 DEF group, Promise!vars, Exhausted
<1>4. QED
  BY <1>1, <1>2, <1>3
     DEF Relay!RelayNext, Relay!BeginTx, Relay!TryLock, Relay!Fetch,
         Relay!Publish, Relay!PublishFails, Relay!PublishAckLost,
         Relay!MarkOutboxPublished, Relay!MarkIsLost, Relay!Unlock,
         Relay!RelayCrash, Relay!LockLost

LEMMA GroupSimulates ==
  ASSUME DeliveryInv, Group!ConsumerNext, UNCHANGED outbox
  PROVE  [Promise!Next]_(Promise!vars)
<1>0. stored' = stored /\ attempts' = attempts /\ Exhausted' = Exhausted
  BY DEF outbox, Exhausted
<1>1. ASSUME NEW c \in Consumer, reader[c].at # "idle"
      PROVE  Group!Held(c) \in stored /\ Group!Held(c) \in Event
  BY <1>1, CP!HeldIsEvent, Assumptions
     DEF DeliveryInv, Travels, CP!ConsumerTypeOK, CP!Held, Group!Held
<1>2. ASSUME NEW c \in Consumer, Group!InsertEntry(c)
      PROVE  [Promise!Next]_(Promise!vars)
  <2>1. Group!Held(c) \in stored /\ Group!Held(c) \in Event
    BY <1>1, <1>2 DEF Group!InsertEntry
  <2>2. booked' = [booked EXCEPT ![Group!Held(c)] = 1]
    BY <1>2 DEF Group!InsertEntry
  <2>3. Promise!Book(Group!Held(c))
    BY <1>0, <1>2, <2>1, <2>2 DEF Group!InsertEntry, Promise!Book
  <2>4. QED
    BY <2>1, <2>3 DEF Promise!Next
<1>3. ASSUME NEW c \in Consumer, Group!ToDLQ(c) \/ Group!ToDLQFails(c)
      PROVE  [Promise!Next]_(Promise!vars)
  <2>1. Group!Held(c) \in stored /\ Group!Held(c) \in Event
    BY <1>1, <1>3 DEF Group!ToDLQ, Group!ToDLQFails
  <2>2. booked' = booked /\ GivenUp' = GivenUp \cup {Group!Held(c)}
    BY <1>0, <1>3 DEF Group!ToDLQ, Group!ToDLQFails, GivenUp
  <2>3. QED
    BY <1>0, <2>1, <2>2, GivesUp
<1>4. CASE booked' = booked /\ dlq' = dlq /\ dropped' = dropped
  BY <1>0, <1>4 DEF Promise!vars
<1>5. QED
  BY <1>2, <1>3, <1>4
     DEF Group!ConsumerNext, Group!MemberNext, Group!ReaderStep,
         Group!CloseOrReopen, Group!Assign, Group!ConsumerCrash,
         Group!FetchMessage, Group!Ignore, Group!Reject, Group!ResolveWindow,
         Group!CheckProcessed, Group!InsertDuplicate, Group!Link,
         Group!LinkFails, Group!HandlerFails, Group!Commit, Group!CommitFails

\* The safety part of PromiseKept: every step of the relay and the consumer is
\* a step of BookOnce or changes nothing it sees.  An event is booked once at
\* most, and only when its outbox row was committed; what is given up stays so
\* (docs/EVENT_CONTRACT.md:171-195).  That it is answered in the end is the
\* liveness TLC checks.
THEOREM DeliveryRefinesBookOnce ==
  Safety => Promise!Init /\ [][Promise!Next]_(Promise!vars)
<1>1. Init => Promise!Init
  BY DEF Init, Relay!RelayInit, Group!ConsumerInit, Promise!Init, Exhausted
<1>2. DeliveryInv /\ [Next]_vars => [Promise!Next]_(Promise!vars)
  <2>1. CASE UNCHANGED vars
    BY <2>1 DEF vars, outbox, group, Promise!vars, Exhausted
  <2>2. QED
    BY <2>1, RelaySimulates, GroupSimulates DEF Next
<1>3. QED
  BY <1>1, <1>2, DeliveryInvariant, PTL DEF Safety
=============================================================================
