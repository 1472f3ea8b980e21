---------------------------- MODULE RelayProofs ----------------------------
(* Theorems about OutboxRelay for every set of events and replicas, batch    *)
(* size, attempts cap and number of faults.                                  *)
EXTENDS OutboxRelay, FiniteInduction

Begun == { e \in Event : created[e] > 0 }
Busy == { r \in Replica : relay[r].at # "idle" }

\* Only a replica in a pass has a batch or the job lock, and only a pass with
\* a row in hand has published it or failed to.
RelayTypeOK ==
  /\ created \in [Event -> Nat] /\ IsFiniteSet(Begun)
  /\ stored \subseteq Begun /\ published \subseteq Event
  /\ attempts \in [Event -> Nat]
  /\ holder \in Busy \cup {NoReplica}
  /\ relay \in [Replica -> Pass] /\ IsFiniteSet(Busy)
  /\ \A r \in Replica :
       /\ relay[r].batch \subseteq stored
       /\ relay[r].at \in {"idle", "fetch"} => relay[r].batch = {}
       /\ relay[r].at \in {"delivered", "failed"} => relay[r].batch # {}
  /\ log \in Seq(Event)
  /\ faults \in Nat

\* r still has e to publish in this pass.
Holds(r, e) ==
  /\ e \in relay[r].batch
  /\ relay[r].at = "publish" \/ e # Current(r)

Delivering(r, e) == relay[r].at = "delivered" /\ e = Current(r)

\* The passes that lost the lock and may still publish e.
Strays(e) ==
  { r \in Replica : r # holder /\ (relay[r].at = "fetch" \/ Holds(r, e)) }

\* With no further fault the lock holder, now or later, will publish e.
MayPublish(e) ==
  IF holder \in Replica /\ Holds(holder, e)
  THEN TRUE
  ELSE e \notin published /\ ~ (holder \in Replica /\ Delivering(holder, e))

Turn(e) == IF MayPublish(e) THEN 1 ELSE 0

\* Each fault pays for one copy, on the topic or yet to come.
Paid(e) == Copies(e) + Cardinality(Strays(e)) + Turn(e) <= 1 + faults

Acknowledged ==
  /\ PublishedIsInLog
  /\ \A r \in Replica : relay[r].at = "delivered" => InLog(Current(r))
RelayInv == Acknowledged /\ \A e \in Event : Paid(e)

-----------------------------------------------------------------------------
\* The row the loop is at belongs to the batch, and it stays the same as long
\* as the batch does: created_at of a stored row never changes.
LEMMA CurrentInBatch ==
  ASSUME RelayTypeOK, NEW r \in Replica, relay[r].batch # {}
  PROVE  Current(r) \in relay[r].batch /\ Current(r) \in Event
<1>1. relay[r].batch \subseteq Event
  BY DEF RelayTypeOK, Begun
<1>2. \A e \in relay[r].batch : created[e] \in Nat
  BY <1>1 DEF RelayTypeOK
<1>3. \E e \in relay[r].batch : \A f \in relay[r].batch : created[e] <= created[f]
  BY <1>2, LeastOf
<1>4. QED
  BY <1>1, <1>3 DEF Current

LEMMA CurrentKept ==
  ASSUME NEW r \in Replica, relay'[r].batch = relay[r].batch,
         \A e \in relay[r].batch : created'[e] = created[e]
  PROVE  Current(r)' = Current(r)
BY DEF Current

LEMMA RelayFaultTypes ==
  ASSUME RelayTypeOK, Fault \/ NoFault
  PROVE  faults' \in Nat /\ faults' >= faults
BY DEF RelayTypeOK, Fault, NoFault

\* A step that moves the pass of r alone, inside the pass.
LEMMA PassTypes ==
  ASSUME RelayTypeOK, NEW r \in Replica, relay[r].at # "idle",
         NEW p \in Pass, relay' = [relay EXCEPT ![r] = p],
         p.at # "idle", p.batch \subseteq stored,
         p.at = "fetch" => p.batch = {},
         p.at \in {"delivered", "failed"} => p.batch # {},
         stored' = stored, holder' = holder, created' = created,
         published' \subseteq Event, attempts' \in [Event -> Nat],
         log' \in Seq(Event), faults' \in Nat
  PROVE  RelayTypeOK'
<1>1. /\ relay' \in [Replica -> Pass] /\ relay'[r] = p
      /\ \A k \in Replica \ {r} : relay'[k] = relay[k]
  BY DEF RelayTypeOK
<1>2. Busy' = Busy
  BY <1>1 DEF Busy
<1>3. Begun' = Begun
  BY DEF Begun
<1>4. \A k \in Replica :
       /\ relay'[k].batch \subseteq stored
       /\ relay'[k].at \in {"idle", "fetch"} => relay'[k].batch = {}
       /\ relay'[k].at \in {"delivered", "failed"} => relay'[k].batch # {}
  <2>1. ASSUME NEW k \in Replica, k # r
        PROVE  relay'[k] = relay[k]
    BY <1>1, <2>1
  <2>2. QED
    BY <1>1, <2>1 DEF RelayTypeOK
<1>5. QED
  BY <1>1, <1>2, <1>3, <1>4 DEF RelayTypeOK

\* Goto, as the pass it makes.
LEMMA GotoPass ==
  ASSUME RelayTypeOK, NEW r \in Replica, NEW at \in At, Goto(r, at)
  PROVE  /\ [at |-> at, batch |-> relay[r].batch] \in Pass
         /\ relay' = [relay EXCEPT ![r] = [at |-> at, batch |-> relay[r].batch]]
<1>1. relay \in [Replica -> Pass] /\ relay[r] \in Pass
  BY DEF RelayTypeOK
<1>2. [at |-> at, batch |-> relay[r].batch] \in Pass
  BY <1>1 DEF Pass
<1>3. [relay[r] EXCEPT !.at = at] = [at |-> at, batch |-> relay[r].batch]
  BY <1>1 DEF Pass
<1>4. relay' = [relay EXCEPT ![r] = [relay[r] EXCEPT !.at = at]]
  BY <1>1 DEF Goto
<1>5. QED
  BY <1>2, <1>3, <1>4

\* Taking and giving up a pass.
LEMMA BusyGrows ==
  ASSUME RelayTypeOK, NEW r \in Replica, NEW p \in Pass,
         relay' = [relay EXCEPT ![r] = p]
  PROVE  /\ IsFiniteSet(Busy')
         /\ p.at = "idle" => Busy' = Busy \ {r}
         /\ p.at # "idle" => Busy' = Busy \cup {r}
         /\ relay' \in [Replica -> Pass] /\ relay'[r] = p
         /\ \A k \in Replica \ {r} : relay'[k] = relay[k]
<1>1. /\ relay' \in [Replica -> Pass] /\ relay'[r] = p
      /\ \A k \in Replica \ {r} : relay'[k] = relay[k]
  BY DEF RelayTypeOK
<1>2. Busy' \subseteq Busy \cup {r}
  BY <1>1 DEF Busy
<1>3. IsFiniteSet(Busy \cup {r})
  BY FS_AddElement DEF RelayTypeOK
<1>4. IsFiniteSet(Busy')
  BY <1>2, <1>3, FS_Subset
<1>5. QED
  BY <1>1, <1>4 DEF Busy

\* Every step keeps the outbox and the relays well formed.
LEMMA RelayTypeStep ==
  ASSUME RelayTypeOK, [RelayNext]_vars
  PROVE  RelayTypeOK'
<1>1. ASSUME NEW e \in Event, BeginTx(e) PROVE RelayTypeOK'
  <2>1. IsFiniteSet(Begun) /\ Cardinality(Begun) \in Nat
    BY FS_CardinalityType DEF RelayTypeOK
  <2>2. created' = [created EXCEPT ![e] = Cardinality(Begun) + 1]
    BY <1>1 DEF BeginTx, Begun
  <2>3. created' \in [Event -> Nat] /\ Begun' = Begun \cup {e}
    <3>1. created \in [Event -> Nat]
      BY DEF RelayTypeOK
    <3>2. created' \in [Event -> Nat]
      BY <2>1, <2>2, <3>1
    <3>3. created'[e] > 0 /\ \A f \in Event \ {e} : created'[f] = created[f]
      BY <2>1, <2>2, <3>1
    <3>4. QED
      BY <3>2, <3>3 DEF Begun
  <2>4. IsFiniteSet(Begun')
    <3>1. IsFiniteSet(Begun \cup {e})
      BY <2>1, FS_AddElement
    <3>2. QED
      BY <2>3, <3>1
  <2>5. Busy' = Busy
    BY <1>1 DEF BeginTx, Busy
  <2>6. stored' \subseteq Begun'
    BY <1>1, <2>3 DEF BeginTx, RelayTypeOK
  <2>7. QED
    BY <1>1, <2>3, <2>4, <2>5, <2>6 DEF BeginTx, RelayTypeOK
<1>2. ASSUME NEW e \in Event, CommitTx(e) PROVE RelayTypeOK'
  <2>1. Begun' = Begun /\ Busy' = Busy /\ e \in Begun
    BY <1>2 DEF CommitTx, Begun, Busy
  <2>2. QED
    BY <1>2, <2>1 DEF CommitTx, RelayTypeOK
<1>3. ASSUME NEW r \in Replica, TryLock(r) PROVE RelayTypeOK'
  <2>1. relay[r].batch = {} /\ NoReplica \notin Replica
    BY <1>3, RelayAssumption DEF TryLock, RelayTypeOK
  <2>2. /\ [at |-> "fetch", batch |-> {}] \in Pass
        /\ relay' = [relay EXCEPT ![r] = [at |-> "fetch", batch |-> {}]]
    BY <1>3, <2>1, GotoPass DEF TryLock, At
  <2>3. /\ relay'[r].at = "fetch" /\ relay'[r].batch = {}
        /\ relay' \in [Replica -> Pass]
        /\ \A k \in Replica \ {r} : relay'[k] = relay[k]
        /\ IsFiniteSet(Busy') /\ Busy' = Busy \cup {r}
    BY <2>2, BusyGrows
  <2>4. Begun' = Begun
    BY <1>3 DEF TryLock, Begun
  <2>5. \A k \in Replica :
         /\ relay'[k].batch \subseteq stored
         /\ relay'[k].at \in {"idle", "fetch"} => relay'[k].batch = {}
         /\ relay'[k].at \in {"delivered", "failed"} => relay'[k].batch # {}
    <3>1. ASSUME NEW k \in Replica, k # r
          PROVE  relay'[k] = relay[k]
      BY <2>3, <3>1
    <3>2. QED
      BY <2>3, <3>1 DEF RelayTypeOK
  <2>6. QED
    BY <1>3, <2>3, <2>4, <2>5, RelayFaultTypes DEF TryLock, RelayTypeOK
<1>4. ASSUME NEW r \in Replica, Fetch(r) PROVE RelayTypeOK'
  <2>1. FirstBatch \subseteq stored /\ stored \subseteq Event
    BY DEF FirstBatch, Due, RelayTypeOK, Begun
  <2>2. [at |-> "publish", batch |-> FirstBatch] \in Pass
    BY <2>1 DEF Pass, At
  <2>3. QED
    BY <1>4, <2>1, <2>2, PassTypes, RelayFaultTypes DEF Fetch, RelayTypeOK
<1>5. ASSUME NEW r \in Replica,
             \/ Publish(r) \/ PublishFails(r) \/ PublishAckLost(r)
      PROVE  RelayTypeOK'
  <2>1. /\ relay[r].at = "publish" /\ relay[r].batch # {}
        /\ Goto(r, "delivered") \/ Goto(r, "failed")
        /\ Fault \/ NoFault
        /\ log' = log \/ log' = Append(log, Current(r))
        /\ UNCHANGED << created, stored, published, attempts, holder >>
    BY <1>5 DEF Publish, PublishFails, PublishAckLost
  <2>2. log' \in Seq(Event)
    <3>1. Current(r) \in Event /\ log \in Seq(Event)
      BY <2>1, CurrentInBatch DEF RelayTypeOK
    <3>2. QED
      BY <2>1, <3>1
  <2>3. PICK at \in {"delivered", "failed"} : Goto(r, at)
    BY <2>1
  <2>4. /\ [at |-> at, batch |-> relay[r].batch] \in Pass
        /\ relay' = [relay EXCEPT ![r] = [at |-> at, batch |-> relay[r].batch]]
    BY <2>3, GotoPass DEF At
  <2>5. QED
    BY <2>1, <2>2, <2>3, <2>4, PassTypes, RelayFaultTypes DEF RelayTypeOK
<1>6. ASSUME NEW r \in Replica,
             \/ MarkOutboxPublished(r) \/ MarkOutboxFailed(r) \/ MarkIsLost(r)
      PROVE  RelayTypeOK'
  <2>1. /\ relay[r].at \in {"delivered", "failed"} /\ NextRow(r)
        /\ Fault \/ NoFault
        /\ \/ attempts' = attempts
           \/ attempts' = [attempts EXCEPT ![Current(r)] = @ + 1]
        /\ published' = published \/ published' = published \cup {Current(r)}
        /\ UNCHANGED << created, stored, log, holder >>
    BY <1>6 DEF MarkOutboxPublished, MarkOutboxFailed, MarkIsLost
  <2>2. relay[r].batch # {} /\ relay[r].batch \subseteq stored
    BY <2>1 DEF RelayTypeOK
  <2>3. published' \subseteq Event /\ attempts' \in [Event -> Nat]
    BY <2>1, <2>2, CurrentInBatch DEF RelayTypeOK
  <2>4. [at |-> "publish", batch |-> relay[r].batch \ {Current(r)}] \in Pass
    <3>1. relay[r].batch \ {Current(r)} \in SUBSET Event
      BY <2>2 DEF RelayTypeOK, Begun
    <3>2. QED
      BY <3>1 DEF Pass, At
  <2> DEFINE p == [at |-> "publish", batch |-> relay[r].batch \ {Current(r)}]
  <2>5. p \in Pass /\ p.at = "publish" /\ p.batch \subseteq stored
    BY <2>2, <2>4
  <2>6. relay' = [relay EXCEPT ![r] = p] /\ faults' \in Nat
    BY <2>1, RelayFaultTypes DEF NextRow
  <2>7. log' \in Seq(Event) /\ relay[r].at # "idle"
    BY <2>1 DEF RelayTypeOK
  <2> HIDE DEF p
  <2>8. QED
    BY <2>1, <2>3, <2>5, <2>6, <2>7, PassTypes
<1>7. ASSUME NEW r \in Replica, Unlock(r) \/ RelayCrash(r) PROVE RelayTypeOK'
  <2>1. /\ holder' = IF holder = r THEN NoReplica ELSE holder
        /\ relay' = [relay EXCEPT ![r] = NoPass]
        /\ Fault \/ NoFault
        /\ UNCHANGED << created, stored, published, attempts, log >>
    BY <1>7 DEF Unlock, RelayCrash
  <2>2. NoPass \in Pass /\ NoPass.at = "idle" /\ NoPass.batch = {}
    BY DEF NoPass, Pass, At
  <2>3. /\ relay'[r].at = "idle" /\ relay'[r].batch = {}
        /\ relay' \in [Replica -> Pass]
        /\ \A k \in Replica \ {r} : relay'[k] = relay[k]
        /\ IsFiniteSet(Busy') /\ Busy' = Busy \ {r}
    BY <2>1, <2>2, BusyGrows
  <2>4. Begun' = Begun
    BY <2>1 DEF Begun
  <2>5. \A k \in Replica :
         /\ relay'[k].batch \subseteq stored
         /\ relay'[k].at \in {"idle", "fetch"} => relay'[k].batch = {}
         /\ relay'[k].at \in {"delivered", "failed"} => relay'[k].batch # {}
    <3>1. ASSUME NEW k \in Replica, k # r
          PROVE  relay'[k] = relay[k]
      BY <2>3, <3>1
    <3>2. QED
      BY <2>3, <3>1 DEF RelayTypeOK
  <2>6. QED
    BY <2>1, <2>3, <2>4, <2>5, RelayFaultTypes DEF RelayTypeOK
<1>8. ASSUME NEW r \in Replica, LockLost(r) PROVE RelayTypeOK'
  <2>1. Busy' = Busy /\ Begun' = Begun
    BY <1>8 DEF LockLost, Busy, Begun
  <2>2. QED
    BY <1>8, <2>1, RelayFaultTypes DEF LockLost, RelayTypeOK
<1>9. CASE UNCHANGED vars
  <2>1. Busy' = Busy /\ Begun' = Begun
    BY <1>9 DEF vars, Busy, Begun
  <2>2. QED
    BY <1>9, <2>1 DEF vars, RelayTypeOK
<1>10. QED
  BY <1>1, <1>2, <1>3, <1>4, <1>5, <1>6, <1>7, <1>8, <1>9 DEF RelayNext

LEMMA RelayTypeInit == Init => RelayTypeOK
<1> SUFFICES ASSUME Init PROVE RelayTypeOK
  OBVIOUS
<1>1. /\ created = [e \in Event |-> 0] /\ stored = {} /\ published = {}
      /\ attempts = [e \in Event |-> 0] /\ holder = NoReplica
      /\ relay = [r \in Replica |-> NoPass]
      /\ log = << >> /\ faults = 0
  BY DEF Init, RelayInit
<1>2. Begun = {} /\ Busy = {}
  BY <1>1 DEF Begun, Busy, NoPass
<1>3. NoPass \in Pass /\ NoPass.batch = {} /\ NoPass.at = "idle"
  BY DEF NoPass, Pass, At
<1>4. relay \in [Replica -> Pass] /\ log \in Seq(Event)
  BY <1>1, <1>3
<1>5. QED
  BY <1>1, <1>2, <1>3, <1>4, FS_EmptySet DEF RelayTypeOK

\* The outbox and the relays are well formed in every reachable state.
THEOREM RelayTypeCorrect == RelaySpec => []RelayTypeOK
<1>1. Init => RelayTypeOK
  BY RelayTypeInit
<1>2. RelayTypeOK /\ [RelayNext]_vars => RelayTypeOK'
  BY RelayTypeStep
<1>3. QED
  BY <1>1, <1>2, PTL DEF RelaySpec

-----------------------------------------------------------------------------
(* A stamped row is on the topic. *)

\* What is on the topic stays there.
LEMMA InLogStays ==
  ASSUME RelayTypeOK, [RelayNext]_vars, NEW e \in Event, InLog(e)
  PROVE  InLog(e)'
<1>1. CASE log' = log
  BY <1>1 DEF InLog
<1>2. ASSUME NEW x \in Event, log' = Append(log, x) PROVE InLog(e)'
  <2>1. PICK i \in 1 .. Len(log) : log[i] = e
    BY DEF InLog
  <2>2. log \in Seq(Event) /\ Len(log) \in Nat
    BY DEF RelayTypeOK
  <2>3. i \in 1 .. Len(log') /\ log'[i] = e
    BY <1>2, <2>1, <2>2
  <2>4. QED
    BY <2>3 DEF InLog
<1>3. ASSUME NEW r \in Replica, Publish(r) \/ PublishAckLost(r)
      PROVE  Current(r) \in Event /\ log' = Append(log, Current(r))
  BY <1>3, CurrentInBatch DEF Publish, PublishAckLost
<1>4. QED
  BY <1>1, <1>2, <1>3
     DEF RelayNext, vars, BeginTx, CommitTx, TryLock, Fetch, PublishFails,
         MarkOutboxPublished, MarkOutboxFailed, MarkIsLost, Unlock,
         RelayCrash, LockLost

\* A pass that does not move keeps the row it is at.
LEMMA CurrentStays ==
  ASSUME RelayTypeOK, [RelayNext]_vars,
         NEW r \in Replica, relay'[r].batch = relay[r].batch
  PROVE  Current(r)' = Current(r)
<1>1. \A e \in relay[r].batch : created[e] > 0
  BY DEF RelayTypeOK, Begun
<1>2. ASSUME NEW f \in Event, BeginTx(f)
      PROVE  \A e \in relay[r].batch : created'[e] = created[e]
  <2>1. created \in [Event -> Nat] /\ relay[r].batch \subseteq Event
    BY DEF RelayTypeOK, Begun
  <2>2. f \notin relay[r].batch
    BY <1>1, <1>2 DEF BeginTx
  <2>3. QED
    BY <1>2, <2>1, <2>2 DEF BeginTx
<1>3. CASE created' = created
  BY <1>3, CurrentKept
<1>4. QED
  BY <1>2, <1>3, CurrentKept
     DEF RelayNext, vars, CommitTx, TryLock, Fetch, Publish, PublishFails,
         PublishAckLost, MarkOutboxPublished, MarkOutboxFailed, MarkIsLost,
         Unlock, RelayCrash, LockLost

\* Which replica a step moves, and how: the others stay where they are.
LEMMA PassMoves ==
  ASSUME RelayTypeOK, NEW r \in Replica, NEW p, relay' = [relay EXCEPT ![r] = p]
  PROVE  relay'[r] = p /\ \A k \in Replica \ {r} : relay'[k] = relay[k]
BY DEF RelayTypeOK

\* A pass only comes to "delivered" by a publish the broker acknowledged.
LEMMA DeliveredMoves ==
  ASSUME RelayTypeOK, [RelayNext]_vars, NEW r \in Replica,
         relay'[r].at = "delivered", relay'[r] # relay[r]
  PROVE  Publish(r)
<1>1. ASSUME NEW k \in Replica, NEW p,
             relay' = [relay EXCEPT ![k] = p], p.at # "delivered"
      PROVE  FALSE
  BY <1>1 DEF RelayTypeOK
<1>2. ASSUME NEW k \in Replica, Publish(k) PROVE Publish(r)
  BY <1>2 DEF Publish, Goto, RelayTypeOK
<1>3. ASSUME NEW k \in Replica,
             \/ TryLock(k) \/ PublishFails(k) \/ PublishAckLost(k)
      PROVE  FALSE
  <2>1. PICK at \in {"fetch", "failed"} : Goto(k, at)
    BY <1>3 DEF TryLock, PublishFails, PublishAckLost
  <2>2. relay' = [relay EXCEPT ![k] = [at |-> at, batch |-> relay[k].batch]]
    BY <2>1, GotoPass DEF At
  <2>3. QED
    BY <1>1, <2>2
<1>4. ASSUME NEW k \in Replica,
             \/ Fetch(k) \/ MarkOutboxPublished(k) \/ MarkOutboxFailed(k)
             \/ MarkIsLost(k) \/ Unlock(k) \/ RelayCrash(k)
      PROVE  FALSE
  <2>1. CASE Fetch(k)
    BY <1>1, <2>1 DEF Fetch
  <2>2. CASE MarkOutboxPublished(k) \/ MarkOutboxFailed(k) \/ MarkIsLost(k)
    <3>1. NextRow(k)
      BY <2>2 DEF MarkOutboxPublished, MarkOutboxFailed, MarkIsLost
    <3>2. PICK p : p.at = "publish" /\ relay' = [relay EXCEPT ![k] = p]
      BY <3>1 DEF NextRow
    <3>3. QED
      BY <1>1, <3>2
  <2>3. CASE Unlock(k) \/ RelayCrash(k)
    <3>1. relay' = [relay EXCEPT ![k] = NoPass]
      BY <2>3 DEF Unlock, RelayCrash
    <3>2. NoPass.at # "delivered"
      BY DEF NoPass
    <3>3. QED
      BY <1>1, <3>1, <3>2
  <2>4. QED
    BY <1>4, <2>1, <2>2, <2>3
<1>5. QED
  BY <1>2, <1>3, <1>4 DEF RelayNext, vars, BeginTx, CommitTx, LockLost

LEMMA AcknowledgedStep ==
  ASSUME RelayTypeOK, Acknowledged, [RelayNext]_vars
  PROVE  Acknowledged'
<1>1. ASSUME NEW e \in published' PROVE InLog(e)'
  <2>1. CASE e \in published
    BY <2>1, InLogStays DEF Acknowledged, PublishedIsInLog, RelayTypeOK
  <2>2. CASE e \notin published
    <3>1. PICK r \in Replica : MarkOutboxPublished(r)
      BY <1>1, <2>2
         DEF RelayNext, vars, BeginTx, CommitTx, TryLock, Fetch, Publish,
             PublishFails, PublishAckLost, MarkOutboxFailed, MarkIsLost,
             Unlock, RelayCrash, LockLost
    <3>2. e = Current(r) /\ relay[r].at = "delivered" /\ relay[r].batch # {}
      BY <1>1, <2>2, <3>1 DEF MarkOutboxPublished, RelayTypeOK
    <3>3. InLog(e) /\ e \in Event
      BY <3>2, CurrentInBatch DEF Acknowledged
    <3>4. QED
      BY <3>3, InLogStays
  <2>3. QED
    BY <2>1, <2>2
<1>2. ASSUME NEW r \in Replica, relay'[r].at = "delivered"
      PROVE  InLog(Current(r))'
  <2>1. CASE relay'[r] = relay[r]
    <3>1. InLog(Current(r)) /\ Current(r) \in Event
      BY <1>2, <2>1, CurrentInBatch DEF Acknowledged, RelayTypeOK
    <3>2. Current(r)' = Current(r)
      BY <2>1, CurrentStays
    <3>3. QED
      BY <3>1, <3>2, InLogStays DEF InLog
  <2>2. CASE relay'[r] # relay[r]
    <3>1. Publish(r)
      BY <1>2, <2>2, DeliveredMoves
    <3>2. Current(r) \in Event /\ log \in Seq(Event)
      BY <3>1, CurrentInBatch DEF Publish, RelayTypeOK
    <3>3. relay'[r].batch = relay[r].batch
      BY <3>1 DEF Publish, Goto, RelayTypeOK, Pass
    <3>4. Current(r)' = Current(r)
      BY <3>3, CurrentStays
    <3>5. log' = Append(log, Current(r))
      BY <3>1 DEF Publish
    <3>6. Len(log) + 1 \in 1 .. Len(log') /\ log'[Len(log) + 1] = Current(r)
      BY <3>2, <3>5
    <3>7. QED
      BY <3>4, <3>6 DEF InLog
  <2>3. QED
    BY <2>1, <2>2
<1>3. QED
  BY <1>1, <1>2 DEF Acknowledged, PublishedIsInLog

-----------------------------------------------------------------------------
(* Each copy of an event beyond the first is paid for by a fault. *)

LEMMA CopiesFinite ==
  ASSUME RelayTypeOK, NEW e
  PROVE  IsFiniteSet({ i \in 1 .. Len(log) : log[i] = e }) /\ Copies(e) \in Nat
<1>1. IsFiniteSet(1 .. Len(log))
  BY FS_Interval DEF RelayTypeOK
<1>2. IsFiniteSet({ i \in 1 .. Len(log) : log[i] = e })
  BY <1>1, FS_Subset
<1>3. QED
  BY <1>2, FS_CardinalityType DEF Copies

LEMMA CopiesGrow ==
  ASSUME RelayTypeOK, NEW e, NEW x \in Event, log' = Append(log, x)
  PROVE  Copies(e)' = IF x = e THEN Copies(e) + 1 ELSE Copies(e)
<1> DEFINE C == { i \in 1 .. Len(log) : log[i] = e }
<1>1. log \in Seq(Event) /\ Len(log) \in Nat
  BY DEF RelayTypeOK
<1>2. /\ Len(log') = Len(log) + 1 /\ log'[Len(log) + 1] = x
      /\ \A i \in 1 .. Len(log) : log'[i] = log[i]
  BY <1>1
<1>3. IsFiniteSet(C) /\ Len(log) + 1 \notin C
  <2>1. IsFiniteSet(C)
    BY CopiesFinite
  <2>2. Len(log) + 1 \notin 1 .. Len(log)
    BY <1>1
  <2>3. QED
    BY <2>1, <2>2
<1>4. { i \in 1 .. Len(log') : log'[i] = e } =
        IF x = e THEN C \cup {Len(log) + 1} ELSE C
  BY <1>1, <1>2
<1>5. Cardinality(C \cup {Len(log) + 1}) = Cardinality(C) + 1
  <2> HIDE DEF C
  <2>1. QED
    BY <1>3, FS_AddElement
<1>6. QED
  <2>1. Copies(e)' = Cardinality({ i \in 1 .. Len(log') : log'[i] = e })
    BY DEF Copies
  <2>2. Copies(e) = Cardinality(C)
    BY DEF Copies
  <2> HIDE DEF C
  <2>3. QED
    BY <1>4, <1>5, <2>1, <2>2

LEMMA StraysFinite ==
  ASSUME RelayTypeOK, NEW e
  PROVE  IsFiniteSet(Strays(e)) /\ Cardinality(Strays(e)) \in Nat
<1>1. Strays(e) \subseteq Busy
  BY DEF Strays, Holds, Busy, RelayTypeOK, Pass, At
<1>2. IsFiniteSet(Strays(e))
  BY <1>1, FS_Subset DEF RelayTypeOK
<1>3. QED
  BY <1>2, FS_CardinalityType

\* What a pass still has to publish does not change while the pass does not.
LEMMA HoldsStays ==
  ASSUME RelayTypeOK, [RelayNext]_vars,
         NEW r \in Replica, relay'[r] = relay[r], NEW e
  PROVE  (Holds(r, e)' <=> Holds(r, e)) /\ (Delivering(r, e)' <=> Delivering(r, e))
<1>1. Current(r)' = Current(r)
  BY CurrentStays
<1>2. QED
  BY <1>1 DEF Holds, Delivering

\* A step of r leaves every other pass where it was.
LEMMA OthersHold ==
  ASSUME RelayTypeOK, [RelayNext]_vars, NEW r \in Replica, NEW e,
         \A k \in Replica \ {r} : relay'[k] = relay[k],
         \A k \in Replica \ {r} : holder' = k <=> holder = k
  PROVE  \A k \in Replica \ {r} :
           /\ Holds(k, e)' <=> Holds(k, e)
           /\ Delivering(k, e)' <=> Delivering(k, e)
           /\ k \in Strays(e)' <=> k \in Strays(e)
<1>1. ASSUME NEW k \in Replica, k # r
      PROVE  /\ relay'[k] = relay[k]
             /\ Holds(k, e)' <=> Holds(k, e)
             /\ Delivering(k, e)' <=> Delivering(k, e)
  BY <1>1, HoldsStays
<1>2. ASSUME NEW k \in Replica, k # r
      PROVE  k \in Strays(e)' <=> k \in Strays(e)
  BY <1>1, <1>2 DEF Strays
<1>3. QED
  BY <1>1, <1>2

LEMMA StraysShrink ==
  ASSUME RelayTypeOK, NEW r, NEW e,
         Strays(e)' \subseteq Strays(e) \cup {r}
  PROVE  /\ Cardinality(Strays(e))' <= Cardinality(Strays(e)) + 1
         /\ (r \in Strays(e)' => r \in Strays(e)) =>
              Cardinality(Strays(e))' <= Cardinality(Strays(e))
         /\ (r \in Strays(e) /\ r \notin Strays(e)') =>
              Cardinality(Strays(e))' <= Cardinality(Strays(e)) - 1
<1> DEFINE S == Strays(e)
           T == Strays(e)'
<1>1. IsFiniteSet(S) /\ Cardinality(S) \in Nat
  BY StraysFinite
<1>2. T \subseteq S \cup {r}
  OBVIOUS
<1> HIDE DEF S, T
<1>3. IsFiniteSet(S \cup {r}) /\ Cardinality(S \cup {r}) <= Cardinality(S) + 1
  BY <1>1, FS_AddElement
<1>4. IsFiniteSet(T) /\ Cardinality(T) \in Nat
  BY <1>2, <1>3, FS_Subset, FS_CardinalityType
<1>5. Cardinality(T) <= Cardinality(S) + 1
  BY <1>1, <1>2, <1>3, <1>4, FS_Subset, FS_CardinalityType
<1>6. ASSUME r \in T => r \in S PROVE Cardinality(T) <= Cardinality(S)
  BY <1>1, <1>2, <1>6, FS_Subset
<1>7. ASSUME r \in S, r \notin T PROVE Cardinality(T) <= Cardinality(S) - 1
  <2>1. IsFiniteSet(S \ {r}) /\ Cardinality(S \ {r}) = Cardinality(S) - 1
    BY <1>1, <1>7, FS_RemoveElement
  <2>2. T \subseteq S \ {r}
    BY <1>2, <1>7
  <2>3. QED
    BY <2>1, <2>2, FS_Subset
<1>8. QED
  BY <1>5, <1>6, <1>7 DEF S, T

\* What a step of r does to what is still to come of e, by what r has of e
\* before and after it.
LEMMA StepOfOne ==
  ASSUME RelayTypeOK, [RelayNext]_vars, NEW r \in Replica, NEW e,
         \A k \in Replica \ {r} : relay'[k] = relay[k],
         holder' = holder, published \subseteq published'
  PROVE  /\ Strays(e)' \subseteq Strays(e) \cup {r}
         /\ holder # r => (MayPublish(e)' => MayPublish(e))
         /\ holder = r =>
              /\ MayPublish(e)' <=> \/ Holds(r, e)'
                                    \/ e \notin published' /\ ~ Delivering(r, e)'
              /\ MayPublish(e) <=> \/ Holds(r, e)
                                   \/ e \notin published /\ ~ Delivering(r, e)
         /\ r \in Strays(e) <=>
              r # holder /\ (relay[r].at = "fetch" \/ Holds(r, e))
         /\ r \in Strays(e)' <=>
              r # holder /\ (relay'[r].at = "fetch" \/ Holds(r, e)')
<1>1. \A k \in Replica \ {r} :
           /\ Holds(k, e)' <=> Holds(k, e)
           /\ Delivering(k, e)' <=> Delivering(k, e)
           /\ k \in Strays(e)' <=> k \in Strays(e)
  BY OthersHold
<1>2. Strays(e)' \subseteq Strays(e) \cup {r}
  BY <1>1 DEF Strays
<1>3. holder # r => (MayPublish(e)' => MayPublish(e))
  <2>1. CASE holder \in Replica \ {r}
    BY <1>1, <2>1 DEF MayPublish
  <2>2. CASE holder \notin Replica
    BY <2>2 DEF MayPublish
  <2>3. QED
    BY <2>1, <2>2
<1>4. holder = r =>
        /\ MayPublish(e)' <=> \/ Holds(r, e)'
                              \/ e \notin published' /\ ~ Delivering(r, e)'
        /\ MayPublish(e) <=> \/ Holds(r, e)
                             \/ e \notin published /\ ~ Delivering(r, e)
  BY DEF MayPublish
<1>5. QED
  BY <1>2, <1>3, <1>4 DEF Strays

LEMMA PaidBalance ==
  ASSUME RelayTypeOK, RelayTypeOK', NEW e \in Event, Paid(e),
         NEW c \in Int, NEW z \in Int, NEW t \in Int, NEW f \in Int,
         Copies(e)' <= Copies(e) + c,
         Cardinality(Strays(e))' <= Cardinality(Strays(e)) + z,
         Turn(e)' <= Turn(e) + t,
         faults' = faults + f,
         c + z + t <= f
  PROVE  Paid(e)'
<1>1. Copies(e) \in Nat /\ Cardinality(Strays(e)) \in Nat /\ Turn(e) \in Nat
  BY CopiesFinite, StraysFinite DEF Turn
<1>2. Copies(e)' \in Nat /\ Cardinality(Strays(e))' \in Nat /\ Turn(e)' \in Nat
  <2>1. IsFiniteSet({ i \in 1 .. Len(log') : log'[i] = e })
    <3>1. IsFiniteSet(1 .. Len(log'))
      BY FS_Interval DEF RelayTypeOK
    <3>2. QED
      BY <3>1, FS_Subset
  <2>2. Strays(e)' \subseteq Busy'
    BY DEF Strays, Holds, Busy, RelayTypeOK, Pass, At
  <2>3. IsFiniteSet(Strays(e)')
    BY <2>2, FS_Subset DEF RelayTypeOK
  <2>4. QED
    BY <2>1, <2>3, FS_CardinalityType DEF Copies, Turn
<1>3. faults \in Nat /\ faults' \in Nat
  BY DEF RelayTypeOK
<1>4. QED
  BY <1>1, <1>2, <1>3 DEF Paid

\* The broker call of the row the loop is at, whatever its outcome.
LEMMA AtRow ==
  ASSUME RelayTypeOK, [RelayNext]_vars, NEW r \in Replica, NEW e,
         relay[r].at = "publish", relay[r].batch # {},
         NEW at \in {"delivered", "failed"}, Goto(r, at)
  PROVE  /\ \A k \in Replica \ {r} : relay'[k] = relay[k]
         /\ relay'[r].at = at /\ relay'[r].batch = relay[r].batch
         /\ Current(r)' = Current(r)
         /\ Holds(r, e) <=> e \in relay[r].batch
         /\ ~ Delivering(r, e)
         /\ Holds(r, e)' <=> e \in relay[r].batch /\ e # Current(r)
         /\ Delivering(r, e)' <=> at = "delivered" /\ e = Current(r)
<1>1. relay' = [relay EXCEPT ![r] = [at |-> at, batch |-> relay[r].batch]]
  BY GotoPass DEF At
<1>2. /\ \A k \in Replica \ {r} : relay'[k] = relay[k]
      /\ relay'[r].at = at /\ relay'[r].batch = relay[r].batch
  BY <1>1 DEF RelayTypeOK
<1>3. Current(r)' = Current(r)
  BY <1>2, CurrentStays
<1>4. QED
  BY <1>2, <1>3 DEF Holds, Delivering

\* The next row of the loop.
LEMMA PastRow ==
  ASSUME RelayTypeOK, NEW r \in Replica, NEW e,
         relay[r].at \in {"delivered", "failed"}, NextRow(r)
  PROVE  /\ \A k \in Replica \ {r} : relay'[k] = relay[k]
         /\ relay'[r].at = "publish"
         /\ Holds(r, e)' <=> Holds(r, e)
         /\ ~ Delivering(r, e)'
<1>1. /\ \A k \in Replica \ {r} : relay'[k] = relay[k]
      /\ relay'[r].at = "publish"
      /\ relay'[r].batch = relay[r].batch \ {Current(r)}
  BY DEF RelayTypeOK, NextRow
<1>2. QED
  BY <1>1 DEF Holds, Delivering

LEMMA PaidStep ==
  ASSUME RelayTypeOK, RelayTypeOK', [RelayNext]_vars,
         NEW e \in Event, Paid(e)
  PROVE  Paid(e)'
<1> DEFINE C == Copies(e)
           Z == Cardinality(Strays(e))
           T == Turn(e)
<1>0. /\ C \in Nat /\ Z \in Nat
      /\ T \in {0, 1} /\ T' \in {0, 1}
      /\ MayPublish(e) <=> T = 1
      /\ MayPublish(e)' <=> T' = 1
      /\ faults \in Nat /\ relay \in [Replica -> Pass]
  <2>1. T \in {0, 1} /\ (MayPublish(e) <=> T = 1)
    BY DEF Turn, MayPublish
  <2>2. T' \in {0, 1} /\ (MayPublish(e)' <=> T' = 1)
    BY DEF Turn, MayPublish
  <2>3. QED
    BY <2>1, <2>2, CopiesFinite, StraysFinite DEF RelayTypeOK
<1>1. log' = log => C' = C
  BY DEF Copies
\* A step that changes nothing of this, a free turn, a copy in exchange for a
\* turn or for a stray, and whatever one fault pays for.
<1>f. ASSUME C' = C, Z' <= Z, T' <= T, faults' = faults PROVE Paid(e)'
  BY <1>0, <1>f, PaidBalance, C' <= C + 0, Z' <= Z + 0, T' <= T + 0,
     faults' = faults + 0
<1>t. ASSUME C' = C + 1, Z' <= Z, T' <= T - 1, faults' = faults PROVE Paid(e)'
  BY <1>0, <1>t, PaidBalance, C' <= C + 1, Z' <= Z + 0, T' <= T + (-1),
     faults' = faults + 0
<1>s. ASSUME C' = C + 1, Z' <= Z - 1, T' <= T, faults' = faults PROVE Paid(e)'
  BY <1>0, <1>s, PaidBalance, C' <= C + 1, Z' <= Z + (-1), T' <= T + 0,
     faults' = faults + 0
<1>p. ASSUME NEW c \in Int, NEW z \in Int, NEW t \in Int, c + z + t <= 1,
             C' <= C + c, Z' <= Z + z, T' <= T + t, faults' = faults + 1
      PROVE  Paid(e)'
  BY <1>p, PaidBalance
<1>2. CASE /\ relay' = relay /\ holder' = holder /\ published' = published
           /\ log' = log /\ faults' = faults
  <2>1. \A r \in Replica : /\ Holds(r, e)' <=> Holds(r, e)
                           /\ Delivering(r, e)' <=> Delivering(r, e)
    BY <1>2, HoldsStays
  <2>2. Strays(e)' = Strays(e) /\ T' = T
    BY <1>2, <2>1 DEF Strays, Turn, MayPublish
  <2>3. QED
    BY <1>0, <1>1, <1>2, <1>f, <2>2
<1>3. ASSUME NEW r \in Replica, TryLock(r) PROVE Paid(e)'
  <2>1. relay[r].at = "idle" /\ relay[r].batch = {} /\ holder = NoReplica
    BY <1>3 DEF TryLock, RelayTypeOK
  <2>2. relay' = [relay EXCEPT ![r] = [at |-> "fetch", batch |-> {}]]
    BY <1>3, <2>1, GotoPass DEF TryLock, At
  <2>3. /\ \A k \in Replica \ {r} : relay'[k] = relay[k]
        /\ relay'[r].at = "fetch" /\ relay'[r].batch = {}
        /\ holder' = r /\ published' = published /\ log' = log
        /\ faults' = faults /\ NoReplica \notin Replica
    BY <1>3, <2>2, RelayAssumption DEF TryLock, NoFault, RelayTypeOK
  <2>4. \A k \in Replica \ {r} : holder' = k <=> holder = k
    BY <2>1, <2>3
  <2>5. Strays(e)' \subseteq Strays(e)
    BY <2>3, <2>4, OthersHold DEF Strays
  <2>6. ~ Holds(r, e)' /\ ~ Delivering(r, e)'
    BY <2>3 DEF Holds, Delivering
  <2>7. T' <= T
    BY <1>0, <2>1, <2>3, <2>6 DEF MayPublish
  <2>8. Z' <= Z
    BY <2>5, StraysShrink
  <2>9. QED
    BY <1>1, <1>f, <2>3, <2>7, <2>8
<1>4. ASSUME NEW r \in Replica, Fetch(r) PROVE Paid(e)'
  <2>1. /\ relay[r].at = "fetch" /\ relay[r].batch = {}
        /\ \A k \in Replica \ {r} : relay'[k] = relay[k]
        /\ relay'[r].at = "publish" /\ relay'[r].batch = FirstBatch
        /\ holder' = holder /\ published' = published /\ log' = log
        /\ faults' = faults
    BY <1>4 DEF Fetch, NoFault, RelayTypeOK
  <2>2. /\ ~ Holds(r, e) /\ ~ Delivering(r, e) /\ ~ Delivering(r, e)'
        /\ Holds(r, e)' => e \notin published
    BY <2>1 DEF Holds, Delivering, FirstBatch, Due
  <2>3. /\ Strays(e)' \subseteq Strays(e) \cup {r}
        /\ r \in Strays(e)' => r \in Strays(e)
    BY <2>1, StepOfOne
  <2>4. Z' <= Z
    BY <2>3, StraysShrink
  <2>5. T' <= T
    BY <1>0, <2>1, <2>2, StepOfOne
  <2>6. QED
    BY <1>1, <1>f, <2>1, <2>4, <2>5
<1>5. ASSUME NEW r \in Replica, Publish(r) \/ PublishAckLost(r)
      PROVE  Paid(e)'
  <2>1. PICK at \in {"delivered", "failed"} :
          /\ Goto(r, at)
          /\ faults' = faults + IF at = "failed" THEN 1 ELSE 0
    BY <1>0, <1>5 DEF Publish, PublishAckLost, Fault, NoFault
  <2>2. /\ relay[r].at = "publish" /\ relay[r].batch # {}
        /\ holder' = holder /\ published' = published
        /\ log' = Append(log, Current(r))
    BY <1>5 DEF Publish, PublishAckLost
  <2>3. /\ \A k \in Replica \ {r} : relay'[k] = relay[k]
        /\ relay'[r].at = at
        /\ Holds(r, e) <=> e \in relay[r].batch
        /\ ~ Delivering(r, e)
        /\ Holds(r, e)' <=> e \in relay[r].batch /\ e # Current(r)
        /\ Delivering(r, e)' <=> at = "delivered" /\ e = Current(r)
    BY <2>1, <2>2, AtRow
  <2>4. Current(r) \in relay[r].batch /\ Current(r) \in Event
    BY <2>2, CurrentInBatch
  <2>5. C' = IF e = Current(r) THEN C + 1 ELSE C
    BY <2>2, <2>4, CopiesGrow
  <2>6. /\ Strays(e)' \subseteq Strays(e) \cup {r}
        /\ r \in Strays(e)' => r \in Strays(e)
    BY <2>2, <2>3, StepOfOne
  <2>7. Z' <= Z /\ T' <= T
    BY <1>0, <2>2, <2>3, <2>4, <2>6, StepOfOne, StraysShrink
  <2>8. CASE e # Current(r)
    BY <1>0, <1>f, <1>p, <2>1, <2>5, <2>7, <2>8,
       C' <= C + 0, Z' <= Z + 0, T' <= T + 0
  <2>9. CASE e = Current(r) /\ at = "failed"
    BY <1>0, <1>p, <2>1, <2>5, <2>7, <2>9,
       C' <= C + 1, Z' <= Z + 0, T' <= T + 0
  <2>10. CASE e = Current(r) /\ at = "delivered" /\ holder = r
    <3>1. T' <= T - 1
      BY <1>0, <2>2, <2>3, <2>4, <2>10, StepOfOne
    <3>2. QED
      BY <1>0, <1>t, <2>1, <2>5, <2>7, <2>10, <3>1
  <2>11. CASE e = Current(r) /\ at = "delivered" /\ holder # r
    <3>1. r \in Strays(e) /\ r \notin Strays(e)'
      BY <2>2, <2>3, <2>4, <2>11, StepOfOne
    <3>2. Z' <= Z - 1
      BY <2>6, <3>1, StraysShrink
    <3>3. QED
      BY <1>0, <1>s, <2>1, <2>5, <2>7, <2>11, <3>2
  <2>12. QED
    BY <2>8, <2>9, <2>10, <2>11
<1>6. ASSUME NEW r \in Replica, PublishFails(r) PROVE Paid(e)'
  <2>0. PICK at \in {"delivered", "failed"} : at = "failed"
    OBVIOUS
  <2>1. /\ Goto(r, at)
        /\ Fault \/ NoFault
        /\ relay[r].at = "publish" /\ relay[r].batch # {}
        /\ holder' = holder /\ published' = published /\ log' = log
    BY <1>6, <2>0 DEF PublishFails, NoFault
  <2>2. /\ \A k \in Replica \ {r} : relay'[k] = relay[k]
        /\ relay'[r].at = at
        /\ Holds(r, e) <=> e \in relay[r].batch
        /\ ~ Delivering(r, e)
        /\ Holds(r, e)' <=> e \in relay[r].batch /\ e # Current(r)
        /\ Delivering(r, e)' <=> at = "delivered" /\ e = Current(r)
    BY <2>1, AtRow
  <2>3. /\ Strays(e)' \subseteq Strays(e) \cup {r}
        /\ r \in Strays(e)' => r \in Strays(e)
    BY <2>0, <2>1, <2>2, StepOfOne
  <2>4. Z' <= Z /\ T' <= T
    BY <1>0, <2>0, <2>1, <2>2, <2>3, StepOfOne, StraysShrink
  <2>5. faults' = faults \/ faults' = faults + 1
    BY <2>1 DEF Fault, NoFault
  <2>6. QED
    BY <1>0, <1>1, <1>f, <1>p, <2>1, <2>4, <2>5,
       C' <= C + 0, Z' <= Z + 0, T' <= T + 0
<1>7. ASSUME NEW r \in Replica,
             \/ MarkOutboxPublished(r) \/ MarkOutboxFailed(r) \/ MarkIsLost(r)
      PROVE  Paid(e)'
  <2>1. /\ relay[r].at \in {"delivered", "failed"} /\ NextRow(r)
        /\ holder' = holder /\ log' = log /\ published \subseteq published'
        /\ faults' = faults \/ faults' = faults + 1
    BY <1>7
       DEF MarkOutboxPublished, MarkOutboxFailed, MarkIsLost, Fault, NoFault
  <2>2. /\ \A k \in Replica \ {r} : relay'[k] = relay[k]
        /\ relay'[r].at = "publish"
        /\ Holds(r, e)' <=> Holds(r, e)
        /\ ~ Delivering(r, e)'
    BY <2>1, PastRow
  <2>3. /\ Strays(e)' \subseteq Strays(e) \cup {r}
        /\ r \in Strays(e)' => r \in Strays(e)
    BY <2>1, <2>2, StepOfOne
  <2>4. Z' <= Z /\ T' <= T + 1
    BY <1>0, <2>3, StraysShrink
  <2>5. CASE faults' = faults + 1
    BY <1>0, <1>1, <1>p, <2>1, <2>4, <2>5,
       C' <= C + 0, Z' <= Z + 0, T' <= T + 1
  <2>6. CASE faults' = faults
    <3>1. MarkOutboxPublished(r) \/ MarkOutboxFailed(r)
      BY <1>0, <1>7, <2>6 DEF MarkIsLost, Fault
    <3>2. Delivering(r, e) => e \in published'
      BY <3>1 DEF Delivering, MarkOutboxPublished, MarkOutboxFailed
    <3>3. T' <= T
      <4>1. CASE holder = r
        BY <1>0, <2>1, <2>2, <3>2, <4>1, StepOfOne
      <4>2. CASE holder # r
        BY <1>0, <2>1, <2>2, <4>2, StepOfOne
      <4>3. QED
        BY <4>1, <4>2
    <3>4. QED
      BY <1>1, <1>f, <2>1, <2>4, <2>6, <3>3
  <2>7. QED
    BY <2>1, <2>5, <2>6
<1>8. ASSUME NEW r \in Replica, Unlock(r) \/ RelayCrash(r) PROVE Paid(e)'
  <2>1. /\ relay' = [relay EXCEPT ![r] = NoPass] /\ log' = log
        /\ published' = published
        /\ holder' = IF holder = r THEN NoReplica ELSE holder
        /\ NoReplica \notin Replica
    BY <1>8, RelayAssumption DEF Unlock, RelayCrash
  <2>2. /\ \A k \in Replica \ {r} : relay'[k] = relay[k]
        /\ relay'[r].at = "idle" /\ relay'[r].batch = {}
    BY <2>1 DEF RelayTypeOK, NoPass
  <2>3. \A k \in Replica \ {r} : holder' = k <=> holder = k
    BY <2>1
  <2>4. ~ Holds(r, e)' /\ r \notin Strays(e)'
    BY <2>2 DEF Holds, Strays
  <2>5. Z' <= Z
    <3>1. Strays(e)' \subseteq Strays(e) \cup {r}
      BY <2>2, <2>3, OthersHold DEF Strays
    <3>2. QED
      BY <2>4, <3>1, StraysShrink
  <2>6. CASE RelayCrash(r)
    BY <1>0, <1>1, <1>p, <2>1, <2>5, <2>6,
       C' <= C + 0, Z' <= Z + 0, T' <= T + 1 DEF RelayCrash, Fault
  <2>7. CASE Unlock(r)
    <3>1. ~ Holds(r, e) /\ ~ Delivering(r, e)
      BY <2>7 DEF Unlock, Holds, Delivering
    <3>2. MayPublish(e)' => MayPublish(e)
      <4>1. CASE holder = r
        BY <2>1, <3>1, <4>1 DEF MayPublish
      <4>2. CASE holder \in Replica \ {r}
        BY <2>1, <2>2, <2>3, <4>2, OthersHold DEF MayPublish
      <4>3. CASE holder \notin Replica
        BY <2>1, <4>3 DEF MayPublish
      <4>4. QED
        BY <4>1, <4>2, <4>3
    <3>3. QED
      BY <1>0, <1>1, <1>f, <2>1, <2>5, <2>7, <3>2 DEF Unlock, NoFault
  <2>8. QED
    BY <1>8, <2>6, <2>7
<1>9. ASSUME NEW r \in Replica, LockLost(r) PROVE Paid(e)'
  <2>1. /\ relay' = relay /\ log' = log /\ published' = published
        /\ holder = r /\ holder' = NoReplica
        /\ faults' = faults + 1 /\ NoReplica \notin Replica
    BY <1>9, RelayAssumption DEF LockLost, Fault
  <2>2. \A k \in Replica \ {r} : holder' = k <=> holder = k
    BY <2>1
  <2>3. Strays(e)' \subseteq Strays(e) \cup {r}
    BY <2>1, <2>2, OthersHold DEF Strays
  <2>4. CASE relay[r].at = "fetch" \/ Holds(r, e)
    <3>1. T' <= T
      <4>1. CASE Holds(r, e)
        BY <1>0, <2>1, <4>1 DEF MayPublish
      <4>2. CASE relay[r].at = "fetch"
        <5>1. ~ Delivering(r, e)
          BY <4>2 DEF Delivering
        <5>2. QED
          BY <1>0, <2>1, <5>1 DEF MayPublish
      <4>3. QED
        BY <2>4, <4>1, <4>2
    <3>2. Z' <= Z + 1
      BY <2>3, StraysShrink
    <3>3. QED
      BY <1>0, <1>1, <1>p, <2>1, <3>1, <3>2,
         C' <= C + 0, Z' <= Z + 1, T' <= T + 0
  <2>5. CASE relay[r].at # "fetch" /\ ~ Holds(r, e)
    <3>1. r \notin Strays(e)'
      BY <2>1, <2>5, HoldsStays DEF Strays
    <3>2. Z' <= Z
      BY <2>3, <3>1, StraysShrink
    <3>3. QED
      BY <1>0, <1>1, <1>p, <2>1, <3>2,
         C' <= C + 0, Z' <= Z + 0, T' <= T + 1
  <2>6. QED
    BY <2>4, <2>5
<1>10. QED
  BY <1>2, <1>3, <1>4, <1>5, <1>6, <1>7, <1>8, <1>9
     DEF RelayNext, vars, BeginTx, CommitTx

\* A stamped row was published, and an event is on the topic as often as it is
\* only because something failed: at most one copy more than there were faults
\* (drain, WithJobLock).
THEOREM StampsWhatIsPublished == RelaySpec => []StampedIsPublished
<1>1. Init => RelayInv
  <2> SUFFICES ASSUME Init PROVE RelayInv
    OBVIOUS
  <2>1. /\ published = {} /\ relay = [r \in Replica |-> NoPass]
        /\ log = << >> /\ Len(log) = 0 /\ faults = 0
    BY DEF Init, RelayInit
  <2>2. \A r \in Replica : relay[r].at = "idle" /\ relay[r].batch = {}
    BY <2>1 DEF NoPass
  <2>3. Acknowledged
    BY <2>1, <2>2 DEF Acknowledged, PublishedIsInLog
  <2>4. ASSUME NEW e \in Event PROVE Paid(e)
    <3>1. { i \in 1 .. Len(log) : log[i] = e } = {}
      BY <2>1
    <3>2. Strays(e) = {}
      BY <2>2 DEF Strays, Holds
    <3>3. Copies(e) = 0 /\ Cardinality(Strays(e)) = 0
      BY <3>1, <3>2, FS_EmptySet DEF Copies
    <3>4. Turn(e) \in {0, 1}
      BY DEF Turn
    <3>5. QED
      BY <2>1, <3>3, <3>4 DEF Paid
  <2>5. QED
    BY <2>3, <2>4 DEF RelayInv
<1>2. RelayTypeOK /\ RelayTypeOK' /\ RelayInv /\ [RelayNext]_vars => RelayInv'
  BY AcknowledgedStep, PaidStep DEF RelayInv
<1>3. RelayTypeOK /\ RelayInv => StampedIsPublished
  <2> SUFFICES ASSUME RelayTypeOK, RelayInv, NEW e \in Event
               PROVE  Copies(e) <= 1 + faults
    BY DEF RelayInv, Acknowledged, StampedIsPublished, DuplicatesNeedFaults
  <2>1. /\ Copies(e) \in Nat /\ Cardinality(Strays(e)) \in Nat
        /\ Turn(e) \in {0, 1} /\ faults \in Nat
    BY CopiesFinite, StraysFinite DEF Turn, RelayTypeOK
  <2>2. QED
    BY <2>1 DEF RelayInv, Paid
<1>4. QED
  BY <1>1, <1>2, <1>3, RelayTypeCorrect, PTL DEF RelaySpec
=============================================================================
