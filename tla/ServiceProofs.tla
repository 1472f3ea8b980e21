---------------------------- MODULE ServiceProofs ----------------------------
(* Theorems about the other services of Services.                            *)
EXTENDS SubledgerProofs

-----------------------------------------------------------------------------
(* The audit chain. *)

Chained(chain) ==
  \A e \in chain : e.prev = Audit!Head({ f \in chain : f.id < e.id })

\* A transaction that has read the head, or has rows of its own.
HoldsLock(w) == pending[w] # {} \/ tx[w].at \in {"read", "insert"}

AuditTypeOK ==
  /\ nextId \in Nat
  /\ DOMAIN pending = Caller /\ DOMAIN tx = Caller
  /\ \A w \in Caller : \A e \in events \cup pending[w] : e.id \in 0 .. nextId - 1

AuditInv ==
  /\ AuditTypeOK
  /\ Chained(events)
  /\ \A w \in Caller :
       /\ HoldsLock(w) => lock = w
       /\ Chained(events \cup pending[w])
       /\ tx[w].at = "insert" => tx[w].head = Audit!Head(events \cup pending[w])

\* A row with a new highest id that names the head keeps the chain.
LEMMA ChainGrows ==
  ASSUME NEW chain, Chained(chain), NEW n \in Nat,
         \A f \in chain : f.id \in 0 .. n - 1
  PROVE  Chained(chain \cup {[id |-> n, prev |-> Audit!Head(chain)]})
<1> DEFINE e == [id |-> n, prev |-> Audit!Head(chain)]
<1>1. { f \in chain \cup {e} : f.id < n } = chain
  <2>1. \A f \in chain : f.id < n
    OBVIOUS
  <2>2. e.id = n /\ ~ (n < n)
    OBVIOUS
  <2> HIDE DEF e
  <2>3. QED
    BY <2>1, <2>2
<1>2. \A g \in chain : { f \in chain \cup {e} : f.id < g.id } = { f \in chain : f.id < g.id }
  <2>1. \A g \in chain : ~ (n < g.id)
    OBVIOUS
  <2>2. e.id = n
    OBVIOUS
  <2> HIDE DEF e
  <2>3. QED
    BY <2>1, <2>2
<1>3. e.id = n /\ e.prev = Audit!Head(chain)
  OBVIOUS
<1> HIDE DEF e
<1>4. Chained(chain \cup {e})
  BY <1>1, <1>2, <1>3 DEF Chained
<1>5. QED
  BY <1>4 DEF e

LEMMA AuditInitially == Audit!Init => AuditInv
<1> SUFFICES ASSUME Audit!Init PROVE AuditInv
  OBVIOUS
<1> USE DEF Audit!Init
<1>1. AuditTypeOK
  BY DEF AuditTypeOK
<1>2. \A w \in Caller : pending[w] = {} /\ tx[w].at = "idle"
  BY DEF Audit!Idle
<1>3. QED
  BY <1>1, <1>2 DEF AuditInv, HoldsLock, Chained

\* What a step of one transaction leaves to the others.
LEMMA OtherWriters ==
  ASSUME Audit!WriterAssumption, AuditInv, AuditTypeOK', NEW w \in Caller,
         \A v \in Caller \ {w} : tx'[v] = tx[v] /\ pending'[v] = pending[v],
         Chained(events)',
         HoldsLock(w)' => lock' = w,
         Chained(events \cup pending[w])',
         tx'[w].at = "insert" =>
           tx'[w].head = Audit!Head(events \cup pending[w])',
         \/ events' = events
         \/ \A v \in Caller \ {w} : ~ HoldsLock(v),
         lock' = lock \/ lock \in {Nobody, w}
  PROVE  AuditInv'
<1>1. ASSUME NEW v \in Caller \ {w}
      PROVE  /\ HoldsLock(v)' => lock' = v
             /\ Chained(events \cup pending[v])'
             /\ tx'[v].at = "insert" =>
                  tx'[v].head = Audit!Head(events \cup pending[v])'
  <2>1. tx'[v] = tx[v] /\ pending'[v] = pending[v]
    BY <1>1
  <2>2. HoldsLock(v)' <=> HoldsLock(v)
    BY <2>1 DEF HoldsLock
  <2>3. HoldsLock(v) => lock = v /\ v # Nobody
    BY <1>1 DEF AuditInv, Audit!WriterAssumption
  <2>4. HoldsLock(v)' => lock' = v
    BY <1>1, <2>2, <2>3
  <2>5. CASE events' = events
    <3>1. events' \cup pending'[v] = events \cup pending[v]
      BY <2>1, <2>5
    <3>2. /\ Chained(events \cup pending[v])
          /\ tx[v].at = "insert" => tx[v].head = Audit!Head(events \cup pending[v])
      BY <1>1 DEF AuditInv
    <3> QED
      BY <2>1, <2>4, <3>1, <3>2 DEF Chained
  <2>6. CASE ~ HoldsLock(v)
    BY <2>1, <2>2, <2>4, <2>6 DEF HoldsLock, Chained
  <2>7. QED
    BY <1>1, <2>5, <2>6
<1>2. QED
  BY <1>1 DEF AuditInv

LEMMA AuditKept ==
  ASSUME Audit!WriterAssumption, AuditInv, [Audit!Next]_Audit!vars
  PROVE  AuditInv'
<1> USE DEF AuditInv
<1>1. CASE UNCHANGED Audit!vars
  BY <1>1 DEF Audit!vars, AuditTypeOK, HoldsLock, Chained
<1>2. ASSUME NEW w \in Caller, Audit!Append(w)
      PROVE  AuditInv'
  <2>1. /\ tx' = [tx EXCEPT ![w].at = "lock"]
        /\ UNCHANGED << events, pending, lock, nextId >>
    BY <1>2 DEF Audit!Append, Audit!Goto
  <2>2. tx'[w].at = "lock" /\ \A v \in Caller \ {w} : tx'[v] = tx[v]
    BY <2>1 DEF AuditTypeOK
  <2>3. AuditTypeOK'
    BY <2>1 DEF AuditTypeOK
  <2>4. HoldsLock(w)' => lock' = w
    BY <2>1, <2>2 DEF HoldsLock
  <2>5. QED
    BY <2>1, <2>2, <2>3, <2>4, OtherWriters DEF Chained
<1>3. ASSUME NEW w \in Caller, Audit!TakeLock(w)
      PROVE  AuditInv'
  <2>1. /\ lock \in {Nobody, w} /\ lock' = w
        /\ tx' = [tx EXCEPT ![w].at = "read"]
        /\ UNCHANGED << events, pending, nextId >>
    BY <1>3 DEF Audit!TakeLock, Audit!CanLock, Audit!Goto
  <2>2. tx'[w].at = "read" /\ \A v \in Caller \ {w} : tx'[v] = tx[v]
    BY <2>1 DEF AuditTypeOK
  <2>3. AuditTypeOK'
    BY <2>1 DEF AuditTypeOK
  <2>4. QED
    BY <2>1, <2>2, <2>3, OtherWriters DEF Chained
<1>4. ASSUME NEW w \in Caller, Audit!ReadHead(w)
      PROVE  AuditInv'
  <2>1. /\ tx[w].at = "read"
        /\ tx' = [tx EXCEPT ![w] = [at |-> "insert",
                                    head |-> Audit!Head(events \cup pending[w])]]
        /\ UNCHANGED << events, pending, lock, nextId >>
    BY <1>4 DEF Audit!ReadHead
  <2>2. /\ tx'[w].head = Audit!Head(events \cup pending[w])
        /\ \A v \in Caller \ {w} : tx'[v] = tx[v]
    BY <2>1 DEF AuditTypeOK
  <2>3. AuditTypeOK'
    BY <2>1 DEF AuditTypeOK
  <2>4. lock = w
    BY <2>1 DEF HoldsLock
  <2>5. QED
    BY <2>1, <2>2, <2>3, <2>4, OtherWriters DEF Chained
<1>5. ASSUME NEW w \in Caller, Audit!Insert(w)
      PROVE  AuditInv'
  <2> DEFINE e == [id |-> nextId, prev |-> tx[w].head]
  <2>1. /\ tx[w].at = "insert"
        /\ pending' = [pending EXCEPT ![w] = @ \cup {e}]
        /\ nextId' = nextId + 1
        /\ tx' = [tx EXCEPT ![w].at = "open"]
        /\ UNCHANGED << events, lock >>
    BY <1>5 DEF Audit!Insert, Audit!Goto
  <2>2. /\ tx'[w].at = "open" /\ \A v \in Caller \ {w} : tx'[v] = tx[v]
        /\ pending'[w] = pending[w] \cup {e}
        /\ \A v \in Caller \ {w} : pending'[v] = pending[v]
    BY <2>1 DEF AuditTypeOK
  <2>3. lock = w /\ tx[w].head = Audit!Head(events \cup pending[w])
    BY <2>1 DEF HoldsLock
  <2>4. nextId \in Nat /\ e.id = nextId
    BY DEF AuditTypeOK
  <2>5. Chained(events \cup pending[w] \cup {e})
    BY <2>3, <2>4, ChainGrows DEF AuditTypeOK
  <2> HIDE DEF e
  <2>6. events' \cup pending'[w] = events \cup pending[w] \cup {e}
    BY <2>1, <2>2
  <2>7. AuditTypeOK'
    <3>1. \A v \in Caller : \A f \in events \cup pending[v] : f.id \in 0 .. nextId
      BY <2>4 DEF AuditTypeOK
    <3>2. e.id \in 0 .. nextId
      BY <2>4
    <3>3. \A v \in Caller : \A f \in events' \cup pending'[v] : f.id \in 0 .. nextId
      BY <2>1, <2>2, <3>1, <3>2
    <3>4. nextId' \in Nat /\ nextId' - 1 = nextId
      BY <2>1, <2>4
    <3>5. DOMAIN pending' = Caller /\ DOMAIN tx' = Caller
      BY <2>1 DEF AuditTypeOK
    <3>6. QED
      BY <3>3, <3>4, <3>5 DEF AuditTypeOK
  <2>8. Chained(events \cup pending[w])' /\ Chained(events)'
    BY <2>1, <2>5, <2>6 DEF Chained
  <2>9. QED
    BY <2>1, <2>2, <2>3, <2>7, <2>8, OtherWriters
<1>6. ASSUME NEW w \in Caller, Audit!Commit(w)
      PROVE  AuditInv'
  <2>1. /\ tx[w].at = "open"
        /\ events' = events \cup pending[w]
        /\ pending' = [pending EXCEPT ![w] = {}]
        /\ lock' = IF lock = w THEN Nobody ELSE lock
        /\ tx' = [tx EXCEPT ![w] = Audit!Idle]
        /\ UNCHANGED nextId
    BY <1>6 DEF Audit!Commit, Audit!Ends
  <2>2. /\ tx'[w].at = "idle" /\ \A v \in Caller \ {w} : tx'[v] = tx[v]
        /\ pending'[w] = {} /\ \A v \in Caller \ {w} : pending'[v] = pending[v]
    BY <2>1 DEF AuditTypeOK, Audit!Idle
  <2>3. AuditTypeOK'
    <3>1. \A v \in Caller : events' \cup pending'[v]
                                \subseteq (events \cup pending[w]) \cup (events \cup pending[v])
      BY <2>1, <2>2
    <3>2. \A v \in Caller : \A e \in events' \cup pending'[v] : e.id \in 0 .. nextId - 1
      BY <3>1 DEF AuditTypeOK
    <3>3. QED
      BY <2>1, <3>2 DEF AuditTypeOK
  <2>4. Chained(events)' /\ Chained(events \cup pending[w])'
    <3>1. events' \cup pending'[w] = events \cup pending[w]
      BY <2>1, <2>2
    <3>2. Chained(events \cup pending[w])
      BY DEF AuditInv
    <3>3. QED
      BY <2>1, <3>1, <3>2 DEF Chained
  <2>5. ~ HoldsLock(w)'
    BY <2>2 DEF HoldsLock
  <2>6. events' = events \/ \A v \in Caller \ {w} : ~ HoldsLock(v)
    BY <2>1 DEF HoldsLock
  <2>7. QED
    BY <2>1, <2>2, <2>3, <2>4, <2>5, <2>6, OtherWriters
<1>7. ASSUME NEW w \in Caller, Audit!Rollback(w)
      PROVE  AuditInv'
  <2>1. /\ pending' = [pending EXCEPT ![w] = {}]
        /\ lock' = IF lock = w THEN Nobody ELSE lock
        /\ tx' = [tx EXCEPT ![w] = Audit!Idle]
        /\ UNCHANGED << events, nextId >>
    BY <1>7 DEF Audit!Rollback, Audit!Ends
  <2>2. /\ tx'[w].at = "idle" /\ \A v \in Caller \ {w} : tx'[v] = tx[v]
        /\ pending'[w] = {} /\ \A v \in Caller \ {w} : pending'[v] = pending[v]
    BY <2>1 DEF AuditTypeOK, Audit!Idle
  <2>3. AuditTypeOK'
    <3>1. \A v \in Caller : events' \cup pending'[v] \subseteq events \cup pending[v]
      BY <2>1, <2>2
    <3>2. QED
      BY <2>1, <3>1 DEF AuditTypeOK
  <2>4. Chained(events)' /\ Chained(events \cup pending[w])'
    BY <2>1, <2>2 DEF Chained
  <2>5. ~ HoldsLock(w)'
    BY <2>2 DEF HoldsLock
  <2>6. QED
    BY <2>1, <2>2, <2>3, <2>4, <2>5, OtherWriters
<1>8. QED
  BY <1>1, <1>2, <1>3, <1>4, <1>5, <1>6, <1>7 DEF Audit!Next

\* However many transactions append, race, roll back and use up ids, the chain
\* Verify walks is unbroken (AppendChainTx and its advisory lock).
THEOREM ChainIsSound ==
  ASSUME Audit!WriterAssumption
  PROVE  Audit!Spec => []Audit!ChainVerifies
<1>1. AuditInv => Audit!ChainVerifies
  BY DEF AuditInv, Chained, Audit!ChainVerifies, Audit!Verify, Audit!Before
<1>2. QED
  BY <1>1, AuditInitially, AuditKept, PTL DEF Audit!Spec

-----------------------------------------------------------------------------
(* Schema migrations. *)

Walk == [at: {"down", "look", "run", "serve"}, last: Nat, file: Nat, auto: BOOLEAN]

SchemaTypeOK == ran \in Seq(Nat) /\ replica \in [Caller -> Walk]

RecordedInOrder ==
  ran = [i \in 1 .. Len(ran) |-> i] /\ recorded = 1 .. Len(ran)

\* What a replica at s has walked past is done.
InOrder(s, finished) ==
  /\ s.at \in {"look", "run"} =>
       s.file \in 1 .. s.last /\ 1 .. s.file - 1 \subseteq finished
  /\ s.at = "serve" /\ s.auto => 1 .. s.last \subseteq finished

WalksInOrder(r) == InOrder(replica[r], recorded)

SchemaInv ==
  SchemaTypeOK /\ RecordedInOrder /\ \A r \in Caller : WalksInOrder(r)

LEMMA SchemaInitially == Schema!Init => SchemaInv
<1> SUFFICES ASSUME Schema!Init PROVE SchemaInv
  OBVIOUS
<1>1. ran = << >> /\ recorded = {}
  BY DEF Schema!Init
<1>2. \A r \in Caller : replica[r].at = "down"
  BY DEF Schema!Init, Schema!Down
<1>3. SchemaTypeOK
  BY DEF SchemaTypeOK, Schema!Init, Schema!Down, Walk
<1>4. QED
  BY <1>1, <1>2, <1>3 DEF SchemaInv, RecordedInOrder, WalksInOrder, InOrder

\* The step after a recorded file keeps the walk in order.
LEMMA FollowingInOrder ==
  ASSUME SchemaInv, NEW r \in Caller, NEW R,
         replica[r].at \in {"look", "run"}, recorded \subseteq R,
         replica[r].file \in R
  PROVE  /\ Schema!Following(replica[r]) \in Walk
         /\ InOrder(Schema!Following(replica[r]), R)
<1> DEFINE step == replica[r]
           s == Schema!Following(step)
<1>1. step \in Walk
  BY DEF SchemaInv, SchemaTypeOK
<1>2. step.file \in 1 .. step.last /\ 1 .. step.file - 1 \subseteq R
  BY DEF SchemaInv, WalksInOrder, InOrder
<1>3. step.last \in Nat /\ step.file \in Nat
  BY <1>1 DEF Walk
<1>4. 1 .. step.file \subseteq R
  <2> HIDE DEF step
  <2>1. \A i \in 1 .. step.file : i = replica[r].file \/ i \in 1 .. step.file - 1
    BY <1>3 DEF step
  <2>2. QED
    BY <1>2, <2>1
<1>5. CASE step.file = step.last
  <2>1. s = [step EXCEPT !.at = "serve"]
    BY <1>5 DEF Schema!Following
  <2>2. s \in Walk
    BY <1>1, <2>1 DEF Walk
  <2>3. s.at = "serve" /\ s.last = step.last
    BY <1>1, <2>1 DEF Walk
  <2> HIDE DEF step, s
  <2>4. QED
    BY <1>4, <1>5, <2>2, <2>3 DEF s, step, InOrder
<1>6. CASE step.file # step.last
  <2>1. s = [at |-> "look", last |-> step.last, file |-> step.file + 1, auto |-> step.auto]
    BY <1>6 DEF Schema!Following
  <2>2. step.auto \in BOOLEAN
    BY <1>1 DEF Walk
  <2>3. s \in Walk
    BY <1>3, <2>1, <2>2 DEF Walk
  <2>4. s.at = "look" /\ s.last = step.last /\ s.file = step.file + 1
    BY <2>1
  <2>5. s.file \in 1 .. s.last /\ 1 .. s.file - 1 \subseteq R
    <3> HIDE DEF s, step
    <3>1. s.file - 1 = step.file
      BY <1>3, <2>4
    <3>2. QED
      BY <1>2, <1>3, <1>4, <1>6, <2>4, <3>1
  <2>6. QED
    BY <2>3, <2>4, <2>5 DEF InOrder
<1>7. QED
  BY <1>5, <1>6

\* One replica takes a step, and what is recorded is not forgotten.
LEMMA OneReplica ==
  ASSUME SchemaInv, NEW r \in Caller, NEW s \in Walk,
         replica' = [replica EXCEPT ![r] = s],
         ran' \in Seq(Nat), RecordedInOrder', recorded \subseteq recorded',
         InOrder(s, recorded')
  PROVE  SchemaInv'
<1>1. replica'[r] = s /\ \A q \in Caller \ {r} : replica'[q] = replica[q]
  BY DEF SchemaInv, SchemaTypeOK
<1>2. WalksInOrder(r)'
  BY <1>1 DEF WalksInOrder, InOrder
<1>3. \A q \in Caller \ {r} : WalksInOrder(q)'
  BY <1>1 DEF SchemaInv, WalksInOrder, InOrder
<1>4. SchemaTypeOK'
  BY DEF SchemaInv, SchemaTypeOK
<1>5. QED
  BY <1>2, <1>3, <1>4 DEF SchemaInv

LEMMA SchemaKept ==
  ASSUME Schema!ImageAssumption, SchemaInv, [Schema!Next]_Schema!vars
  PROVE  SchemaInv'
<1>1. CASE UNCHANGED Schema!vars
  BY <1>1 DEF Schema!vars, SchemaInv, SchemaTypeOK, RecordedInOrder, WalksInOrder, InOrder
<1>2. ASSUME NEW r \in Caller, NEW last \in Image, NEW auto \in BOOLEAN,
             Schema!Start(r, last, auto)
      PROVE  SchemaInv'
  <2> DEFINE s == [at |-> IF auto THEN "look" ELSE "serve", last |-> last,
                   file |-> 1, auto |-> auto]
  <2>1. replica' = [replica EXCEPT ![r] = s] /\ UNCHANGED << ran, recorded >>
    BY <1>2 DEF Schema!Start
  <2>2. last \in Nat \ {0}
    BY DEF Schema!ImageAssumption
  <2>3. s \in Walk
    BY <2>2 DEF Walk
  <2>4. /\ s.at = "serve" => ~ s.auto
        /\ s.file = 1 /\ s.last = last
    OBVIOUS
  <2> HIDE DEF s
  <2>5. s.file \in 1 .. s.last /\ 1 .. s.file - 1 \subseteq recorded'
    BY <2>2, <2>4
  <2>6. QED
    BY <2>1, <2>3, <2>4, <2>5, OneReplica
       DEF SchemaInv, SchemaTypeOK, RecordedInOrder, InOrder
<1>3. ASSUME NEW r \in Caller, Schema!Look(r)
      PROVE  SchemaInv'
  <2>1. /\ replica[r].at = "look" /\ UNCHANGED << ran, recorded >>
        /\ replica' = [replica EXCEPT ![r] =
             IF replica[r].file \in recorded THEN Schema!Following(replica[r])
             ELSE [replica[r] EXCEPT !.at = "run"]]
    BY <1>3 DEF Schema!Look, SchemaInv, SchemaTypeOK
  <2>2. ran' \in Seq(Nat) /\ RecordedInOrder' /\ recorded \subseteq recorded'
    BY <2>1 DEF SchemaInv, SchemaTypeOK, RecordedInOrder
  <2>3. CASE replica[r].file \in recorded
    <3>1. /\ Schema!Following(replica[r]) \in Walk
          /\ InOrder(Schema!Following(replica[r]), recorded')
      BY <2>1, <2>2, <2>3, FollowingInOrder
    <3>2. replica' = [replica EXCEPT ![r] = Schema!Following(replica[r])]
      BY <2>1, <2>3
    <3>3. QED
      BY <2>2, <3>1, <3>2, OneReplica
  <2>4. CASE replica[r].file \notin recorded
    <3> DEFINE s == [replica[r] EXCEPT !.at = "run"]
    <3>1. replica[r] \in Walk
      BY DEF SchemaInv, SchemaTypeOK
    <3>2. s \in Walk /\ s.at = "run" /\ s.last = replica[r].last /\ s.file = replica[r].file
      BY <3>1 DEF Walk
    <3>3. replica' = [replica EXCEPT ![r] = s]
      BY <2>1, <2>4
    <3> HIDE DEF s
    <3>4. s.file \in 1 .. s.last /\ 1 .. s.file - 1 \subseteq recorded'
      BY <2>1, <3>2 DEF SchemaInv, WalksInOrder, InOrder
    <3>5. QED
      BY <2>2, <3>2, <3>3, <3>4, OneReplica DEF InOrder
  <2>5. QED
    BY <2>3, <2>4
<1>4. ASSUME NEW r \in Caller,
             replica' = [replica EXCEPT ![r] = Schema!Down],
             UNCHANGED << ran, recorded >>
      PROVE  SchemaInv'
  <2>1. Schema!Down \in Walk /\ Schema!Down.at = "down"
    BY DEF Schema!Down, Walk
  <2>2. QED
    BY <1>4, <2>1, OneReplica
       DEF SchemaInv, SchemaTypeOK, RecordedInOrder, InOrder
<1>5. ASSUME NEW r \in Caller, Schema!Run(r)
      PROVE  SchemaInv'
  <2> DEFINE file == replica[r].file
  <2>1. CASE file \notin recorded
    <3>1. /\ replica[r].at = "run"
          /\ ran' = Append(ran, file) /\ recorded' = recorded \cup {file}
          /\ replica' = [replica EXCEPT ![r] = Schema!Following(replica[r])]
      BY <1>5, <2>1 DEF Schema!Run, Schema!Runs, SchemaInv, SchemaTypeOK
    <3>2. /\ file \in Nat \ {0} /\ 1 .. file - 1 \subseteq recorded
      <4>1. replica[r] \in Walk
        BY DEF SchemaInv, SchemaTypeOK
      <4>2. replica[r].last \in Nat
        BY <4>1 DEF Walk
      <4>3. QED
        BY <3>1, <4>2 DEF SchemaInv, WalksInOrder, InOrder
    <3>3. /\ Len(ran) \in Nat /\ recorded = 1 .. Len(ran)
          /\ ran = [i \in 1 .. Len(ran) |-> i] /\ ran \in Seq(Nat)
      BY DEF SchemaInv, RecordedInOrder, SchemaTypeOK
    <3> HIDE DEF file
    <3>4. file = Len(ran) + 1
      <4>1. file > Len(ran)
        BY <2>1, <3>2, <3>3
      <4>2. file - 1 <= Len(ran)
        BY <3>2, <3>3
      <4>3. QED
        BY <3>2, <3>3, <4>1, <4>2
    <3>5. ran' \in Seq(Nat) /\ Len(ran') = Len(ran) + 1
      BY <3>1, <3>2, <3>3
    <3>6. ran' = [i \in 1 .. Len(ran') |-> i]
      <4>1. \A i \in 1 .. Len(ran) + 1 : ran'[i] = i
        BY <3>1, <3>3, <3>4
      <4>2. QED
        BY <3>5, <4>1
    <3>7. recorded' = 1 .. Len(ran')
      BY <3>1, <3>3, <3>4, <3>5
    <3>8. RecordedInOrder' /\ recorded \subseteq recorded' /\ file \in recorded'
      BY <3>1, <3>6, <3>7 DEF RecordedInOrder
    <3>9. /\ Schema!Following(replica[r]) \in Walk
          /\ InOrder(Schema!Following(replica[r]), recorded')
      BY <3>1, <3>8, FollowingInOrder DEF file
    <3>10. QED
      BY <3>1, <3>5, <3>8, <3>9, OneReplica
  <2>2. CASE file \in recorded
    BY <1>4, <1>5, <2>2 DEF Schema!Run, Schema!Runs, Schema!Fatal, Schema!Dies
  <2>3. QED
    BY <2>1, <2>2
<1>6. ASSUME NEW r \in Caller, Schema!RunFails(r) \/ Schema!Stop(r)
      PROVE  SchemaInv'
  BY <1>4, <1>6 DEF Schema!RunFails, Schema!Stop, Schema!Fatal, Schema!Dies
<1>7. QED
  BY <1>1, <1>2, <1>3, <1>5, <1>6 DEF Schema!Next

\* However replicas of any images overlap, fail and start again, the files that
\* took effect are the first ones, once and in name order, and a replica that
\* migrated serves with none pending (RunMigrations).
THEOREM MigrationsAreInOrder ==
  ASSUME Schema!ImageAssumption
  PROVE  Schema!Spec => []Schema!SchemaInOrder
<1>1. SchemaInv => Schema!SchemaInOrder
  <2> SUFFICES ASSUME SchemaInv PROVE Schema!SchemaInOrder
    OBVIOUS
  <2>1. Schema!RanInOrder
    <3>1. /\ ran = [i \in 1 .. Len(ran) |-> i] /\ recorded = 1 .. Len(ran)
          /\ Len(ran) \in Nat
      BY DEF SchemaInv, RecordedInOrder, SchemaTypeOK
    <3>2. { ran[i] : i \in DOMAIN ran } = 1 .. Len(ran)
      <4> DEFINE n == Len(ran)
      <4> HIDE DEF n
      <4>1. DOMAIN ran = 1 .. n /\ \A i \in 1 .. n : ran[i] = i
        BY <3>1 DEF n
      <4>2. QED
        BY <4>1 DEF n
    <3>3. QED
      BY <3>1, <3>2 DEF Schema!RanInOrder, Schema!ToSet
  <2>2. Schema!ServesCurrent
    BY DEF SchemaInv, WalksInOrder, InOrder, Schema!ServesCurrent, Schema!Pending
  <2>3. QED
    BY <2>1, <2>2 DEF Schema!SchemaInOrder
<1>2. QED
  BY <1>1, SchemaInitially, SchemaKept, PTL DEF Schema!Spec

-----------------------------------------------------------------------------
(* Payroll runs. *)

Asking == [at: {"free", "look", "create", "post", "record"}, ref: RunRef \cup {NoRef}]

PayrollTypeOK ==
  /\ entry \in [RunRef -> {"none", "draft", "posted"}]
  /\ call \in [Caller -> Asking]
  /\ \A c \in Caller : call[c].at # "free" => call[c].ref \in RunRef

\* A caller that is about to record the run has posted its entry.
RecordsPosted ==
  \A c \in Caller : call[c].at = "record" => entry[call[c].ref] = "posted"

PayrollInv ==
  /\ PayrollTypeOK /\ RecordsPosted
  /\ Payroll!RecordedIsPosted /\ Payroll!OneCallerRecords
  /\ recorded \subseteq RunRef

LEMMA PayrollInitially == Payroll!Init => PayrollInv
BY DEF Payroll!Init, Payroll!Free, PayrollInv, PayrollTypeOK, Asking, RecordsPosted,
       Payroll!RecordedIsPosted, Payroll!OneCallerRecords

\* A caller moves on, and no posted entry changes.
LEMMA OneCaller ==
  ASSUME PayrollInv, NEW c \in Caller, NEW n \in Asking,
         call' = [call EXCEPT ![c] = n],
         n.at # "free" => n.ref \in RunRef,
         entry' \in [RunRef -> {"none", "draft", "posted"}],
         \A r \in RunRef : entry[r] = "posted" => entry'[r] = "posted",
         n.at = "record" =>
           /\ entry'[n.ref] = "posted"
           /\ \A d \in Caller \ {c} : ~ (call[d].at = "record" /\ call[d].ref = n.ref),
         \A r \in recorded' \ recorded : r \in RunRef /\ entry'[r] = "posted"
  PROVE  PayrollInv'
<1> USE DEF PayrollInv
<1>1. call'[c] = n /\ \A d \in Caller \ {c} : call'[d] = call[d]
  BY DEF PayrollTypeOK
<1>2. PayrollTypeOK'
  BY <1>1 DEF PayrollTypeOK
<1>3. RecordsPosted'
  BY <1>1 DEF RecordsPosted, PayrollTypeOK
<1>4. Payroll!RecordedIsPosted' /\ recorded' \subseteq RunRef
  BY DEF Payroll!RecordedIsPosted
<1>5. Payroll!OneCallerRecords'
  BY <1>1 DEF Payroll!OneCallerRecords
<1>6. QED
  BY <1>2, <1>3, <1>4, <1>5

LEMMA PayrollKept ==
  ASSUME PayrollInv, [Payroll!Next]_Payroll!vars
  PROVE  PayrollInv'
<1> USE DEF PayrollInv
<1>1. CASE UNCHANGED Payroll!vars \/ Payroll!CloseOrReopen
  BY <1>1 DEF Payroll!vars, Payroll!CloseOrReopen, PayrollTypeOK, RecordsPosted,
              Payroll!RecordedIsPosted, Payroll!OneCallerRecords
<1>2. ASSUME NEW c \in Caller, NEW r \in RunRef, Payroll!Ask(c, r)
      PROVE  PayrollInv'
  <2> DEFINE n == [at |-> "look", ref |-> r]
  <2>1. call' = [call EXCEPT ![c] = n] /\ UNCHANGED << entry, recorded >>
    BY <1>2 DEF Payroll!Ask
  <2>2. n \in Asking /\ n.at = "look" /\ n.ref = r
    BY DEF Asking
  <2> HIDE DEF n
  <2>3. QED
    BY <2>1, <2>2, OneCaller DEF PayrollTypeOK
<1>3. ASSUME NEW c \in Caller, entry' = entry,
             \/ recorded' = recorded
             \/ call[c].at = "record" /\ recorded' = recorded \cup {call[c].ref},
             call' = [call EXCEPT ![c] = Payroll!Free]
      PROVE  PayrollInv'
  <2>1. Payroll!Free.at = "free" /\ Payroll!Free \in Asking
    BY DEF Payroll!Free, Asking
  <2>2. \A r \in recorded' \ recorded : r \in RunRef /\ entry'[r] = "posted"
    BY <1>3 DEF PayrollTypeOK, RecordsPosted
  <2>3. QED
    BY <1>3, <2>1, <2>2, OneCaller DEF PayrollTypeOK
<1>4. ASSUME NEW c \in Caller, Payroll!Look(c)
      PROVE  PayrollInv'
  <2>1. CASE call[c].ref \in recorded
    <3>1. call' = [call EXCEPT ![c] = Payroll!Free] /\ entry' = entry /\ recorded' = recorded
      BY <1>4, <2>1 DEF Payroll!Look
    <3>2. QED
      BY <1>3, <3>1
  <2>2. CASE call[c].ref \notin recorded
    <3> DEFINE n == [call[c] EXCEPT !.at = "create"]
    <3>1. call' = [call EXCEPT ![c] = n] /\ call[c].at = "look" /\ UNCHANGED << entry, recorded >>
      BY <1>4, <2>2 DEF Payroll!Look, Payroll!Goto
    <3>2. call[c] \in Asking /\ call[c].ref \in RunRef
      BY <3>1 DEF PayrollTypeOK
    <3>3. n \in Asking /\ n.at = "create" /\ n.ref = call[c].ref
      BY <3>2 DEF Asking
    <3> HIDE DEF n
    <3>4. QED
      BY <3>1, <3>2, <3>3, OneCaller DEF PayrollTypeOK
  <2>3. QED
    BY <2>1, <2>2
<1>5. ASSUME NEW c \in Caller, Payroll!Create(c)
      PROVE  PayrollInv'
  <2>1. CASE entry[call[c].ref] = "none"
    <3> DEFINE n == [call[c] EXCEPT !.at = "post"]
               r == call[c].ref
    <3>1. /\ call' = [call EXCEPT ![c] = n] /\ call[c].at = "create"
          /\ entry' = [entry EXCEPT ![r] = "draft"] /\ UNCHANGED recorded
      BY <1>5, <2>1 DEF Payroll!Create, Payroll!Goto
    <3>2. call[c] \in Asking /\ r \in RunRef
      BY <3>1 DEF PayrollTypeOK
    <3>3. n \in Asking /\ n.at = "post" /\ n.ref = r
      BY <3>2 DEF Asking
    <3>4. /\ entry' \in [RunRef -> {"none", "draft", "posted"}]
          /\ \A q \in RunRef : entry[q] = "posted" => entry'[q] = "posted"
      BY <2>1, <3>1, <3>2 DEF PayrollTypeOK
    <3> HIDE DEF n, r
    <3>5. QED
      BY <3>1, <3>2, <3>3, <3>4, OneCaller
  <2>2. CASE entry[call[c].ref] # "none"
    <3>1. call' = [call EXCEPT ![c] = Payroll!Free] /\ entry' = entry /\ recorded' = recorded
      BY <1>5, <2>2 DEF Payroll!Create
    <3>2. QED
      BY <1>3, <3>1
  <2>3. QED
    BY <2>1, <2>2
<1>6. ASSUME NEW c \in Caller, Payroll!Post(c)
      PROVE  PayrollInv'
  <2>1. CASE entry[call[c].ref] = "draft" /\ ~ shut
    <3> DEFINE n == [call[c] EXCEPT !.at = "record"]
               r == call[c].ref
    <3>1. /\ call' = [call EXCEPT ![c] = n] /\ call[c].at = "post"
          /\ entry' = [entry EXCEPT ![r] = "posted"] /\ UNCHANGED recorded
      BY <1>6, <2>1 DEF Payroll!Post, Payroll!Goto
    <3>2. call[c] \in Asking /\ r \in RunRef
      BY <3>1 DEF PayrollTypeOK
    <3>3. n \in Asking /\ n.ref = r
      BY <3>2 DEF Asking
    <3>4. /\ entry' \in [RunRef -> {"none", "draft", "posted"}]
          /\ \A q \in RunRef : entry[q] = "posted" => entry'[q] = "posted"
          /\ entry'[r] = "posted"
      BY <2>1, <3>1, <3>2 DEF PayrollTypeOK
    <3>5. \A d \in Caller \ {c} : ~ (call[d].at = "record" /\ call[d].ref = r)
      BY <2>1 DEF RecordsPosted
    <3> HIDE DEF n, r
    <3>6. QED
      BY <3>1, <3>2, <3>3, <3>4, <3>5, OneCaller
  <2>2. CASE ~ (entry[call[c].ref] = "draft" /\ ~ shut)
    <3>1. call' = [call EXCEPT ![c] = Payroll!Free] /\ entry' = entry /\ recorded' = recorded
      BY <1>6, <2>2 DEF Payroll!Post
    <3>2. QED
      BY <1>3, <3>1
  <2>3. QED
    BY <2>1, <2>2
<1>7. ASSUME NEW c \in Caller, Payroll!Record(c) \/ Payroll!CallFails(c)
      PROVE  PayrollInv'
  <2>1. /\ call' = [call EXCEPT ![c] = Payroll!Free] /\ entry' = entry
        /\ \/ recorded' = recorded
           \/ call[c].at = "record" /\ recorded' = recorded \cup {call[c].ref}
    BY <1>7 DEF Payroll!Record, Payroll!CallFails
  <2>2. QED
    BY <1>3, <2>1
<1>8. ASSUME NEW r \in RunRef, Payroll!PostByHand(r) \/ Payroll!DeleteDraft(r)
      PROVE  PayrollInv'
  <2>1. /\ entry[r] = "draft" /\ UNCHANGED << call, recorded >>
        /\ \E s \in {"posted", "none"} : entry' = [entry EXCEPT ![r] = s]
    BY <1>8 DEF Payroll!PostByHand, Payroll!DeleteDraft
  <2>2. /\ entry' \in [RunRef -> {"none", "draft", "posted"}]
        /\ \A q \in RunRef : entry[q] = "posted" => entry'[q] = "posted"
    BY <2>1 DEF PayrollTypeOK
  <2>3. QED
    BY <2>1, <2>2 DEF PayrollTypeOK, RecordsPosted, Payroll!RecordedIsPosted,
                      Payroll!OneCallerRecords
<1>9. QED
  BY <1>1, <1>2, <1>4, <1>5, <1>6, <1>7, <1>8
     DEF Payroll!Next, Payroll!Posting, Payroll!Advance

\* However callers race for one reference, fail between its four transactions
\* and meet drafts posted or deleted by hand, a recorded run has its posted
\* entry and one caller records it (PostPayrollRun).
THEOREM RunsArePostedOnce == Payroll!Spec => []Payroll!RunPostedOnce
<1>1. PayrollInv => Payroll!RunPostedOnce
  BY DEF PayrollInv, Payroll!RunPostedOnce
<1>2. QED
  BY <1>1, PayrollInitially, PayrollKept, PTL DEF Payroll!Spec

-----------------------------------------------------------------------------
(* The year-end. *)

YearTypeOK ==
  /\ result \in Int /\ retained \in Int
  /\ booked \in BOOLEAN /\ disturbed \in BOOLEAN
  /\ call \in [Caller -> [at: {"idle", "read", "book", "count", "lock"},
                          read: Int, month: Nat]]
  /\ entries \in [Year!Signed -> Nat]
  /\ landing \subseteq Year!Signed

\* A call past its booking found or made the entry, and until something is
\* posted or booked the balance a call has read is the year's.
ReadsStand ==
  \A c \in Caller :
    /\ call[c].at \in {"count", "lock"} => booked
    /\ call[c].at = "book" /\ ~ booked /\ ~ disturbed => call[c].read = result

YearInv ==
  YearTypeOK /\ ReadsStand /\ Year!ClosedYearNetsToZero /\ Year!ProfitIsMoved

Profit(e) == [x \in Year!Signed |-> x * e[x]]

LEMMA YearSum == Year!ProfitIsMoved <=> result + retained = SumFunction(Profit(entries))
BY DEF Year!ProfitIsMoved, Profit, SumFunction, SumFunctionOnSet,
       FoldFunctionOnSet, MapThenFoldSet, Year!SumFunction,
       Year!SumFunctionOnSet, Year!FoldFunctionOnSet, Year!MapThenFoldSet

LEMMA SignedFinite ==
  ASSUME Year!YearAssumption
  PROVE  IsFiniteSet(Year!Signed) /\ Year!Signed \subseteq Int
<1>1. IsFiniteSet(YearAmount) /\ YearAmount \subseteq Int
  BY DEF Year!YearAssumption, Year!IsFiniteSet, IsFiniteSet
<1>2. IsFiniteSet({ - a : a \in YearAmount })
  <2> DEFINE f == [a \in YearAmount |-> - a]
             T == { - a : a \in YearAmount }
  <2>1. f \in Surjection(YearAmount, T)
    BY DEF Surjection
  <2> HIDE DEF f, T
  <2>2. IsFiniteSet(T)
    BY <1>1, <2>1, FS_Surjection
  <2>3. QED
    BY <2>2 DEF T
<1>3. Year!Signed = YearAmount \cup { - a : a \in YearAmount }
  BY DEF Year!Signed
<1>4. IsFiniteSet(YearAmount \cup { - a : a \in YearAmount })
  BY <1>1, <1>2, FS_Union
<1>5. \A a \in YearAmount : a \in Int /\ - a \in Int
  BY <1>1
<1>6. Year!Signed \subseteq Int
  BY <1>5 DEF Year!Signed
<1>7. QED
  BY <1>3, <1>4, <1>6

LEMMA YearInitially ==
  ASSUME Year!YearAssumption, Year!Init
  PROVE  YearInv
<1> DEFINE p == Profit(entries)
<1>1. YearTypeOK
  <2>1. Year!Idle \in [at: {"idle", "read", "book", "count", "lock"},
                       read: Int, month: Nat]
    BY DEF Year!Idle
  <2>2. /\ result = 0 /\ retained = 0 /\ booked = FALSE /\ disturbed = FALSE
        /\ call = [c \in Caller |-> Year!Idle]
        /\ entries = [x \in Year!Signed |-> 0] /\ landing = {}
    BY DEF Year!Init
  <2>3. call \in [Caller -> [at: {"idle", "read", "book", "count", "lock"},
                             read: Int, month: Nat]]
    BY <2>1, <2>2
  <2>4. entries \in [Year!Signed -> Nat] /\ landing \subseteq Year!Signed
    BY <2>2
  <2>5. result \in Int /\ retained \in Int
    BY <2>2
  <2>6. booked \in BOOLEAN /\ disturbed \in BOOLEAN
    BY <2>2
  <2>7. QED
    BY <2>3, <2>4, <2>5, <2>6 DEF YearTypeOK
<1>2. ReadsStand /\ Year!ClosedYearNetsToZero
  BY DEF Year!Init, Year!Idle, ReadsStand, Year!ClosedYearNetsToZero
<1>3. IsFiniteSet(Year!Signed) /\ Year!Signed \subseteq Int
  BY SignedFinite
<1>4. entries = [x \in Year!Signed |-> 0] /\ result = 0 /\ retained = 0
  BY DEF Year!Init
<1>5. p \in [Year!Signed -> Int] /\ \A x \in Year!Signed : p[x] = 0
  BY <1>3, <1>4 DEF Profit
<1> HIDE DEF p
<1>6. SumFunction(p) = 0
  BY <1>3, <1>5, SumZero
<1>7. Year!ProfitIsMoved
  BY <1>4, <1>6, YearSum DEF p
<1>8. QED
  BY <1>1, <1>2, <1>7 DEF YearInv

LEMMA OneMoreOrLess ==
  ASSUME NEW a \in Int, NEW b \in Int
  PROVE  /\ 1 * a = a /\ (-1) * a = - a
         /\ a * (b + 1) = a * b + a
         /\ a * (b + (-1)) = a * b - a
OBVIOUS

\* An entry that is posted, or reversed, changes the year's result by as much
\* as what its amount adds up to.
LEMMA YearMoved ==
  ASSUME Year!YearAssumption, YearInv, NEW x \in Year!Signed,
         NEW n \in {1, -1}, Year!Moved(x, n), landing' \subseteq Year!Signed
  PROVE  YearInv'
<1> DEFINE p == Profit(entries)
           q == Profit(entries')
<1>1. IsFiniteSet(Year!Signed) /\ Year!Signed \subseteq Int /\ x \in Int /\ n \in Int
  BY SignedFinite
<1>2. /\ YearTypeOK /\ ReadsStand /\ Year!ClosedYearNetsToZero
      /\ result + retained = SumFunction(p)
  BY YearSum DEF YearInv
<1>3. /\ entries' = [entries EXCEPT ![x] = @ + n] /\ entries[x] + n \in Nat
      /\ result' = result + n * x
      /\ disturbed' = (disturbed \/ Year!SomeRead)
      /\ retained' = retained /\ booked' = booked /\ closed' = closed
      /\ drafts' = drafts /\ call' = call
  BY DEF Year!Moved, Year!YearAssumption
<1>4. result' \in Int /\ entries' \in [Year!Signed -> Nat] /\ entries \in [Year!Signed -> Nat]
  <2>1. n * x \in Int
    BY <1>1
  <2>2. QED
    BY <1>2, <1>3, <2>1 DEF YearTypeOK
<1>5. disturbed' \in BOOLEAN
  BY <1>2, <1>3 DEF YearTypeOK, Year!SomeRead
<1>6. YearTypeOK'
  BY <1>2, <1>3, <1>4, <1>5 DEF YearTypeOK
<1>7. ReadsStand' /\ Year!ClosedYearNetsToZero'
  BY <1>2, <1>3 DEF ReadsStand, Year!ClosedYearNetsToZero, Year!SomeRead
<1>8. /\ p \in [Year!Signed -> Int] /\ q \in [Year!Signed -> Int]
      /\ p[x] = x * entries[x] /\ q[x] = x * entries'[x]
      /\ \A y \in Year!Signed \ {x} : q[y] = p[y]
  BY <1>1, <1>3, <1>4 DEF Profit
<1>9. q[x] = p[x] + n * x
  <2>1. entries'[x] = entries[x] + n /\ entries[x] \in Int
    BY <1>3, <1>4
  <2>2. CASE n = 1
    BY <1>1, <1>8, <2>1, <2>2, OneMoreOrLess
  <2>3. CASE n = -1
    <3>1. q[x] = x * (entries[x] + (-1))
      BY <1>8, <2>1, <2>3
    <3>2. q[x] = x * entries[x] - x /\ (-1) * x = - x
      BY <1>1, <2>1, <3>1, OneMoreOrLess
    <3>3. QED
      BY <1>1, <1>8, <2>3, <3>2
  <2>4. QED
    BY <2>2, <2>3
<1> HIDE DEF p, q
<1>10. SumFunction(q) = SumFunction(p) - p[x] + q[x]
  <2> DEFINE S == Year!Signed
  <2>1. /\ IsFiniteSet(S) /\ p \in [S -> Int] /\ q \in [S -> Int] /\ x \in S
        /\ \A y \in S \ {x} : q[y] = p[y]
    BY <1>1, <1>8
  <2> HIDE DEF S
  <2>2. QED
    BY ONLY <2>1, SumChange
<1>11. result' + retained' = SumFunction(q)
  <2>1. /\ p[x] \in Int /\ q[x] \in Int /\ SumFunction(p) \in Int
        /\ result \in Int /\ retained \in Int /\ n * x \in Int
    BY <1>1, <1>2, <1>8, SumType DEF YearTypeOK
  <2>2. result' + retained' = (result + retained) + n * x
    BY <1>3, <2>1
  <2>3. QED
    BY <1>2, <1>9, <1>10, <2>1, <2>2
<1>12. (Year!ProfitIsMoved)' <=> result' + retained' = SumFunction(q)
  BY DEF Year!ProfitIsMoved, Profit, q, SumFunction, SumFunctionOnSet,
         FoldFunctionOnSet, MapThenFoldSet, Year!SumFunction,
         Year!SumFunctionOnSet, Year!FoldFunctionOnSet, Year!MapThenFoldSet
<1>13. QED
  BY <1>6, <1>7, <1>11, <1>12 DEF YearInv

\* The same for a step that leaves the entries alone and moves what it takes
\* from the result to retained earnings.
LEMMA YearUnmoved ==
  ASSUME YearInv, entries' = entries, result' + retained' = result + retained
  PROVE  (Year!ProfitIsMoved)'
<1>1. result + retained = SumFunction(Profit(entries))
  BY YearSum DEF YearInv
<1>2. (Year!ProfitIsMoved)' <=> result' + retained' = SumFunction(Profit(entries'))
  BY DEF Year!ProfitIsMoved, Profit, SumFunction, SumFunctionOnSet,
         FoldFunctionOnSet, MapThenFoldSet, Year!SumFunction,
         Year!SumFunctionOnSet, Year!FoldFunctionOnSet, Year!MapThenFoldSet
<1>3. QED
  BY <1>1, <1>2

\* The others leave the result, the closing entry and the calls alone.
LEMMA YearOthers ==
  ASSUME YearInv, landing' \subseteq Year!Signed, result' = result,
         retained' = retained, booked' = booked, disturbed' = disturbed,
         call' = call, entries' = entries
  PROVE  YearInv'
<1>1. YearTypeOK' /\ ReadsStand' /\ Year!ClosedYearNetsToZero'
  BY DEF YearInv, YearTypeOK, ReadsStand, Year!ClosedYearNetsToZero
<1>2. (Year!ProfitIsMoved)'
  BY YearUnmoved
<1>3. QED
  BY <1>1, <1>2 DEF YearInv

\* A call's step that books nothing.
LEMMA YearCalled ==
  ASSUME YearInv, NEW c \in Caller,
         NEW w \in [at: {"idle", "read", "book", "count", "lock"}, read: Int, month: Nat],
         call' = [call EXCEPT ![c] = w],
         w.at \in {"count", "lock"} => booked,
         w.at = "book" => w.read = result,
         landing' = landing, result' = result, retained' = retained,
         booked' = booked, disturbed' = disturbed, entries' = entries
  PROVE  YearInv'
<1>1. YearTypeOK /\ ReadsStand /\ Year!ClosedYearNetsToZero
  BY DEF YearInv
<1>2. call'[c] = w /\ \A d \in Caller \ {c} : call'[d] = call[d]
  BY <1>1 DEF YearTypeOK
<1>3. YearTypeOK'
  BY <1>1 DEF YearTypeOK
<1>4. ReadsStand'
  BY <1>1, <1>2 DEF ReadsStand
<1>5. (Year!ClosedYearNetsToZero)'
  BY <1>1 DEF Year!ClosedYearNetsToZero
<1>6. (Year!ProfitIsMoved)'
  BY YearUnmoved
<1>7. QED
  BY <1>3, <1>4, <1>5, <1>6 DEF YearInv

LEMMA YearBooked ==
  ASSUME YearInv, NEW c \in Caller, Year!BookClosing(c)
  PROVE  YearInv'
<1>1. YearTypeOK /\ ReadsStand /\ Year!ClosedYearNetsToZero
  BY DEF YearInv
<1>2. /\ call[c].at = "book" /\ call[c].read \in Int
      /\ call' = [call EXCEPT ![c].at = "count"]
      /\ closed' = closed /\ drafts' = drafts /\ entries' = entries
      /\ landing' = landing /\ disturbed' = disturbed
  BY <1>1 DEF Year!BookClosing, YearTypeOK
<1>3. /\ result' \in Int /\ retained' \in Int /\ booked' = TRUE
      /\ result' + retained' = result + retained
      /\ ~ disturbed => result' = 0
  <2>1. CASE booked
    BY <1>1, <2>1 DEF Year!BookClosing, Year!AlreadyBooked, YearTypeOK,
                      Year!ClosedYearNetsToZero
  <2>2. CASE ~ booked
    <3>1. result' = result - call[c].read /\ retained' = retained + call[c].read /\ booked' = TRUE
      BY <2>2 DEF Year!BookClosing, Year!AlreadyBooked, Year!Zeroed
    <3>2. result \in Int /\ retained \in Int
      BY <1>1 DEF YearTypeOK
    <3>3. ~ disturbed => call[c].read = result
      BY <1>1, <1>2, <2>2 DEF ReadsStand
    <3>4. QED
      BY <1>2, <3>1, <3>2, <3>3
  <2>3. QED
    BY <2>1, <2>2
<1>4. call' \in [Caller -> [at: {"idle", "read", "book", "count", "lock"},
                            read: Int, month: Nat]]
  BY <1>1, <1>2 DEF YearTypeOK
<1>5. YearTypeOK'
  BY <1>1, <1>2, <1>3, <1>4 DEF YearTypeOK
<1>6. ReadsStand'
  BY <1>3 DEF ReadsStand
<1>7. (Year!ClosedYearNetsToZero)'
  BY <1>2, <1>3 DEF Year!ClosedYearNetsToZero
<1>8. (Year!ProfitIsMoved)'
  BY <1>2, <1>3, YearUnmoved
<1>9. QED
  BY <1>5, <1>6, <1>7, <1>8 DEF YearInv

LEMMA YearKept ==
  ASSUME Year!YearAssumption, YearInv, [Year!Next]_Year!vars
  PROVE  YearInv'
<1> USE DEF YearTypeOK
<1>1. YearTypeOK /\ LastMonth \in Nat
  BY DEF YearInv, Year!YearAssumption
<1>2. ASSUME UNCHANGED Year!vars
      PROVE  YearInv'
  BY <1>1, <1>2, YearOthers DEF Year!vars
<1>3. ASSUME NEW m \in Year!Month,
             \/ Year!CreateDraft(m) \/ Year!DeleteDrafts(m)
             \/ Year!CloseMonth(m) \/ Year!ReopenMonth(m)
             \/ \E x \in Year!Signed : Year!Look(m, x)
      PROVE  YearInv'
  <2>1. /\ landing' \subseteq Year!Signed /\ result' = result
        /\ retained' = retained /\ booked' = booked
        /\ disturbed' = disturbed /\ call' = call /\ entries' = entries
    BY <1>1, <1>3 DEF Year!CreateDraft, Year!DeleteDrafts, Year!CloseMonth,
                      Year!ReopenMonth, Year!Look
  <2>2. QED
    BY <2>1, YearOthers
<1>4. ASSUME NEW x \in Year!Signed, Year!LookFails(x)
      PROVE  YearInv'
  BY <1>1, <1>4, YearOthers DEF Year!LookFails
<1>5. ASSUME NEW x \in Year!Signed, Year!Land(x)
      PROVE  YearInv'
  <2>1. Year!Moved(x, 1) /\ landing' \subseteq Year!Signed
    BY <1>1, <1>5 DEF Year!Land
  <2>2. QED
    BY <2>1, YearMoved
<1>6. ASSUME NEW x \in Year!Signed, Year!Reverse(x)
      PROVE  YearInv'
  <2>1. Year!Moved(x, -1) /\ landing' \subseteq Year!Signed
    BY <1>1, <1>6 DEF Year!Reverse
  <2>2. QED
    BY <2>1, YearMoved
<1>7. ASSUME NEW c \in Caller, Year!CloseFiscalYear(c) \/ Year!CallFails(c)
      PROVE  YearInv'
  <2> DEFINE W == [at: {"idle", "read", "book", "count", "lock"},
                   read: Int, month: Nat]
  <2>1. Year!Idle \in W /\ Year!Idle.at = "idle" /\ call[c] \in W
    BY <1>1 DEF Year!Idle
  <2>2. CASE Year!CountDrafts(c)
    <3> DEFINE w == [at |-> "read", read |-> call[c].read, month |-> call[c].month]
    <3>1. w \in W /\ w.at = "read"
      BY <2>1
    <3>2. call' = [call EXCEPT ![c] = w]
      <4>1. call[c] = [at |-> call[c].at, read |-> call[c].read, month |-> call[c].month]
        BY <2>1
      <4>2. [call[c] EXCEPT !.at = "read"] = w
        BY <4>1
      <4>3. call' = [call EXCEPT ![c] = [call[c] EXCEPT !.at = "read"]]
        BY <2>2 DEF Year!CountDrafts
      <4>4. QED
        BY <4>2, <4>3
    <3>3. /\ landing' = landing /\ result' = result /\ retained' = retained
          /\ booked' = booked /\ disturbed' = disturbed /\ entries' = entries
      BY <2>2 DEF Year!CountDrafts
    <3> HIDE DEF w
    <3>4. QED
      BY <3>1, <3>2, <3>3, YearCalled
  <2>3. CASE Year!ReadBalances(c)
    <3> DEFINE w == [at |-> "book", read |-> result, month |-> 1]
    <3>1. w \in W /\ w.at = "book" /\ w.read = result
      BY <1>1
    <3>2. call' = [call EXCEPT ![c] = Year!Idle] \/ call' = [call EXCEPT ![c] = w]
      BY <2>3 DEF Year!ReadBalances
    <3>3. /\ landing' = landing /\ result' = result /\ retained' = retained
          /\ booked' = booked /\ disturbed' = disturbed /\ entries' = entries
      BY <2>3 DEF Year!ReadBalances
    <3> HIDE DEF w
    <3>4. CASE call' = [call EXCEPT ![c] = Year!Idle]
      BY <2>1, <3>3, <3>4, YearCalled
    <3>5. CASE call' = [call EXCEPT ![c] = w]
      BY <3>1, <3>3, <3>5, YearCalled
    <3>6. QED
      BY <3>2, <3>4, <3>5
  <2>4. CASE Year!BookClosing(c)
    BY <2>4, YearBooked
  <2>5. CASE Year!CountMonth(c)
    <3> DEFINE w == [at |-> "lock", read |-> call[c].read, month |-> call[c].month]
    <3>1. w \in W /\ w.at = "lock"
      BY <2>1
    <3>2. call' = [call EXCEPT ![c] = Year!Idle] \/ call' = [call EXCEPT ![c] = w]
      <4>1. call[c] = [at |-> call[c].at, read |-> call[c].read, month |-> call[c].month]
        BY <2>1
      <4>2. [call[c] EXCEPT !.at = "lock"] = w
        BY <4>1
      <4>3. \/ call' = [call EXCEPT ![c] = Year!Idle]
            \/ call' = [call EXCEPT ![c] = [call[c] EXCEPT !.at = "lock"]]
        BY <2>5 DEF Year!CountMonth
      <4>4. QED
        BY <4>2, <4>3
    <3>3. /\ landing' = landing /\ result' = result /\ retained' = retained
          /\ booked' = booked /\ disturbed' = disturbed /\ entries' = entries
      BY <2>5 DEF Year!CountMonth
    <3>4. booked
      BY <2>5 DEF YearInv, ReadsStand, Year!CountMonth
    <3> HIDE DEF w
    <3>5. CASE call' = [call EXCEPT ![c] = Year!Idle]
      BY <2>1, <3>3, <3>5, YearCalled
    <3>6. CASE call' = [call EXCEPT ![c] = w]
      BY <3>1, <3>3, <3>4, <3>6, YearCalled
    <3>7. QED
      BY <3>2, <3>5, <3>6
  <2>6. CASE Year!LockMonth(c)
    <3> DEFINE w == [at |-> "count", read |-> call[c].read, month |-> call[c].month + 1]
    <3>1. w \in W /\ w.at = "count"
      BY <2>1
    <3>2. call' = [call EXCEPT ![c] = Year!Idle] \/ call' = [call EXCEPT ![c] = w]
      BY <2>1, <2>6 DEF Year!LockMonth
    <3>3. /\ landing' = landing /\ result' = result /\ retained' = retained
          /\ booked' = booked /\ disturbed' = disturbed /\ entries' = entries
      BY <2>6 DEF Year!LockMonth
    <3>4. booked
      BY <2>6 DEF YearInv, ReadsStand, Year!LockMonth
    <3> HIDE DEF w
    <3>5. CASE call' = [call EXCEPT ![c] = Year!Idle]
      BY <2>1, <3>3, <3>5, YearCalled
    <3>6. CASE call' = [call EXCEPT ![c] = w]
      BY <3>1, <3>3, <3>4, <3>6, YearCalled
    <3>7. QED
      BY <3>2, <3>5, <3>6
  <2>7. CASE Year!CallFails(c)
    <3>1. /\ call' = [call EXCEPT ![c] = Year!Idle]
          /\ landing' = landing /\ result' = result /\ retained' = retained
          /\ booked' = booked /\ disturbed' = disturbed /\ entries' = entries
      BY <2>7 DEF Year!CallFails
    <3>2. QED
      BY <2>1, <3>1, YearCalled
  <2>8. QED
    BY <1>7, <2>2, <2>3, <2>4, <2>5, <2>6, <2>7 DEF Year!CloseFiscalYear
<1>8. QED
  BY <1>2, <1>3, <1>4, <1>5, <1>6, <1>7 DEF Year!Next

\* Once its closing entry is booked a year nets to zero, unless something was
\* posted or reversed after a request had read the balances; and what the entry
\* moved to retained earnings and what is left make up what was posted, also
\* when requests race each other and the postings (CloseFiscalYear).
THEOREM YearIsSound ==
  ASSUME Year!YearAssumption
  PROVE  Year!Spec => []Year!YearCloses
<1>1. Year!Init => YearInv
  BY YearInitially
<1>2. YearInv /\ [Year!Next]_Year!vars => YearInv'
  BY YearKept
<1>3. YearInv => Year!YearCloses
  BY DEF YearInv, Year!YearCloses
<1>4. QED
  BY <1>1, <1>2, <1>3, PTL DEF Year!Spec

\* On a locked year no posting starts, and its entries grow only by one that
\* had looked at its month before the lock (CloseFiscalYear, ledger/yearend.go).
THEOREM LockedYearIsKept ==
  ASSUME Year!YearAssumption
  PROVE  Year!Spec => [][Year!KeepsLocked]_Year!vars
<1>1. Year!Init => YearInv
  BY YearInitially
<1>2. YearInv /\ [Year!Next]_Year!vars => YearInv'
  BY YearKept
<1>3. YearInv /\ [Year!Next]_Year!vars => [Year!KeepsLocked]_Year!vars
  <2> SUFFICES ASSUME YearInv, Year!Next, closed = Year!Month
      PROVE  /\ landing' \subseteq landing
             /\ \A x \in Year!Signed : entries'[x] > entries[x] => x \in landing \ landing'
    BY DEF Year!KeepsLocked
  <2>1. entries \in [Year!Signed -> Nat]
    BY DEF YearInv, YearTypeOK
  <2>2. CASE landing' = landing /\ entries' = entries
    BY <2>1, <2>2
  <2>3. ASSUME NEW m \in Year!Month, NEW x \in Year!Signed, Year!Look(m, x)
        PROVE  FALSE
    BY <2>3 DEF Year!Look
  <2>4. ASSUME NEW x \in Year!Signed, Year!LookFails(x)
        PROVE  landing' \subseteq landing /\ entries' = entries
    BY <2>4 DEF Year!LookFails
  <2>5. ASSUME NEW x \in Year!Signed, Year!Land(x)
        PROVE  /\ landing' \subseteq landing /\ x \in landing \ landing'
               /\ \A y \in Year!Signed \ {x} : entries'[y] = entries[y]
    BY <2>1, <2>5 DEF Year!Land, Year!Moved
  <2>6. ASSUME NEW x \in Year!Signed, Year!Reverse(x)
        PROVE  landing' = landing /\ \A y \in Year!Signed : ~ entries'[y] > entries[y]
    <3>1. landing' = landing /\ entries' = [entries EXCEPT ![x] = @ + (-1)]
      BY <2>6 DEF Year!Reverse, Year!Moved
    <3>2. QED
      BY <2>1, <3>1
  <2>7. ASSUME NEW m \in Year!Month,
               \/ Year!CreateDraft(m) \/ Year!DeleteDrafts(m)
               \/ Year!CloseMonth(m) \/ Year!ReopenMonth(m)
        PROVE  landing' = landing /\ entries' = entries
    BY <2>7 DEF Year!CreateDraft, Year!DeleteDrafts, Year!CloseMonth, Year!ReopenMonth
  <2>8. ASSUME NEW c \in Caller, Year!CloseFiscalYear(c) \/ Year!CallFails(c)
        PROVE  landing' = landing /\ entries' = entries
    BY <2>8 DEF Year!CloseFiscalYear, Year!CallFails, Year!CountDrafts,
                Year!ReadBalances, Year!BookClosing, Year!CountMonth, Year!LockMonth
  <2>9. QED
    BY <2>1, <2>2, <2>3, <2>4, <2>5, <2>6, <2>7, <2>8 DEF Year!Next
<1>4. QED
  BY <1>1, <1>2, <1>3, PTL DEF Year!Spec

-----------------------------------------------------------------------------
(* EFRIS submissions. *)

Filing ==
  [at: Efris!Stage, doc: Doc \cup {Efris!Idle.doc},
   answer: {"none", "acknowledged", "submitted", "failed"}]

EfrisTypeOK ==
  /\ row \in [Doc -> Efris!Status]
  /\ filed \in [Doc -> Nat]
  /\ announced \subseteq Doc /\ unguarded \subseteq Doc
  /\ request \in [Caller -> Filing]

InFlight(r) == request[r].at # "idle"

\* The requests in flight are for documents, and two for one document were
\* noticed.
FiledAlone ==
  \A r \in Caller : InFlight(r) =>
    /\ request[r].doc \in Doc
    /\ \A q \in Caller \ {r} :
         InFlight(q) /\ request[q].doc = request[r].doc => request[r].doc \in unguarded

\* A request that has looked found no acknowledgement, and only itself brings one.
NotYetAcknowledged ==
  \A r \in Caller :
    request[r].at \in {"queue", "submit", "complete"}
      /\ request[r].doc \notin unguarded => row[request[r].doc] # "acknowledged"

\* What is taken for acknowledged was filed.
FiledBefore ==
  /\ \A d \in Doc : row[d] = "acknowledged" \/ d \in announced => filed[d] > 0
  /\ \A r \in Caller :
       \/ request[r].at = "announce"
       \/ request[r].at = "complete" /\ request[r].answer = "acknowledged"
       => filed[request[r].doc] > 0

EfrisInv == EfrisTypeOK /\ FiledAlone /\ NotYetAcknowledged /\ FiledBefore

LEMMA EfrisInitially == Efris!Init => EfrisInv
<1> SUFFICES ASSUME Efris!Init PROVE EfrisInv
  OBVIOUS
<1>1. /\ row = [d \in Doc |-> "none"] /\ filed = [d \in Doc |-> 0]
      /\ announced = {} /\ unguarded = {}
      /\ request = [r \in Caller |-> Efris!Idle]
  BY DEF Efris!Init
<1>2. Efris!Idle \in Filing /\ Efris!Idle.at = "idle"
  BY DEF Efris!Idle, Filing, Efris!Stage
<1>3. row \in [Doc -> Efris!Status] /\ filed \in [Doc -> Nat]
  BY <1>1 DEF Efris!Status
<1>4. announced \subseteq Doc /\ unguarded \subseteq Doc
  BY <1>1
<1>5. request \in [Caller -> Filing] /\ \A r \in Caller : request[r].at = "idle"
  BY <1>1, <1>2
<1>6. EfrisTypeOK
  BY <1>3, <1>4, <1>5 DEF EfrisTypeOK
<1>7. FiledAlone /\ NotYetAcknowledged
  BY <1>5 DEF FiledAlone, NotYetAcknowledged, InFlight
<1>8. FiledBefore
  BY <1>1, <1>5 DEF FiledBefore
<1>9. QED
  BY <1>6, <1>7, <1>8 DEF EfrisInv

\* A request that is let in counts as unguarded beside another one, or when it
\* was not checked.
LEMMA EfrisAdmitted ==
  ASSUME EfrisInv, NEW r \in Caller, NEW d \in Doc, Efris!Admit(r, d),
         unguarded' \in {unguarded, unguarded \cup {d}},
         Efris!Busy(r, d) \/ row[d] = "acknowledged" => d \in unguarded'
  PROVE  EfrisInv' /\ row' = row /\ filed' = filed /\ unguarded \subseteq unguarded'
<1> DEFINE w == [at |-> "queue", doc |-> d, answer |-> "none"]
<1>1. EfrisTypeOK /\ FiledAlone /\ NotYetAcknowledged /\ FiledBefore
  BY DEF EfrisInv
<1>2. /\ request[r].at = "idle" /\ request' = [request EXCEPT ![r] = w]
      /\ row' = row /\ filed' = filed /\ announced' = announced
  BY DEF Efris!Admit
<1>3. w \in Filing /\ w.at = "queue" /\ w.doc = d
  BY DEF Filing, Efris!Stage
<1> HIDE DEF w
<1>4. request'[r] = w /\ \A q \in Caller \ {r} : request'[q] = request[q]
  BY <1>1, <1>2 DEF EfrisTypeOK
<1>5. unguarded \subseteq unguarded' /\ unguarded' \subseteq Doc
  BY <1>1 DEF EfrisTypeOK
<1>6. EfrisTypeOK'
  BY <1>1, <1>2, <1>3, <1>5 DEF EfrisTypeOK
<1>7. (\E q \in Caller \ {r} : request[q].at # "idle" /\ request[q].doc = d)
        => d \in unguarded'
  BY DEF Efris!Busy
<1>8. FiledAlone'
  BY <1>1, <1>3, <1>4, <1>5, <1>7 DEF FiledAlone, InFlight
<1>9. NotYetAcknowledged'
  BY <1>1, <1>2, <1>3, <1>4, <1>5 DEF NotYetAcknowledged
<1>10. FiledBefore'
  BY <1>1, <1>2, <1>3, <1>4 DEF FiledBefore
<1>11. QED
  BY <1>2, <1>5, <1>6, <1>8, <1>9, <1>10 DEF EfrisInv

\* A request's later steps keep its document; the rest is for each to show.
LEMMA EfrisMoved ==
  ASSUME EfrisInv, NEW r \in Caller, request[r].at # "idle",
         NEW w \in Filing, request' = [request EXCEPT ![r] = w],
         w.at = "idle" \/ w.doc = request[r].doc,
         unguarded' = unguarded, announced' \subseteq Doc,
         row' \in [Doc -> Efris!Status], filed' \in [Doc -> Nat],
         \A d \in Doc : filed'[d] >= filed[d],
         \A d \in Doc \ {request[r].doc} : row'[d] = row[d],
         row'[request[r].doc] = "acknowledged" =>
           row[request[r].doc] = "acknowledged"
             \/ w.at \notin {"queue", "submit", "complete"},
         w.at \in {"queue", "submit", "complete"} =>
           request[r].at \in {"queue", "submit", "complete"},
         \A d \in Doc : row'[d] = "acknowledged" \/ d \in announced' => filed'[d] > 0,
         \/ w.at = "announce"
         \/ w.at = "complete" /\ w.answer = "acknowledged"
         => filed'[request[r].doc] > 0
  PROVE  EfrisInv'
<1> DEFINE d == request[r].doc
<1>1. EfrisTypeOK /\ FiledAlone /\ NotYetAcknowledged /\ FiledBefore
  BY DEF EfrisInv
<1>2. request'[r] = w /\ \A q \in Caller \ {r} : request'[q] = request[q]
  BY <1>1 DEF EfrisTypeOK
<1>3. d \in Doc
  BY <1>1 DEF FiledAlone, InFlight
<1>4. EfrisTypeOK'
  BY <1>1 DEF EfrisTypeOK
<1>5. FiledAlone'
  BY <1>1, <1>2 DEF FiledAlone, InFlight
<1>6. NotYetAcknowledged'
  <2> SUFFICES ASSUME NEW q \in Caller,
                      request'[q].at \in {"queue", "submit", "complete"},
                      request'[q].doc \notin unguarded
               PROVE  row'[request'[q].doc] # "acknowledged"
    BY DEF NotYetAcknowledged
  <2>1. CASE q = r
    BY <1>1, <1>2, <2>1 DEF NotYetAcknowledged
  <2>2. CASE q # r
    <3>1. request'[q] = request[q] /\ request[q].doc \in Doc
      BY <1>1, <1>2, <2>2 DEF FiledAlone, InFlight
    <3>2. request[q].doc # d
      BY <1>1, <2>2, <3>1 DEF FiledAlone, InFlight
    <3>3. QED
      BY <1>1, <3>1, <3>2 DEF NotYetAcknowledged
  <2>3. QED
    BY <2>1, <2>2
<1>7. FiledBefore'
  <2> SUFFICES ASSUME NEW q \in Caller,
                      \/ request'[q].at = "announce"
                      \/ request'[q].at = "complete"
                           /\ request'[q].answer = "acknowledged"
               PROVE  filed'[request'[q].doc] > 0
    BY DEF FiledBefore
  <2>1. CASE q = r
    BY <1>2, <2>1
  <2>2. CASE q # r
    <3>1. request'[q] = request[q] /\ request[q].doc \in Doc
      BY <1>1, <1>2, <2>2 DEF FiledAlone, InFlight
    <3>2. filed[request[q].doc] > 0
      BY <1>1, <3>1 DEF FiledBefore
    <3>3. filed[request[q].doc] \in Nat /\ filed'[request[q].doc] \in Nat
      BY <1>1, <3>1 DEF EfrisTypeOK
    <3>4. QED
      BY <3>1, <3>2, <3>3
  <2>3. QED
    BY <2>1, <2>2
<1>8. QED
  BY <1>4, <1>5, <1>6, <1>7 DEF EfrisInv

LEMMA FilingAt ==
  ASSUME NEW f \in Filing, NEW a
  PROVE  [f EXCEPT !.at = a] = [at |-> a, doc |-> f.doc, answer |-> f.answer]
BY DEF Filing

LEMMA EfrisKept ==
  ASSUME EfrisInv, [Efris!Next]_Efris!vars
  PROVE  EfrisInv' /\ Efris!KeepsAcknowledged
<1>1. EfrisTypeOK /\ FiledAlone /\ NotYetAcknowledged /\ FiledBefore
  BY DEF EfrisInv
<1>2. ASSUME EfrisInv', row' = row, filed' = filed
      PROVE  EfrisInv' /\ Efris!KeepsAcknowledged
  BY <1>2 DEF EfrisInv, FiledBefore, Efris!KeepsAcknowledged
<1>3. ASSUME UNCHANGED Efris!vars
      PROVE  EfrisInv' /\ row' = row /\ filed' = filed
  BY <1>1, <1>3 DEF Efris!vars, EfrisInv, EfrisTypeOK, FiledAlone, InFlight,
                    NotYetAcknowledged, FiledBefore
<1>4. ASSUME NEW r \in Caller, NEW d \in Doc,
             Efris!Check(r, d) \/ Efris!CheckFails(r, d)
      PROVE  EfrisInv' /\ row' = row /\ filed' = filed
  <2>1. /\ Efris!Admit(r, d) /\ unguarded' \in {unguarded, unguarded \cup {d}}
        /\ Efris!Busy(r, d) \/ row[d] = "acknowledged" => d \in unguarded'
    BY <1>4 DEF Efris!Check, Efris!CheckFails
  <2>2. QED
    BY <2>1, EfrisAdmitted
<1>5. ASSUME NEW r \in Caller, request[r].at # "idle"
      PROVE  /\ request[r].doc \in Doc /\ request[r] \in Filing
             /\ row[request[r].doc] \in Efris!Status /\ filed[request[r].doc] \in Nat
             /\ request[r] = [at |-> request[r].at, doc |-> request[r].doc,
                              answer |-> request[r].answer]
  BY <1>1, <1>5 DEF EfrisTypeOK, FiledAlone, InFlight, Filing
<1>6. Efris!Idle \in Filing /\ Efris!Idle.at = "idle"
  BY DEF Efris!Idle, Filing, Efris!Stage
<1>7. \A d \in Doc : filed[d] >= filed[d]
  BY <1>1 DEF EfrisTypeOK
<1>8. ASSUME NEW r \in Caller, Efris!Queue(r)
      PROVE  EfrisInv' /\ Efris!KeepsAcknowledged
  <2> DEFINE d == request[r].doc
             w == [at |-> "submit", doc |-> d, answer |-> request[r].answer]
  <2>1. /\ request[r].at = "queue" /\ filed' = filed /\ announced' = announced
        /\ unguarded' = unguarded
        /\ row' = [row EXCEPT ![d] = IF @ = "none" THEN "pending" ELSE @]
        /\ request' = [request EXCEPT ![r].at = "submit"]
    BY <1>8 DEF Efris!Queue, Efris!Goto
  <2>2. d \in Doc /\ w \in Filing /\ w.at = "submit" /\ w.doc = d
    BY <1>5, <2>1 DEF Filing, Efris!Stage
  <2>3. request' = [request EXCEPT ![r] = w]
    <3>1. [request[r] EXCEPT !.at = "submit"] = w
      BY <1>5, <2>1, FilingAt
    <3>2. request' = [request EXCEPT ![r] = [request[r] EXCEPT !.at = "submit"]]
      BY <2>1
    <3>3. QED
      BY <3>1, <3>2
  <2>4. /\ row' \in [Doc -> Efris!Status]
        /\ \A e \in Doc : row'[e] = "acknowledged" <=> row[e] = "acknowledged"
        /\ \A e \in Doc \ {d} : row'[e] = row[e]
    BY <1>1, <2>1, <2>2 DEF EfrisTypeOK, Efris!Status
  <2> HIDE DEF d, w
  <2>5. EfrisInv'
    BY <1>1, <1>7, <2>1, <2>2, <2>3, <2>4, EfrisMoved DEF EfrisTypeOK, FiledBefore, d
  <2>6. QED
    BY <1>1, <2>1, <2>4, <2>5 DEF Efris!KeepsAcknowledged, FiledBefore
<1>9. ASSUME NEW r \in Caller, Efris!Accepted(r) \/ Efris!AnswerLost(r)
      PROVE  EfrisInv' /\ Efris!KeepsAcknowledged
  <2> DEFINE d == request[r].doc
  <2>1. /\ request[r].at = "submit" /\ row' = row /\ announced' = announced
        /\ unguarded' = unguarded /\ filed' = [filed EXCEPT ![d] = @ + 1]
        /\ \E said \in {"acknowledged", "submitted", "failed"} :
             request' = [request EXCEPT ![r] =
                           [at |-> "complete", doc |-> d, answer |-> said]]
    BY <1>9 DEF Efris!Accepted, Efris!AnswerLost, Efris!Answers
  <2>2. PICK said \in {"acknowledged", "submitted", "failed"} :
          request' = [request EXCEPT ![r] =
                        [at |-> "complete", doc |-> d, answer |-> said]]
    BY <2>1
  <2> DEFINE w == [at |-> "complete", doc |-> d, answer |-> said]
  <2>3. d \in Doc /\ w \in Filing /\ w.at = "complete" /\ w.doc = d
    BY <1>5, <2>1 DEF Filing, Efris!Stage
  <2>4. /\ filed' \in [Doc -> Nat] /\ filed'[d] > 0
        /\ \A e \in Doc : filed'[e] >= filed[e] /\ (e # d => filed'[e] = filed[e])
    BY <1>1, <2>1, <2>3 DEF EfrisTypeOK
  <2>5. \A e \in Doc : row'[e] = "acknowledged" \/ e \in announced' => filed'[e] > 0
    BY <1>1, <2>1, <2>4 DEF EfrisTypeOK, FiledBefore
  <2>6. request' = [request EXCEPT ![r] = w]
    BY <2>2
  <2> HIDE DEF d, w
  <2>7. EfrisInv'
    BY <1>1, <2>1, <2>3, <2>4, <2>5, <2>6, EfrisMoved DEF EfrisTypeOK, d
  <2>8. row[d] = "acknowledged" => d \in unguarded
    BY <1>1, <2>1 DEF NotYetAcknowledged, d
  <2>9. QED
    BY <2>1, <2>4, <2>5, <2>7, <2>8 DEF Efris!KeepsAcknowledged
<1>10. ASSUME NEW r \in Caller, Efris!Refused(r)
       PROVE  EfrisInv' /\ row' = row /\ filed' = filed
  <2> DEFINE d == request[r].doc
             w == [at |-> "complete", doc |-> d, answer |-> "failed"]
  <2>1. /\ request[r].at = "submit" /\ row' = row /\ announced' = announced
        /\ unguarded' = unguarded /\ filed' = filed
        /\ request' = [request EXCEPT ![r] = w]
    BY <1>10 DEF Efris!Refused, Efris!Answers
  <2>2. d \in Doc /\ w \in Filing /\ w.at = "complete" /\ w.doc = d /\ w.answer = "failed"
    BY <1>5, <2>1 DEF Filing, Efris!Stage
  <2> HIDE DEF d, w
  <2>3. EfrisInv'
    BY <1>1, <1>7, <2>1, <2>2, EfrisMoved DEF EfrisTypeOK, FiledBefore, d
  <2>4. QED
    BY <2>1, <2>3
<1>11. ASSUME NEW r \in Caller, Efris!Complete(r) \/ Efris!CompleteFails(r)
       PROVE  EfrisInv' /\ Efris!KeepsAcknowledged
  <2> DEFINE d == request[r].doc
             w == IF request[r].answer = "acknowledged"
                  THEN [at |-> "announce", doc |-> d, answer |-> request[r].answer]
                  ELSE Efris!Idle
  <2>1. /\ request[r].at = "complete" /\ filed' = filed /\ announced' = announced
        /\ unguarded' = unguarded
        /\ row' = row \/ row' = [row EXCEPT ![d] = request[r].answer]
        /\ Efris!Answered(r)
    BY <1>11 DEF Efris!Complete, Efris!CompleteFails
  <2>2. /\ d \in Doc /\ w \in Filing
        /\ w.at = "idle" \/ (w.at = "announce" /\ w.doc = d)
        /\ w.at = "announce" => request[r].answer = "acknowledged"
    <3>1. d \in Doc /\ request[r].answer \in {"none", "acknowledged", "submitted", "failed"}
      BY <1>5, <2>1 DEF Filing
    <3>2. CASE request[r].answer = "acknowledged"
      <4>1. w = [at |-> "announce", doc |-> d, answer |-> request[r].answer]
        BY <3>2
      <4>2. QED
        BY <3>1, <3>2, <4>1 DEF Filing, Efris!Stage
    <3>3. CASE request[r].answer # "acknowledged"
      <4>1. w = Efris!Idle
        BY <3>3
      <4>2. QED
        BY <1>6, <3>1, <4>1
    <3>4. QED
      BY <3>2, <3>3
  <2>3. request' = [request EXCEPT ![r] = w]
    <3>1. CASE request[r].answer = "acknowledged"
      <4>1. [request[r] EXCEPT !.at = "announce"]
              = [at |-> "announce", doc |-> d, answer |-> request[r].answer]
        BY <1>5, <2>1, FilingAt
      <4>2. request' = [request EXCEPT ![r] = [request[r] EXCEPT !.at = "announce"]]
        BY <2>1, <3>1 DEF Efris!Answered, Efris!Goto
      <4>3. QED
        BY <3>1, <4>1, <4>2
    <3>2. CASE request[r].answer # "acknowledged"
      BY <2>1, <3>2 DEF Efris!Answered, Efris!Stop
    <3>3. QED
      BY <3>1, <3>2
  <2>4. request[r].answer = "acknowledged" => filed[d] > 0
    BY <1>1, <2>1 DEF FiledBefore
  <2>5. row' \in [Doc -> Efris!Status] /\ \A e \in Doc \ {d} : row'[e] = row[e]
    <3>1. row' = row \/ request[r].answer \in Efris!Status
      <4>1. request[r].answer \in {"none", "acknowledged", "submitted", "failed"}
        BY <1>5, <2>1 DEF Filing
      <4>2. QED
        BY <4>1 DEF Efris!Status
    <3>2. QED
      BY <1>1, <2>1, <2>2, <3>1 DEF EfrisTypeOK
  <2>6. row'[d] = "acknowledged" => row[d] = "acknowledged" \/ request[r].answer = "acknowledged"
    BY <1>1, <2>1, <2>2 DEF EfrisTypeOK
  <2>7. \A e \in Doc : row'[e] = "acknowledged" \/ e \in announced' => filed'[e] > 0
    BY <1>1, <2>1, <2>4, <2>5, <2>6 DEF FiledBefore
  <2>8. row[d] = "acknowledged" => d \in unguarded
    BY <1>1, <2>1 DEF NotYetAcknowledged
  <2> HIDE DEF d, w
  <2>9. EfrisInv'
    BY <1>1, <1>7, <2>1, <2>2, <2>3, <2>4, <2>5, <2>6, <2>7, EfrisMoved
    DEF EfrisTypeOK, d
  <2>10. QED
    BY <2>1, <2>5, <2>7, <2>8, <2>9 DEF Efris!KeepsAcknowledged
<1>12. ASSUME NEW r \in Caller, Efris!Announce(r)
       PROVE  EfrisInv' /\ Efris!KeepsAcknowledged
  <2> DEFINE d == request[r].doc
             w == Efris!Idle
  <2>1. /\ request[r].at = "announce" /\ filed' = filed /\ row' = row
        /\ unguarded' = unguarded /\ announced' = announced \cup {d}
        /\ request' = [request EXCEPT ![r] = w]
    BY <1>12 DEF Efris!Announce, Efris!Stop
  <2>2. d \in Doc /\ filed[d] > 0
    BY <1>1, <1>5, <2>1 DEF FiledBefore
  <2>3. /\ announced' \subseteq Doc
        /\ \A e \in Doc : row'[e] = "acknowledged" \/ e \in announced' => filed'[e] > 0
    BY <1>1, <2>1, <2>2 DEF FiledBefore, EfrisTypeOK
  <2> HIDE DEF d, w
  <2>4. EfrisInv'
    BY <1>1, <1>6, <1>7, <2>1, <2>2, <2>3, EfrisMoved DEF EfrisTypeOK, d, w
  <2>5. QED
    BY <2>1, <2>3, <2>4 DEF Efris!KeepsAcknowledged
<1>13. ASSUME NEW r \in Caller, Efris!GiveUp(r)
       PROVE  EfrisInv' /\ row' = row /\ filed' = filed
  <2> DEFINE d == request[r].doc
             w == Efris!Idle
  <2>1. /\ request[r].at # "idle" /\ filed' = filed /\ row' = row
        /\ unguarded' = unguarded /\ announced' = announced
        /\ request' = [request EXCEPT ![r] = w]
    BY <1>13 DEF Efris!GiveUp, Efris!Stop
  <2> HIDE DEF d, w
  <2>2. EfrisInv'
    BY <1>1, <1>6, <1>7, <2>1, EfrisMoved DEF EfrisTypeOK, FiledBefore, d, w
  <2>3. QED
    BY <2>1, <2>2
<1>14. QED
  BY <1>2, <1>3, <1>4, <1>8, <1>9, <1>10, <1>11, <1>12, <1>13 DEF Efris!Next

\* A document the authority has acknowledged is filed no more and its row stays,
\* unless two requests for it were in flight at once or its row could not be
\* read; and nothing is shown or announced that was not filed (SubmitEFRIS,
\* handlers/integrations_api.go).
THEOREM AcknowledgedStays == Efris!Spec => [][Efris!KeepsAcknowledged]_Efris!vars
<1>1. Efris!Init => EfrisInv
  BY EfrisInitially
<1>2. EfrisInv /\ [Efris!Next]_Efris!vars => EfrisInv'
  BY EfrisKept
<1>3. EfrisInv /\ [Efris!Next]_Efris!vars => [Efris!KeepsAcknowledged]_Efris!vars
  BY EfrisKept
<1>4. QED
  BY <1>1, <1>2, <1>3, PTL DEF Efris!Spec

-----------------------------------------------------------------------------
(* The tail of the audit log. *)

TailTypeOK ==
  /\ time \in [TailRow -> Nat] /\ clock \in Nat
  /\ \A r \in TailRow : time[r] <= clock
  /\ committed \subseteq TailRow
  /\ socket \in [Socket -> [open: BOOLEAN, last: TailRow \cup {NoTailRow}]]
  /\ untold \in [Socket -> SUBSET TailRow]

\* What a socket has seen or has yet to tell is committed, and what it has yet to
\* tell began after what it saw last, but for what was overtaken.
ToldInOrder ==
  /\ \A r \in committed : time[r] > 0
  /\ \A s \in Socket :
       /\ socket[s].last # NoTailRow => socket[s].last \in committed
       /\ untold[s] \subseteq committed
       /\ \A r \in untold[s] \ overtaken :
            socket[s].last # NoTailRow => time[socket[s].last] < time[r]

TailInv == TailTypeOK /\ ToldInOrder

\* What a socket saw last, with nothing left to tell.
LEMMA TailSeen ==
  ASSUME Pages!RowAssumption, TailInv, NEW s \in Socket,
         NEW f \in Pages!Fingerprints \cup {NoTailRow},
         socket' = [socket EXCEPT ![s] = [open |-> TRUE, last |-> f]],
         untold' = [untold EXCEPT ![s] = {}],
         time' = time, clock' = clock, committed' = committed, overtaken' = overtaken
  PROVE  TailInv'
<1> DEFINE w == [open |-> TRUE, last |-> f]
<1>1. f # NoTailRow => f \in committed
  BY DEF Pages!Fingerprints
<1>2. w \in [open: BOOLEAN, last: TailRow \cup {NoTailRow}] /\ w.last = f
  BY <1>1 DEF TailInv, TailTypeOK
<1>3. socket' = [socket EXCEPT ![s] = w]
  OBVIOUS
<1> HIDE DEF w
<1>4. socket'[s] = w /\ \A t \in Socket \ {s} : socket'[t] = socket[t]
  BY <1>3 DEF TailInv, TailTypeOK
<1>5. untold'[s] = {} /\ \A t \in Socket \ {s} : untold'[t] = untold[t]
  BY DEF TailInv, TailTypeOK
<1>6. TailTypeOK'
  BY <1>2, <1>3 DEF TailInv, TailTypeOK
<1>7. ToldInOrder'
  BY <1>1, <1>2, <1>4, <1>5 DEF TailInv, ToldInOrder
<1>8. QED
  BY <1>6, <1>7 DEF TailInv

LEMMA TailKept ==
  ASSUME Pages!RowAssumption, TailInv, [Pages!Next]_Pages!vars
  PROVE  TailInv'
<1>1. TailTypeOK /\ ToldInOrder
  BY DEF TailInv
<1>2. CASE UNCHANGED Pages!vars
  BY <1>1, <1>2 DEF TailInv, Pages!vars, TailTypeOK, ToldInOrder
<1>3. ASSUME NEW r \in TailRow, Pages!Begin(r)
      PROVE  TailInv'
  <2>1. /\ time[r] = 0
        /\ clock' \in Nat /\ clock <= clock' /\ time' = [time EXCEPT ![r] = clock']
        /\ committed' = committed /\ socket' = socket /\ untold' = untold
        /\ overtaken' = overtaken
    BY <1>1, <1>3 DEF Pages!Begin, Pages!Unwritten, TailTypeOK
  <2>2. TailTypeOK'
    BY <1>1, <2>1 DEF TailTypeOK
  <2>3. \A q \in committed : q # r /\ q \in TailRow /\ time'[q] = time[q]
    BY <1>1, <2>1 DEF TailTypeOK, ToldInOrder
  <2>4. ToldInOrder'
    BY <1>1, <2>1, <2>3 DEF ToldInOrder
  <2>5. QED
    BY <2>2, <2>4 DEF TailInv
<1>4. ASSUME NEW r \in TailRow, Pages!CommitRow(r)
      PROVE  TailInv'
  <2>1. /\ time[r] > 0 /\ committed' = committed \cup {r}
        /\ time' = time /\ clock' = clock /\ socket' = socket
        /\ overtaken' \in {overtaken, overtaken \cup {r}}
        /\ (\E q \in committed : time[q] >= time[r]) => r \in overtaken'
    BY <1>4 DEF Pages!CommitRow
  <2>2. \A s \in Socket : untold'[s] \subseteq untold[s] \cup {r}
    BY <1>1, <1>4 DEF Pages!CommitRow
  <2>3. untold' \in [Socket -> SUBSET TailRow]
    BY <1>1, <1>4 DEF Pages!CommitRow, TailTypeOK
  <2>4. TailTypeOK'
    BY <1>1, <2>1, <2>3 DEF TailTypeOK
  <2>5. \A q \in committed : r \notin overtaken' => time[q] < time[r]
    BY <1>1, <2>1 DEF TailTypeOK
  <2>6. ToldInOrder'
    BY <1>1, <2>1, <2>2, <2>5 DEF ToldInOrder
  <2>7. QED
    BY <2>4, <2>6 DEF TailInv
<1>5. ASSUME NEW s \in Socket, Pages!Connect(s) \/ Pages!Push(s)
      PROVE  TailInv'
  <2>1. \E f \in Pages!Fingerprints \cup {NoTailRow} :
          socket' = [socket EXCEPT ![s] = [open |-> TRUE, last |-> f]]
    BY <1>5 DEF Pages!Connect, Pages!Push
  <2>2. /\ untold' = [untold EXCEPT ![s] = {}] /\ time' = time /\ clock' = clock
        /\ committed' = committed /\ overtaken' = overtaken
    BY <1>5 DEF Pages!Connect, Pages!Push
  <2>3. QED
    BY <2>1, <2>2, TailSeen
<1>6. ASSUME NEW s \in Socket, Pages!Disconnect(s)
      PROVE  TailInv'
  <2>1. /\ socket' = [socket EXCEPT ![s] = [open |-> FALSE, last |-> NoTailRow]]
        /\ untold' = [untold EXCEPT ![s] = {}] /\ time' = time /\ clock' = clock
        /\ committed' = committed /\ overtaken' = overtaken
    BY <1>6 DEF Pages!Disconnect, Pages!Closed
  <2>2. TailTypeOK'
    BY <1>1, <2>1 DEF TailTypeOK
  <2>3. /\ socket'[s].last = NoTailRow /\ untold'[s] = {}
        /\ \A t \in Socket \ {s} : socket'[t] = socket[t] /\ untold'[t] = untold[t]
    BY <1>1, <2>1 DEF TailTypeOK
  <2>4. ToldInOrder'
    BY <1>1, <2>1, <2>3 DEF ToldInOrder
  <2>5. QED
    BY <2>2, <2>4 DEF TailInv
<1>7. QED
  BY <1>2, <1>3, <1>4, <1>5, <1>6 DEF Pages!Next

\* A socket that has nothing more to push has told its page of every change, but
\* for a row that began earlier than one committed before it (serve,
\* handlers/ws.go).
THEOREM PagesAreTold ==
  ASSUME Pages!RowAssumption
  PROVE  Pages!Spec => []Pages!ChangesPushed
<1>1. Pages!Init => TailInv
  <2> SUFFICES ASSUME Pages!Init PROVE TailInv
    OBVIOUS
  <2>1. /\ time = [r \in TailRow |-> 0] /\ clock = 1 /\ committed = {}
        /\ socket = [s \in Socket |-> [open |-> FALSE, last |-> NoTailRow]]
        /\ untold = [s \in Socket |-> {}]
    BY DEF Pages!Init, Pages!Closed
  <2>2. TailTypeOK
    BY <2>1 DEF TailTypeOK
  <2>3. ToldInOrder
    BY <2>1 DEF ToldInOrder
  <2>4. QED
    BY <2>2, <2>3 DEF TailInv
<1>2. TailInv /\ [Pages!Next]_Pages!vars => TailInv'
  BY TailKept
<1>3. TailInv => Pages!ChangesPushed
  <2> SUFFICES ASSUME TailInv, NEW s \in Socket, socket[s].open,
                      \A f \in Pages!Fingerprints : ~ Pages!Moved(s, f),
                      NEW r \in untold[s] \ overtaken
               PROVE  FALSE
    BY DEF Pages!ChangesPushed
  <2> DEFINE age == [q \in committed |-> clock - time[q]]
  <2>1. /\ r \in committed /\ clock \in Nat
        /\ \A q \in committed : q \in TailRow /\ time[q] \in Nat /\ age[q] \in Nat
    BY DEF TailInv, TailTypeOK, ToldInOrder
  <2>2. PICK f \in committed : \A q \in committed : time[f] >= time[q]
    <3>1. \E f \in committed : \A q \in committed : age[f] <= age[q]
      <4> HIDE DEF age
      <4>1. QED
        BY <2>1, LeastOf
    <3>2. QED
      BY <2>1, <3>1
  <2>3. f \in Pages!Fingerprints /\ f # NoTailRow
    BY <2>1, <2>2 DEF Pages!Fingerprints, Pages!Newest, Pages!RowAssumption
  <2>4. socket[s].last = f
    BY <2>3 DEF Pages!Moved
  <2>5. time[f] < time[r]
    BY <2>3, <2>4 DEF TailInv, ToldInOrder
  <2>6. QED
    BY <2>1, <2>2, <2>5
<1>4. QED
  BY <1>1, <1>2, <1>3, PTL DEF Pages!Spec

-----------------------------------------------------------------------------
(* The digest of overdue receivables. *)

Work == [at: {"wait", "list", "publish", "mark"}, listed: SUBSET OverdueItem]
Receivable == [open: BOOLEAN, due: Nat, notified: Nat]

DigestTypeOK ==
  /\ now \in Nat \ {0} /\ slipped \in BOOLEAN
  /\ item \in [OverdueItem -> Receivable]
  /\ lock \in Caller \cup {Nobody}
  /\ worker \in [Caller -> Work]
  /\ delivered \subseteq [at: Nat \ {0}, items: SUBSET OverdueItem]
  /\ \A d \in delivered : d.at <= now
  /\ \A i \in OverdueItem : item[i].notified <= now

\* No two digests of a day.
OneADay == \A d, e \in delivered : d # e => Digest!Day(d.at) # Digest!Day(e.at)

\* Whoever is at work has the lock; what it is about to publish was not chased in
\* the last 24 hours; and what was published is marked, or about to be.
WorksLocked == \A w \in Caller : worker[w].at # "wait" => lock = w

ListedCooled ==
  \A w \in Caller : worker[w].at = "publish" =>
    \A i \in worker[w].listed :
      item[i].notified = 0 \/ item[i].notified + DayLength < now

Marking(i) == \E w \in Caller : worker[w].at = "mark" /\ i \in worker[w].listed

PublishedIsMarked ==
  \A d \in delivered : \A i \in d.items : item[i].notified >= d.at \/ Marking(i)

ChasedApart ==
  \A d, e \in delivered :
    d # e /\ d.items \cap e.items # {} /\ d.at <= e.at => e.at > d.at + DayLength

Sparing == WorksLocked /\ ListedCooled /\ PublishedIsMarked /\ ChasedApart

DigestInv == DigestTypeOK /\ OneADay /\ (~ slipped => Sparing)

LEMMA WorkAt ==
  ASSUME NEW f \in Work, NEW a
  PROVE  [f EXCEPT !.at = a] = [at |-> a, listed |-> f.listed]
BY DEF Work

LEMMA DigestInitially ==
  ASSUME Digest!DayAssumption, Digest!Init
  PROVE  DigestInv
<1>1. /\ now = DayLength /\ lock = Nobody /\ delivered = {} /\ slipped = FALSE
      /\ item \in [OverdueItem -> [open: {TRUE}, due: {0, DayLength}, notified: {0}]]
      /\ worker = [w \in Caller |-> [at |-> "wait", listed |-> {}]]
  BY DEF Digest!Init, Digest!Waiting
<1>2. now \in Nat \ {0}
  BY <1>1 DEF Digest!DayAssumption
<1>3. item \in [OverdueItem -> Receivable] /\ \A i \in OverdueItem : item[i].notified = 0
  <2>1. {0, DayLength} \subseteq Nat
    BY DEF Digest!DayAssumption
  <2>2. ASSUME NEW t \in [open: {TRUE}, due: {0, DayLength}, notified: {0}]
        PROVE  t \in Receivable /\ t.notified = 0
    BY <2>1 DEF Receivable
  <2>3. QED
    BY <1>1, <2>2
<1>4. worker \in [Caller -> Work] /\ \A w \in Caller : worker[w].at = "wait"
  <2>1. [at |-> "wait", listed |-> {}] \in Work
    BY DEF Work
  <2>2. QED
    BY <1>1, <2>1
<1>5. slipped \in BOOLEAN
  BY <1>1
<1>6. DigestTypeOK
  BY <1>1, <1>2, <1>3, <1>4, <1>5 DEF DigestTypeOK
<1>7. OneADay /\ Sparing
  BY <1>1, <1>4 DEF OneADay, Sparing, WorksLocked, ListedCooled, PublishedIsMarked,
                    ChasedApart
<1>8. QED
  BY <1>6, <1>7 DEF DigestInv

\* The clock, and a payment.
LEMMA DigestOthers ==
  ASSUME Digest!DayAssumption, DigestInv,
         Digest!Pass \/ (\E i \in OverdueItem : Digest!Pay(i)) \/ Digest!LoseLock
  PROVE  DigestInv'
<1>1. DigestTypeOK /\ OneADay /\ (~ slipped => Sparing)
  BY DEF DigestInv
<1>2. CASE Digest!Pass
  <2>1. /\ now' = now + 1 /\ item' = item /\ lock' = lock /\ worker' = worker
        /\ delivered' = delivered /\ slipped' = slipped
    BY <1>2 DEF Digest!Pass
  <2>2. now \in Nat /\ now' \in Nat \ {0} /\ now < now'
    BY <1>1, <2>1 DEF DigestTypeOK
  <2>3. \A i \in OverdueItem : item[i].notified \in Nat
    BY <1>1 DEF DigestTypeOK, Receivable
  <2>4. \A d \in delivered : d.at \in Nat
    BY <1>1 DEF DigestTypeOK
  <2>5. DigestTypeOK'
    BY <1>1, <2>1, <2>2, <2>3, <2>4 DEF DigestTypeOK
  <2>6. OneADay'
    BY <1>1, <2>1 DEF OneADay
  <2>7. ListedCooled => ListedCooled'
    BY <1>1, <2>1, <2>2, <2>3 DEF ListedCooled, DigestTypeOK, Work, Digest!DayAssumption
  <2>8. Sparing => Sparing'
    BY <2>1, <2>7 DEF Sparing, WorksLocked, PublishedIsMarked, Marking, ChasedApart
  <2>9. QED
    BY <1>1, <2>1, <2>5, <2>6, <2>8 DEF DigestInv
<1>3. ASSUME NEW i \in OverdueItem, Digest!Pay(i)
      PROVE  DigestInv'
  <2>1. /\ item' = [item EXCEPT ![i].open = FALSE] /\ now' = now /\ lock' = lock
        /\ worker' = worker /\ delivered' = delivered /\ slipped' = slipped
    BY <1>3 DEF Digest!Pay
  <2>2. item' \in [OverdueItem -> Receivable]
    BY <1>1, <2>1 DEF DigestTypeOK, Receivable
  <2>3. \A j \in OverdueItem : item'[j].notified = item[j].notified
    BY <1>1, <2>1 DEF DigestTypeOK, Receivable
  <2>4. DigestTypeOK'
    BY <1>1, <2>1, <2>2, <2>3 DEF DigestTypeOK
  <2>5. OneADay'
    BY <1>1, <2>1 DEF OneADay
  <2>6. ListedCooled => ListedCooled'
    BY <1>1, <2>1, <2>3 DEF ListedCooled, DigestTypeOK, Work
  <2>7. PublishedIsMarked => PublishedIsMarked'
    BY <1>1, <2>1, <2>3 DEF PublishedIsMarked, Marking, DigestTypeOK
  <2>8. Sparing => Sparing'
    BY <2>1, <2>6, <2>7 DEF Sparing, WorksLocked, ChasedApart
  <2>9. QED
    BY <1>1, <2>1, <2>4, <2>5, <2>8 DEF DigestInv
<1>4. CASE Digest!LoseLock
  <2>1. /\ lock' = Nobody /\ slipped' = TRUE /\ item' = item /\ now' = now
        /\ worker' = worker /\ delivered' = delivered
    BY <1>4 DEF Digest!LoseLock
  <2>2. slipped' \in BOOLEAN
    BY <2>1
  <2>3. DigestTypeOK' /\ OneADay'
    BY <1>1, <2>1, <2>2 DEF DigestTypeOK, OneADay
  <2>4. QED
    BY <2>1, <2>3 DEF DigestInv
<1>5. QED
  BY <1>2, <1>3, <1>4

\* What a replica's step does to its own work and to the lock.
LEMMA WorkMoves ==
  ASSUME DigestInv, NEW w \in Caller, NEW f \in Work,
         worker' = [worker EXCEPT ![w] = f]
  PROVE  /\ worker' \in [Caller -> Work] /\ worker'[w] = f
         /\ \A v \in Caller \ {w} : worker'[v] = worker[v]
BY DEF DigestInv, DigestTypeOK

\* Taking the lock, and listing under it.
LEMMA DigestListed ==
  ASSUME Digest!DayAssumption, DigestInv, NEW w \in Caller,
         Digest!TickLocked(w) \/ Digest!List(w)
  PROVE  DigestInv'
<1>1. DigestTypeOK /\ OneADay /\ (~ slipped => Sparing) /\ worker[w] \in Work
  BY DEF DigestInv, DigestTypeOK
<1>2. Digest!Waiting \in Work /\ Digest!Waiting.at = "wait"
  BY DEF Digest!Waiting, Work
<1>3. CASE Digest!TickLocked(w)
  <2> DEFINE f == [at |-> "list", listed |-> worker[w].listed]
  <2>1. /\ worker[w].at = "wait" /\ lock = Nobody /\ lock' = w
        /\ worker' = [worker EXCEPT ![w].at = "list"]
        /\ now' = now /\ item' = item /\ delivered' = delivered /\ slipped' = slipped
    BY <1>3 DEF Digest!TickLocked, Digest!LockFree
  <2>2. f \in Work /\ f.at = "list"
    BY <1>1 DEF Work
  <2>3. worker' = [worker EXCEPT ![w] = f]
    <3>1. worker' = [worker EXCEPT ![w] = [worker[w] EXCEPT !.at = "list"]]
      BY <2>1
    <3>2. QED
      BY <1>1, <3>1, WorkAt
  <2> HIDE DEF f
  <2>4. /\ worker' \in [Caller -> Work] /\ worker'[w] = f
        /\ \A v \in Caller \ {w} : worker'[v] = worker[v]
    BY <2>2, <2>3, WorkMoves
  <2>5. DigestTypeOK'
    BY <1>1, <2>1, <2>4 DEF DigestTypeOK
  <2>6. OneADay' /\ (ChasedApart => ChasedApart')
    BY <1>1, <2>1 DEF OneADay, ChasedApart
  <2>7. WorksLocked => WorksLocked'
    BY <2>1, <2>4 DEF WorksLocked, Digest!DayAssumption
  <2>8. ListedCooled => ListedCooled'
    BY <2>1, <2>2, <2>4 DEF ListedCooled
  <2>9. \A i \in OverdueItem : Marking(i) => Marking(i)'
    BY <2>1, <2>4 DEF Marking
  <2>10. PublishedIsMarked => PublishedIsMarked'
    BY <1>1, <2>1, <2>9 DEF PublishedIsMarked, DigestTypeOK
  <2>11. QED
    BY <1>1, <2>1, <2>5, <2>6, <2>7, <2>8, <2>10 DEF DigestInv, Sparing
<1>4. CASE Digest!List(w)
  <2> DEFINE f == IF Digest!ListOverdueAR = {} THEN Digest!Waiting
                  ELSE [at |-> "publish", listed |-> Digest!ListOverdueAR]
  <2>1. /\ worker[w].at = "list" /\ worker' = [worker EXCEPT ![w] = f]
        /\ now' = now /\ item' = item /\ delivered' = delivered /\ slipped' = slipped
    BY <1>4 DEF Digest!List
  <2>2. /\ f.at = "wait" => lock' = IF lock = w THEN Nobody ELSE lock
        /\ f.at # "wait" => lock' = lock
    BY <1>2, <1>4 DEF Digest!List, Digest!Unlock
  <2>3. /\ f \in Work /\ f.at \in {"wait", "publish"}
        /\ f.at = "publish" => \A i \in f.listed : Digest!Cooled(i)
    BY <1>2 DEF Work, Digest!ListOverdueAR
  <2> HIDE DEF f
  <2>4. /\ worker' \in [Caller -> Work] /\ worker'[w] = f
        /\ \A v \in Caller \ {w} : worker'[v] = worker[v]
    BY <2>1, <2>3, WorkMoves
  <2>5. lock' \in Caller \cup {Nobody}
    BY <1>1, <2>2 DEF DigestTypeOK
  <2>6. DigestTypeOK'
    BY <1>1, <2>1, <2>4, <2>5 DEF DigestTypeOK
  <2>7. OneADay' /\ (ChasedApart => ChasedApart')
    BY <1>1, <2>1 DEF OneADay, ChasedApart
  <2>8. WorksLocked => WorksLocked'
    BY <2>1, <2>2, <2>4 DEF WorksLocked
  <2>9. ListedCooled => ListedCooled'
    BY <2>1, <2>3, <2>4 DEF ListedCooled, Digest!Cooled
  <2>10. \A i \in OverdueItem : Marking(i) => Marking(i)'
    BY <2>1, <2>4 DEF Marking
  <2>11. PublishedIsMarked => PublishedIsMarked'
    BY <1>1, <2>1, <2>10 DEF PublishedIsMarked, DigestTypeOK
  <2>12. QED
    BY <1>1, <2>1, <2>6, <2>7, <2>8, <2>9, <2>11 DEF DigestInv, Sparing
<1>5. QED
  BY <1>3, <1>4

\* A digest is sent, lost or dropped: what is in a new one was marked before, if
\* ever, and that more than 24 hours ago.
LEMMA DigestPublished ==
  ASSUME Digest!DayAssumption, DigestInv, NEW w \in Caller,
         NEW reaches \in BOOLEAN, Digest!Publish(w, reaches)
  PROVE  DigestInv'
<1> DEFINE f == [at |-> "mark", listed |-> worker[w].listed]
           e == [at |-> now, items |-> worker[w].listed]
<1>1. DigestTypeOK /\ OneADay /\ (~ slipped => Sparing) /\ worker[w] \in Work
  BY DEF DigestInv, DigestTypeOK
<1>2. /\ worker[w].at = "publish" /\ worker' = [worker EXCEPT ![w].at = "mark"]
      /\ now' = now /\ item' = item /\ lock' = lock /\ slipped' = slipped
  BY DEF Digest!Publish
<1>3. \/ delivered' = delivered
      \/ delivered' = delivered \cup {e} /\ Digest!NewDay
  BY DEF Digest!Publish
<1>4. f \in Work /\ f.at = "mark" /\ f.listed = worker[w].listed
  BY <1>1 DEF Work
<1>5. worker' = [worker EXCEPT ![w] = f]
  <2>1. worker' = [worker EXCEPT ![w] = [worker[w] EXCEPT !.at = "mark"]]
    BY <1>2
  <2>2. QED
    BY <1>1, <2>1, WorkAt
<1>6. e \in [at: Nat \ {0}, items: SUBSET OverdueItem] /\ e.at = now /\ e.items = worker[w].listed
  BY <1>1 DEF DigestTypeOK, Work
<1> HIDE DEF e, f
<1>7. /\ worker' \in [Caller -> Work] /\ worker'[w] = f
      /\ \A v \in Caller \ {w} : worker'[v] = worker[v]
  BY <1>4, <1>5, WorkMoves
<1>8. now \in Nat /\ now <= now /\ \A d \in delivered : d.at \in Nat /\ d.at <= now /\ d.at > 0
  BY <1>1 DEF DigestTypeOK
<1>9. DigestTypeOK'
  BY <1>1, <1>2, <1>3, <1>6, <1>7, <1>8 DEF DigestTypeOK
<1>10. OneADay'
  BY <1>1, <1>3, <1>6 DEF OneADay, Digest!NewDay
<1>11. WorksLocked => WorksLocked'
  BY <1>2, <1>7 DEF WorksLocked
<1>12. ListedCooled => ListedCooled'
  BY <1>2, <1>4, <1>7 DEF ListedCooled
<1>13. /\ \A i \in OverdueItem : Marking(i) => Marking(i)'
       /\ \A i \in worker[w].listed : Marking(i)'
  BY <1>2, <1>4, <1>7 DEF Marking
<1>14. PublishedIsMarked => PublishedIsMarked'
  BY <1>1, <1>2, <1>3, <1>6, <1>13 DEF PublishedIsMarked, DigestTypeOK
<1>15. ASSUME Sparing, delivered' = delivered \cup {e}, Digest!NewDay
       PROVE  ChasedApart'
  <2>1. ASSUME NEW d \in delivered
        PROVE  /\ ~ now <= d.at
               /\ d.items \cap e.items # {} => now > d.at + DayLength
    <3>1. d.at # now
      BY <1>15, <2>1 DEF Digest!NewDay
    <3>2. ASSUME NEW i \in d.items \cap e.items
          PROVE  now > d.at + DayLength
      <4>1. ~ Marking(i)
        BY <1>2, <1>15 DEF Sparing, WorksLocked, Marking
      <4>2. i \in OverdueItem /\ item[i].notified \in Nat /\ item[i].notified >= d.at
        BY <1>1, <1>15, <4>1 DEF Sparing, PublishedIsMarked, DigestTypeOK, Receivable
      <4>3. item[i].notified = 0 \/ item[i].notified + DayLength < now
        BY <1>2, <1>6, <1>15 DEF Sparing, ListedCooled
      <4>4. QED
        BY <1>8, <4>2, <4>3 DEF Digest!DayAssumption
    <3>3. QED
      BY <1>8, <3>1, <3>2
  <2>2. QED
    BY <1>6, <1>15, <2>1 DEF ChasedApart, Sparing
<1>16. Sparing => ChasedApart'
  BY <1>3, <1>15 DEF Sparing, ChasedApart
<1>17. QED
  BY <1>1, <1>2, <1>9, <1>10, <1>11, <1>12, <1>14, <1>16 DEF DigestInv, Sparing

\* The items are marked, or the replica fails before.
LEMMA DigestMarked ==
  ASSUME Digest!DayAssumption, DigestInv, NEW w \in Caller, Digest!Mark(w)
  PROVE  DigestInv'
<1>1. DigestTypeOK /\ OneADay /\ (~ slipped => Sparing) /\ worker[w] \in Work
  BY DEF DigestInv, DigestTypeOK
<1>2. Digest!Waiting \in Work /\ Digest!Waiting.at = "wait"
  BY DEF Digest!Waiting, Work
<1>3. /\ worker[w].at = "mark" /\ worker' = [worker EXCEPT ![w] = Digest!Waiting]
      /\ lock' = IF lock = w THEN Nobody ELSE lock
      /\ now' = now /\ delivered' = delivered /\ slipped' = slipped
      /\ item' = [i \in OverdueItem |-> IF i \in worker[w].listed
                                        THEN [item[i] EXCEPT !.notified = now] ELSE item[i]]
  BY DEF Digest!Mark, Digest!Unlock
<1>4. /\ worker' \in [Caller -> Work] /\ worker'[w] = Digest!Waiting
      /\ \A v \in Caller \ {w} : worker'[v] = worker[v]
  BY <1>2, <1>3, WorkMoves
<1>5. ASSUME NEW i \in OverdueItem
      PROVE  /\ item'[i] \in Receivable
             /\ item'[i].notified = IF i \in worker[w].listed THEN now ELSE item[i].notified
  <2>1. item[i] \in Receivable /\ now \in Nat
    BY <1>1 DEF DigestTypeOK
  <2>2. /\ [item[i] EXCEPT !.notified = now] \in Receivable
        /\ [item[i] EXCEPT !.notified = now].notified = now
    BY <2>1 DEF Receivable
  <2>3. QED
    BY <1>3, <2>1, <2>2
<1>6. lock' \in Caller \cup {Nobody}
  BY <1>1, <1>3 DEF DigestTypeOK
<1>7. now \in Nat /\ now <= now
  BY <1>1 DEF DigestTypeOK
<1>8. item' \in [OverdueItem -> Receivable] /\ \A i \in OverdueItem : item'[i].notified <= now
  BY <1>1, <1>3, <1>5, <1>7 DEF DigestTypeOK
<1>9. DigestTypeOK'
  BY <1>1, <1>3, <1>4, <1>6, <1>8 DEF DigestTypeOK
<1>10. OneADay' /\ (ChasedApart => ChasedApart')
  BY <1>1, <1>3 DEF OneADay, ChasedApart
<1>11. WorksLocked => WorksLocked' /\ ListedCooled'
  BY <1>2, <1>3, <1>4 DEF WorksLocked, ListedCooled
<1>12. PublishedIsMarked => PublishedIsMarked'
  <2> SUFFICES ASSUME PublishedIsMarked, NEW d \in delivered, NEW i \in d.items
               PROVE  item'[i].notified >= d.at \/ Marking(i)'
    BY <1>3 DEF PublishedIsMarked
  <2>1. i \in OverdueItem /\ d.at <= now
    BY <1>1 DEF DigestTypeOK
  <2>2. CASE i \in worker[w].listed
    BY <1>1, <1>5, <2>1, <2>2 DEF DigestTypeOK
  <2>3. CASE i \notin worker[w].listed
    <3>1. item'[i].notified = item[i].notified
      BY <1>5, <2>1, <2>3
    <3>2. Marking(i) => Marking(i)'
      BY <1>4, <2>3 DEF Marking
    <3>3. QED
      BY <3>1, <3>2 DEF PublishedIsMarked
  <2>4. QED
    BY <2>2, <2>3
<1>13. QED
  BY <1>1, <1>3, <1>9, <1>10, <1>11, <1>12 DEF DigestInv, Sparing

LEMMA DigestFailed ==
  ASSUME Digest!DayAssumption, DigestInv, NEW w \in Caller, Digest!Fail(w)
  PROVE  DigestInv'
<1>1. DigestTypeOK /\ OneADay /\ (~ slipped => Sparing) /\ worker[w] \in Work
  BY DEF DigestInv, DigestTypeOK
<1>2. Digest!Waiting \in Work /\ Digest!Waiting.at = "wait"
  BY DEF Digest!Waiting, Work
<1>3. /\ worker[w].at # "wait" /\ worker' = [worker EXCEPT ![w] = Digest!Waiting]
      /\ lock' = IF lock = w THEN Nobody ELSE lock
      /\ now' = now /\ delivered' = delivered /\ item' = item
      /\ slipped' = (slipped \/ worker[w].at = "mark")
  BY DEF Digest!Fail, Digest!Unlock
<1>4. /\ worker' \in [Caller -> Work] /\ worker'[w] = Digest!Waiting
      /\ \A v \in Caller \ {w} : worker'[v] = worker[v]
  BY <1>2, <1>3, WorkMoves
<1>5. lock' \in Caller \cup {Nobody}
  BY <1>1, <1>3 DEF DigestTypeOK
<1>6. slipped' \in BOOLEAN
  BY <1>1, <1>3 DEF DigestTypeOK
<1>7. DigestTypeOK'
  BY <1>1, <1>3, <1>4, <1>5, <1>6 DEF DigestTypeOK
<1>8. OneADay' /\ (ChasedApart => ChasedApart')
  BY <1>1, <1>3 DEF OneADay, ChasedApart
<1>9. WorksLocked => WorksLocked'
  BY <1>2, <1>3, <1>4 DEF WorksLocked
<1>10. ListedCooled => ListedCooled'
  BY <1>2, <1>3, <1>4 DEF ListedCooled
<1>11. worker[w].at # "mark" => \A i \in OverdueItem : Marking(i) => Marking(i)'
  BY <1>4 DEF Marking
<1>12. worker[w].at # "mark" /\ PublishedIsMarked => PublishedIsMarked'
  BY <1>1, <1>3, <1>11 DEF PublishedIsMarked, DigestTypeOK
<1>13. QED
  BY <1>1, <1>3, <1>7, <1>8, <1>9, <1>10, <1>12 DEF DigestInv, Sparing

\* However replicas race, fail and lose their lock, one digest goes out a day;
\* and as long as none failed between publishing and marking and none lost its
\* lock, a receivable is chased again only after 24 hours (tick,
\* worker/overdue.go).
THEOREM DigestsAreSparing ==
  ASSUME Digest!DayAssumption
  PROVE  Digest!Spec => []Digest!ChasedSparingly
<1>1. Digest!Init => DigestInv
  BY DigestInitially
<1>2. DigestInv /\ [Digest!Next]_Digest!vars => DigestInv'
  <2> SUFFICES ASSUME DigestInv, [Digest!Next]_Digest!vars PROVE DigestInv'
    OBVIOUS
  <2>1. CASE UNCHANGED Digest!vars
    <3>1. DigestTypeOK' /\ OneADay' /\ (~ slipped => Sparing)'
      BY <2>1 DEF Digest!vars, DigestInv, DigestTypeOK, OneADay, Sparing, WorksLocked,
                  ListedCooled, PublishedIsMarked, Marking, ChasedApart
    <3>2. QED
      BY <3>1 DEF DigestInv
  <2>2. QED
    BY <2>1, DigestOthers, DigestListed, DigestPublished, DigestMarked, DigestFailed
    DEF Digest!Next
<1>3. DigestInv => Digest!ChasedSparingly
  BY DEF DigestInv, OneADay, Sparing, ChasedApart, Digest!ChasedSparingly
<1>4. QED
  BY <1>1, <1>2, <1>3, PTL DEF Digest!Spec

-----------------------------------------------------------------------------
(* Income tax. *)

TaxRow == [kind: Tax!Kind \cup {"none"}, basis: Int, rate: Int, tax: Int]
TaxCall ==
  [at: {"idle", "book", "answer", "read"}, key: Tax!Key \cup {Tax!Idle.key},
   asked: TaxRow, shut: BOOLEAN]
TaxAccounts == {"1700", "2600", "2610", "5700"}

TaxTypeOK ==
  /\ row \in [Tax!Key -> TaxRow]
  /\ entry \in [Tax!Key -> {"none", "posted", "reversed"}]
  /\ account \in [TaxAccounts -> Int]
  /\ closed \in BOOLEAN
  /\ call \in [Caller -> TaxCall]
  /\ told \in [Tax!Key -> SUBSET TaxRow]

\* What may be booked: of a kind, and within half a cent.
Assessed(r) == r.kind \in Tax!Kind /\ Tax!Off(r) \in - Whole .. Whole

\* A call knows whether the month was closed since it looked; what it asked for
\* may be booked, and is the row once it has booked.
CallsKnow ==
  \A c \in Caller : call[c].at # "idle" =>
    /\ call[c].key \in Tax!Key /\ call[c].shut = closed /\ Assessed(call[c].asked)
    /\ call[c].at = "answer" => row[call[c].key] = call[c].asked
    /\ call[c].at \in {"answer", "read"} => entry[call[c].key] # "none"

RowsAssessed ==
  \A k \in Tax!Key : entry[k] = "posted" => row[k].kind \in Tax!Kind

TaxInv ==
  /\ TaxTypeOK /\ CallsKnow /\ RowsAssessed
  /\ Tax!BalancesAreRows /\ Tax!AnswersAreBooked

Standings(r, e, kind) ==
  [k \in Tax!Key |-> IF e[k] = "posted" /\ r[k].kind = kind THEN r[k].tax ELSE 0]

LEMMA TaxSum ==
  \A kind : Tax!SumOf(kind) = SumFunction(Standings(row, entry, kind))
BY DEF Tax!SumOf, Tax!Standing, Standings, SumFunction, SumFunctionOnSet,
       FoldFunctionOnSet, MapThenFoldSet, Tax!SumFunction,
       Tax!SumFunctionOnSet, Tax!FoldFunctionOnSet, Tax!MapThenFoldSet

LEMMA TaxSumAfter ==
  \A kind : (Tax!SumOf(kind))' = SumFunction(Standings(row', entry', kind))
BY DEF Tax!SumOf, Tax!Standing, Standings, SumFunction, SumFunctionOnSet,
       FoldFunctionOnSet, MapThenFoldSet, Tax!SumFunction,
       Tax!SumFunctionOnSet, Tax!FoldFunctionOnSet, Tax!MapThenFoldSet

LEMMA KeysFinite ==
  ASSUME Tax!TaxAssumption
  PROVE  IsFiniteSet(Tax!Key)
<1>1. IsFiniteSet(TaxPeriod) /\ IsFiniteSet(Reference)
  BY DEF Tax!TaxAssumption, Tax!IsFiniteSet, IsFiniteSet
<1>2. Tax!Key = TaxPeriod \cup Reference
  BY DEF Tax!Key
<1>3. IsFiniteSet(TaxPeriod \cup Reference)
  BY <1>1, FS_Union
<1>4. QED
  BY <1>2, <1>3

\* The rounding is within half a cent, whatever the sign.
LEMMA TaxRounds ==
  ASSUME Tax!TaxAssumption, NEW b \in Int, NEW r \in Int
  PROVE  /\ Tax!Tax(b, r) \in Int
         /\ 2 * (Whole * Tax!Tax(b, r) - b * r) \in - Whole .. Whole
<1> DEFINE x == 2 * b * r + Whole
           q == x \div (2 * Whole)
<1>1. Whole \in Int /\ Whole > 0 /\ x \in Int /\ 2 * Whole \in Int /\ 2 * Whole > 0
  BY DEF Tax!TaxAssumption
<1>2. ASSUME NEW y \in Int, NEW d \in Int, d > 0
      PROVE  /\ y \div d \in Int /\ d * (y \div d) <= y
             /\ y < d * (y \div d) + d
  BY <1>2
<1>3. q \in Int /\ (2 * Whole) * q <= x /\ x < (2 * Whole) * q + 2 * Whole
  BY <1>1, <1>2
<1>4. (2 * Whole) * q = 2 * (Whole * q) /\ 2 * b * r = 2 * (b * r)
      /\ Whole * q \in Int /\ b * r \in Int
  BY <1>1, <1>3
<1>5. 2 * (Whole * q) - 2 * (b * r) <= Whole /\ 2 * (Whole * q) - 2 * (b * r) >= - Whole
  <2> DEFINE A == Whole * q
             B == b * r
  <2>1. A \in Int /\ B \in Int /\ 2 * A <= 2 * B + Whole /\ 2 * B + Whole < 2 * A + 2 * Whole
    BY <1>3, <1>4
  <2> HIDE DEF A, B
  <2>2. 2 * A - 2 * B <= Whole /\ 2 * A - 2 * B >= - Whole
    BY <1>1, <2>1
  <2>3. QED
    BY <2>2 DEF A, B
<1>6. Tax!Tax(b, r) = q
  BY DEF Tax!Tax
<1>7. 2 * (Whole * q - b * r) = 2 * (Whole * q) - 2 * (b * r)
  BY <1>4
<1>8. QED
  BY <1>1, <1>3, <1>4, <1>5, <1>6, <1>7

\* What the entry of a row, or its reversal, does to the accounts: the account of
\* its kind moves by the tax, and expense by what the three come to.
LEMMA AddedTies ==
  ASSUME account \in [TaxAccounts -> Int], NEW r \in TaxRow, r.kind \in Tax!Kind,
         NEW n \in {1, -1},
         account["5700"] = account["2600"] + account["2610"] - account["1700"]
  PROVE  /\ Tax!Added(r, n) \in [TaxAccounts -> Int]
         /\ Tax!Added(r, n)[Tax!AccountOf(r.kind)]
              = account[Tax!AccountOf(r.kind)] + n * r.tax
         /\ \A kind \in Tax!Kind \ {r.kind} :
              Tax!Added(r, n)[Tax!AccountOf(kind)] = account[Tax!AccountOf(kind)]
         /\ Tax!Added(r, n)["5700"]
              = Tax!Added(r, n)["2600"] + Tax!Added(r, n)["2610"]
                  - Tax!Added(r, n)["1700"]
<1> DEFINE t == n * r.tax
           A == Tax!Added(r, n)
<1>1. /\ r.tax \in Int /\ t \in Int /\ 1 * t = t /\ n * (-1) \in Int
      /\ n * 1 * r.tax = t /\ n * (-1) * r.tax = - t
  <2>1. r.tax \in Int
    BY DEF TaxRow
  <2>2. CASE n = 1
    BY <2>1, <2>2
  <2>3. CASE n = -1
    BY <2>1, <2>3
  <2>4. QED
    BY <2>2, <2>3
<1>2. /\ account["1700"] \in Int /\ account["2600"] \in Int
      /\ account["2610"] \in Int /\ account["5700"] \in Int
  BY DEF TaxAccounts
<1>3. /\ Tax!AccountOf("current") = "2600" /\ Tax!AccountOf("taxable") = "2610"
      /\ Tax!AccountOf("deductible") = "1700"
      /\ Tax!Expense("current") = 1 /\ Tax!Expense("taxable") = 1
      /\ Tax!Expense("deductible") = -1
  BY DEF Tax!AccountOf, Tax!Expense
<1>4. A = [account EXCEPT ![Tax!AccountOf(r.kind)] = @ + t,
                          !["5700"] = @ + n * Tax!Expense(r.kind) * r.tax]
  BY DEF Tax!Added
<1> HIDE DEF t, A
<1>5. CASE r.kind = "current"
  <2>1. A = [account EXCEPT !["2600"] = @ + t, !["5700"] = @ + t]
    BY <1>1, <1>3, <1>4, <1>5
  <2>2. /\ A \in [TaxAccounts -> Int] /\ A["2600"] = account["2600"] + t
        /\ A["2610"] = account["2610"] /\ A["1700"] = account["1700"]
        /\ A["5700"] = account["5700"] + t
    BY <1>1, <1>2, <2>1 DEF TaxAccounts
  <2>3. A["5700"] = A["2600"] + A["2610"] - A["1700"]
    BY <1>1, <1>2, <2>2
  <2>4. QED
    BY <1>3, <1>5, <2>2, <2>3 DEF A, t, Tax!Kind
<1>6. CASE r.kind = "taxable"
  <2>1. A = [account EXCEPT !["2610"] = @ + t, !["5700"] = @ + t]
    BY <1>1, <1>3, <1>4, <1>6
  <2>2. /\ A \in [TaxAccounts -> Int] /\ A["2610"] = account["2610"] + t
        /\ A["2600"] = account["2600"] /\ A["1700"] = account["1700"]
        /\ A["5700"] = account["5700"] + t
    BY <1>1, <1>2, <2>1 DEF TaxAccounts
  <2>3. A["5700"] = A["2600"] + A["2610"] - A["1700"]
    BY <1>1, <1>2, <2>2
  <2>4. QED
    BY <1>3, <1>6, <2>2, <2>3 DEF A, t, Tax!Kind
<1>7. CASE r.kind = "deductible"
  <2>1. A = [account EXCEPT !["1700"] = @ + t, !["5700"] = @ + (- t)]
    BY <1>1, <1>3, <1>4, <1>7
  <2>2. /\ A \in [TaxAccounts -> Int] /\ A["1700"] = account["1700"] + t
        /\ A["2600"] = account["2600"] /\ A["2610"] = account["2610"]
        /\ A["5700"] = account["5700"] - t
    BY <1>1, <1>2, <2>1 DEF TaxAccounts
  <2>3. A["5700"] = A["2600"] + A["2610"] - A["1700"]
    BY <1>1, <1>2, <2>2
  <2>4. QED
    BY <1>3, <1>7, <2>2, <2>3 DEF A, t, Tax!Kind
<1>8. QED
  BY <1>5, <1>6, <1>7 DEF Tax!Kind

\* One key's entry is posted or reversed, and the accounts move by its tax.
LEMMA TaxMoved ==
  ASSUME Tax!TaxAssumption, TaxTypeOK, Tax!BalancesAreRows,
         row' \in [Tax!Key -> TaxRow],
         entry' \in [Tax!Key -> {"none", "posted", "reversed"}],
         NEW k \in Tax!Key,
         \A j \in Tax!Key \ {k} : row'[j] = row[j] /\ entry'[j] = entry[j],
         row'[k].kind \in Tax!Kind, Tax!Off(row'[k]) \in - Whole .. Whole,
         NEW n \in {1, -1}, account' = Tax!Added(row'[k], n),
         \/ n = 1 /\ entry[k] # "posted" /\ entry'[k] = "posted"
         \/ n = -1 /\ entry[k] = "posted" /\ entry'[k] # "posted" /\ row'[k] = row[k]
  PROVE  (Tax!BalancesAreRows)' /\ account' \in [TaxAccounts -> Int]
<1> DEFINE r == row'[k]
           K == r.kind
           S(kind) == Standings(row, entry, kind)
           T(kind) == Standings(row', entry', kind)
<1>1. /\ IsFiniteSet(Tax!Key) /\ r \in TaxRow /\ K \in Tax!Kind /\ r.tax \in Int
      /\ row[k] \in TaxRow
  BY KeysFinite DEF TaxTypeOK, TaxRow
<1>2. /\ \A kind \in Tax!Kind : account[Tax!AccountOf(kind)] = Tax!SumOf(kind)
      /\ account["5700"] = account["2600"] + account["2610"] - account["1700"]
      /\ \A j \in Tax!Key : Tax!Off(row[j]) \in - Whole .. Whole
      /\ account \in [TaxAccounts -> Int]
  BY DEF Tax!BalancesAreRows, TaxTypeOK
<1>3. /\ account' \in [TaxAccounts -> Int]
      /\ account'[Tax!AccountOf(K)] = account[Tax!AccountOf(K)] + n * r.tax
      /\ \A kind \in Tax!Kind \ {K} :
           account'[Tax!AccountOf(kind)] = account[Tax!AccountOf(kind)]
      /\ account'["5700"] = account'["2600"] + account'["2610"] - account'["1700"]
  BY <1>1, <1>2, AddedTies
<1>4. ASSUME NEW kind \in Tax!Kind
      PROVE  /\ S(kind) \in [Tax!Key -> Int] /\ T(kind) \in [Tax!Key -> Int]
             /\ \A j \in Tax!Key \ {k} : T(kind)[j] = S(kind)[j]
             /\ kind # K => T(kind)[k] = S(kind)[k]
             /\ T(K)[k] = S(K)[k] + n * r.tax
  <2>1. \A j \in Tax!Key : row[j].tax \in Int /\ row'[j].tax \in Int
    BY DEF TaxTypeOK, TaxRow
  <2>2. S(kind) \in [Tax!Key -> Int] /\ T(kind) \in [Tax!Key -> Int]
    BY <2>1 DEF Standings
  <2>3. \A j \in Tax!Key \ {k} : T(kind)[j] = S(kind)[j]
    BY DEF Standings
  <2>4. CASE n = 1
    <3>1. \A d : S(d)[k] = 0
      BY <2>4 DEF Standings
    <3>2. /\ T(K)[k] = r.tax
          /\ kind # K => T(kind)[k] = 0
      BY <2>4 DEF Standings
    <3>3. n * r.tax = r.tax
      BY <1>1, <2>4
    <3>4. QED
      BY <1>1, <2>2, <2>3, <3>1, <3>2, <3>3
  <2>5. CASE n = -1
    <3>1. \A d : T(d)[k] = 0
      BY <2>5 DEF Standings
    <3>2. /\ S(K)[k] = r.tax
          /\ kind # K => S(kind)[k] = 0
      BY <2>5 DEF Standings
    <3>3. n * r.tax = - r.tax
      BY <1>1, <2>5
    <3>4. QED
      BY <1>1, <2>2, <2>3, <3>1, <3>2, <3>3
  <2>6. QED
    BY <2>4, <2>5
<1> HIDE DEF S, T
<1>5. ASSUME NEW kind \in Tax!Kind
      PROVE  account'[Tax!AccountOf(kind)] = SumFunction(T(kind))
  <2>1. SumFunction(T(kind)) = SumFunction(S(kind)) - S(kind)[k] + T(kind)[k]
    BY <1>1, <1>4, SumChange
  <2>2. SumFunction(S(kind)) \in Int /\ S(kind)[k] \in Int /\ T(kind)[k] \in Int
    BY <1>1, <1>4, SumType
  <2>3. account[Tax!AccountOf(kind)] = SumFunction(S(kind))
    BY <1>2, TaxSum DEF S
  <2>4. CASE kind = K
    <3>1. T(kind)[k] = S(kind)[k] + n * r.tax /\ account'[Tax!AccountOf(kind)] = account[Tax!AccountOf(kind)] + n * r.tax
      BY <1>3, <1>4, <2>4
    <3>2. n * r.tax \in Int
      BY <1>1
    <3>3. QED
      BY <2>1, <2>2, <2>3, <3>1, <3>2
  <2>5. CASE kind # K
    BY <1>3, <1>4, <2>1, <2>2, <2>3, <2>5
  <2>6. QED
    BY <2>4, <2>5
<1>6. \A kind \in Tax!Kind : account'[Tax!AccountOf(kind)] = (Tax!SumOf(kind))'
  BY <1>5, TaxSumAfter DEF T
<1>7. \A j \in Tax!Key : (Tax!Off(row[j]))' \in - Whole .. Whole
  <2>1. ASSUME NEW j \in Tax!Key
        PROVE  Tax!Off(row'[j]) \in - Whole .. Whole
    BY <1>2, <2>1
  <2>2. QED
    BY <2>1 DEF Tax!Off
<1>8. QED
  BY <1>3, <1>6, <1>7 DEF Tax!BalancesAreRows

LEMMA TaxUnmoved ==
  ASSUME Tax!BalancesAreRows, row' = row, entry' = entry, account' = account
  PROVE  (Tax!BalancesAreRows)'
<1>1. \A kind : (Tax!SumOf(kind))' = Tax!SumOf(kind)
  BY TaxSum, TaxSumAfter
<1>2. QED
  BY <1>1 DEF Tax!BalancesAreRows, Tax!Off

LEMMA TaxInitially ==
  ASSUME Tax!TaxAssumption, Tax!Init
  PROVE  TaxInv
<1>1. /\ row = [k \in Tax!Key |-> Tax!NoRow] /\ entry = [k \in Tax!Key |-> "none"]
      /\ account = [a \in TaxAccounts |-> 0] /\ closed = FALSE
      /\ call = [c \in Caller |-> Tax!Idle] /\ told = [k \in Tax!Key |-> {}]
      /\ unchecked = {}
  BY DEF Tax!Init, TaxAccounts
<1>2. /\ Tax!NoRow \in TaxRow /\ Tax!NoRow.kind = "none" /\ Tax!NoRow.tax = 0
      /\ Tax!NoRow.basis = 0 /\ Tax!NoRow.rate = 0
  BY DEF Tax!NoRow, TaxRow
<1>3. Tax!Idle \in TaxCall /\ Tax!Idle.at = "idle"
  BY <1>2 DEF Tax!Idle, TaxCall
<1>4. row \in [Tax!Key -> TaxRow] /\ call \in [Caller -> TaxCall]
  BY <1>1, <1>2, <1>3
<1>5. /\ entry \in [Tax!Key -> {"none", "posted", "reversed"}]
      /\ account \in [TaxAccounts -> Int] /\ told \in [Tax!Key -> SUBSET TaxRow]
  BY <1>1
<1>6. closed \in BOOLEAN
  BY <1>1
<1>7. TaxTypeOK
  BY <1>4, <1>5, <1>6 DEF TaxTypeOK
<1>8. CallsKnow /\ RowsAssessed /\ Tax!AnswersAreBooked
  BY <1>1, <1>3 DEF CallsKnow, RowsAssessed, Tax!AnswersAreBooked
<1>9. ASSUME NEW kind \in Tax!Kind
      PROVE  account[Tax!AccountOf(kind)] = Tax!SumOf(kind)
  <2> DEFINE S == Standings(row, entry, kind)
  <2>1. S \in [Tax!Key -> Int] /\ \A k \in Tax!Key : S[k] = 0
    BY <1>1 DEF Standings
  <2> HIDE DEF S
  <2>2. SumFunction(S) = 0
    BY <2>1, KeysFinite, SumZero
  <2>3. Tax!AccountOf(kind) \in TaxAccounts
    BY DEF Tax!AccountOf, TaxAccounts
  <2>4. QED
    BY <1>1, <2>2, <2>3, TaxSum DEF S
<1>10. \A k \in Tax!Key : Tax!Off(row[k]) \in - Whole .. Whole
  <2>1. Whole \in Nat
    BY DEF Tax!TaxAssumption
  <2>2. Tax!Off(Tax!NoRow) = 0
    BY <1>2, <2>1 DEF Tax!Off
  <2>3. QED
    BY <1>1, <2>1, <2>2
<1>11. Tax!BalancesAreRows
  BY <1>1, <1>9, <1>10 DEF Tax!BalancesAreRows, TaxAccounts
<1>12. QED
  BY <1>7, <1>8, <1>11 DEF TaxInv

LEMMA CallAt ==
  ASSUME NEW f \in TaxCall, NEW a
  PROVE  [f EXCEPT !.at = a] = [at |-> a, key |-> f.key, asked |-> f.asked, shut |-> f.shut]
BY DEF TaxCall

LEMMA CallShut ==
  ASSUME NEW f \in TaxCall, NEW b
  PROVE  [f EXCEPT !.shut = b] = [at |-> f.at, key |-> f.key, asked |-> f.asked, shut |-> b]
BY DEF TaxCall

\* A step of a call that books nothing.
LEMMA TaxCalled ==
  ASSUME TaxInv, NEW c \in Caller, NEW w \in TaxCall,
         call' = [call EXCEPT ![c] = w],
         w.at # "idle" =>
           /\ w.key \in Tax!Key /\ w.shut = closed /\ Assessed(w.asked)
           /\ w.at = "answer" => row[w.key] = w.asked
           /\ w.at \in {"answer", "read"} => entry[w.key] # "none",
         row' = row, entry' = entry, account' = account, closed' = closed,
         told' = told, unchecked' = unchecked
  PROVE  TaxInv'
<1>1. /\ TaxTypeOK /\ CallsKnow /\ RowsAssessed
      /\ Tax!BalancesAreRows /\ Tax!AnswersAreBooked
  BY DEF TaxInv
<1>2. call'[c] = w /\ \A d \in Caller \ {c} : call'[d] = call[d]
  BY <1>1 DEF TaxTypeOK
<1>3. TaxTypeOK'
  BY <1>1 DEF TaxTypeOK
<1>4. CallsKnow'
  BY <1>1, <1>2 DEF CallsKnow, Assessed, Tax!Off
<1>5. RowsAssessed' /\ (Tax!AnswersAreBooked)'
  BY <1>1 DEF RowsAssessed, Tax!AnswersAreBooked
<1>6. (Tax!BalancesAreRows)'
  BY <1>1, TaxUnmoved
<1>7. QED
  BY <1>3, <1>4, <1>5, <1>6 DEF TaxInv

LEMMA TaxClosed ==
  ASSUME TaxInv, Tax!CloseOrReopen
  PROVE  TaxInv'
<1>1. /\ TaxTypeOK /\ CallsKnow /\ RowsAssessed
      /\ Tax!BalancesAreRows /\ Tax!AnswersAreBooked
  BY DEF TaxInv
<1>2. /\ closed' = ~closed /\ row' = row /\ entry' = entry /\ account' = account
      /\ told' = told /\ unchecked' = unchecked
      /\ call' = [c \in Caller |-> IF call[c].at = "idle" THEN Tax!Idle
                                   ELSE [call[c] EXCEPT !.shut = closed']]
  BY DEF Tax!CloseOrReopen
<1>3. closed' \in BOOLEAN
  BY <1>2
<1>4. ASSUME NEW c \in Caller
      PROVE  /\ call'[c] \in TaxCall
             /\ call'[c].at # "idle" =>
                  /\ call[c].at # "idle" /\ call'[c].at = call[c].at
                  /\ call'[c].key = call[c].key
                  /\ call'[c].asked = call[c].asked /\ call'[c].shut = closed'
  <2>1. call[c] \in TaxCall
    BY <1>1 DEF TaxTypeOK
  <2>2. CASE call[c].at = "idle"
    <3>1. call'[c] = Tax!Idle
      BY <1>2, <2>2
    <3>2. Tax!Idle \in TaxCall /\ Tax!Idle.at = "idle"
      BY DEF Tax!Idle, TaxCall, Tax!NoRow, TaxRow
    <3>3. QED
      BY <3>1, <3>2
  <2>3. CASE call[c].at # "idle"
    <3> DEFINE w == [at |-> call[c].at, key |-> call[c].key, asked |-> call[c].asked,
                     shut |-> closed']
    <3>1. call'[c] = w
      BY <1>2, <2>1, <2>3, CallShut
    <3>2. w \in TaxCall
      BY <1>3, <2>1 DEF TaxCall
    <3>3. QED
      BY <2>3, <3>1, <3>2
  <2>4. QED
    BY <2>2, <2>3
<1>5. TaxTypeOK'
  BY <1>1, <1>2, <1>3, <1>4 DEF TaxTypeOK
<1>6. CallsKnow'
  BY <1>1, <1>2, <1>4 DEF CallsKnow, Assessed, Tax!Off
<1>7. RowsAssessed' /\ (Tax!AnswersAreBooked)'
  BY <1>1, <1>2 DEF RowsAssessed, Tax!AnswersAreBooked
<1>8. (Tax!BalancesAreRows)'
  BY <1>1, <1>2, TaxUnmoved
<1>9. QED
  BY <1>5, <1>6, <1>7, <1>8 DEF TaxInv

\* The first for its key books: nobody was told of the key before.
LEMMA TaxIsBooked ==
  ASSUME Tax!TaxAssumption, TaxInv, NEW c \in Caller, Tax!Book(c)
  PROVE  TaxInv'
<1>1. /\ TaxTypeOK /\ CallsKnow /\ RowsAssessed
      /\ Tax!BalancesAreRows /\ Tax!AnswersAreBooked /\ call[c] \in TaxCall
  BY DEF TaxInv, TaxTypeOK
<1>2. PICK k, r : k = call[c].key /\ r = call[c].asked
  OBVIOUS
<1> DEFINE w == [at |-> "answer", key |-> k, asked |-> r, shut |-> call[c].shut]
<1>3. /\ call[c].at = "book" /\ entry[k] = "none"
      /\ row' = [row EXCEPT ![k] = r] /\ entry' = [entry EXCEPT ![k] = "posted"]
      /\ account' = Tax!Added(r, 1) /\ closed' = closed /\ told' = told
      /\ unchecked' = IF closed /\ ~call[c].shut THEN unchecked \cup {k} ELSE unchecked
      /\ call' = [call EXCEPT ![c].at = "answer"]
  BY <1>2 DEF Tax!Book, Tax!Booked, Tax!Step
<1>4. k \in Tax!Key /\ call[c].shut = closed /\ Assessed(r) /\ r \in TaxRow
  BY <1>1, <1>2, <1>3 DEF CallsKnow, TaxCall
<1>5. call' = [call EXCEPT ![c] = w]
  <2>1. call' = [call EXCEPT ![c] = [call[c] EXCEPT !.at = "answer"]]
    BY <1>3
  <2>2. QED
    BY <1>1, <1>2, <2>1, CallAt
<1>6. w \in TaxCall /\ w.at = "answer" /\ w.key = k /\ w.asked = r /\ w.shut = closed
  BY <1>1, <1>2, <1>4 DEF TaxCall
<1> HIDE DEF w
<1>7. /\ row' \in [Tax!Key -> TaxRow] /\ row'[k] = r
      /\ entry' \in [Tax!Key -> {"none", "posted", "reversed"}] /\ entry'[k] = "posted"
      /\ \A j \in Tax!Key \ {k} : row'[j] = row[j] /\ entry'[j] = entry[j]
  BY <1>1, <1>3, <1>4 DEF TaxTypeOK
<1>8. call'[c] = w /\ \A d \in Caller \ {c} : call'[d] = call[d]
  BY <1>1, <1>5 DEF TaxTypeOK
<1>9. (Tax!BalancesAreRows)' /\ account' \in [TaxAccounts -> Int]
  BY <1>1, <1>3, <1>4, <1>7, TaxMoved DEF Assessed
<1>10. TaxTypeOK'
  BY <1>1, <1>3, <1>5, <1>6, <1>7, <1>9 DEF TaxTypeOK
<1>11. unchecked' = {}
  BY <1>1, <1>3, <1>4 DEF Tax!AnswersAreBooked
<1>12. (Tax!AnswersAreBooked)'
  BY <1>1, <1>3, <1>4, <1>7, <1>11 DEF Tax!AnswersAreBooked
<1>13. RowsAssessed'
  BY <1>1, <1>4, <1>7 DEF RowsAssessed, Assessed
<1>14. CallsKnow'
  <2> SUFFICES ASSUME NEW d \in Caller, call'[d].at # "idle"
      PROVE  /\ call'[d].key \in Tax!Key /\ call'[d].shut = closed
             /\ Assessed(call'[d].asked)
             /\ call'[d].at = "answer" => row'[call'[d].key] = call'[d].asked
             /\ call'[d].at \in {"answer", "read"} => entry'[call'[d].key] # "none"
    BY <1>3 DEF CallsKnow, Assessed, Tax!Off
  <2>1. CASE d = c
    BY <1>4, <1>6, <1>7, <1>8, <2>1
  <2>2. CASE d # c
    <3>1. call'[d] = call[d]
      BY <1>8, <2>2
    <3>2. /\ call[d].key \in Tax!Key /\ call[d].shut = closed /\ Assessed(call[d].asked)
          /\ call[d].at = "answer" => row[call[d].key] = call[d].asked
          /\ call[d].at \in {"answer", "read"} => entry[call[d].key] # "none"
      BY <1>1, <3>1 DEF CallsKnow
    <3>3. call[d].at \in {"answer", "read"} => call[d].key # k
      BY <1>3, <3>2
    <3>4. QED
      BY <1>7, <3>1, <3>2, <3>3
  <2>3. QED
    BY <2>1, <2>2
<1>15. QED
  BY <1>9, <1>10, <1>12, <1>13, <1>14 DEF TaxInv

LEMMA TaxReversed ==
  ASSUME Tax!TaxAssumption, TaxInv, NEW k \in Tax!Key, Tax!Reverse(k)
  PROVE  TaxInv'
<1>1. /\ TaxTypeOK /\ CallsKnow /\ RowsAssessed
      /\ Tax!BalancesAreRows /\ Tax!AnswersAreBooked
  BY DEF TaxInv
<1>2. /\ entry[k] = "posted" /\ entry' = [entry EXCEPT ![k] = "reversed"]
      /\ account' = Tax!Added(row[k], -1) /\ row' = row /\ closed' = closed
      /\ call' = call /\ told' = told /\ unchecked' = unchecked
  BY DEF Tax!Reverse
<1>3. /\ entry' \in [Tax!Key -> {"none", "posted", "reversed"}]
      /\ entry'[k] = "reversed" /\ \A j \in Tax!Key \ {k} : entry'[j] = entry[j]
      /\ row' \in [Tax!Key -> TaxRow] /\ \A j \in Tax!Key : row'[j] = row[j]
  BY <1>1, <1>2 DEF TaxTypeOK
<1>4. row'[k].kind \in Tax!Kind /\ Tax!Off(row'[k]) \in - Whole .. Whole
  BY <1>1, <1>2 DEF RowsAssessed, Tax!BalancesAreRows
<1>5. (Tax!BalancesAreRows)' /\ account' \in [TaxAccounts -> Int]
  BY <1>1, <1>2, <1>3, <1>4, TaxMoved
<1>6. TaxTypeOK'
  BY <1>1, <1>2, <1>3, <1>5 DEF TaxTypeOK
<1>7. RowsAssessed' /\ (Tax!AnswersAreBooked)'
  BY <1>1, <1>2, <1>3 DEF RowsAssessed, Tax!AnswersAreBooked
<1>8. CallsKnow'
  BY <1>1, <1>2, <1>3 DEF CallsKnow, Assessed, Tax!Off
<1>9. QED
  BY <1>5, <1>6, <1>7, <1>8 DEF TaxInv

LEMMA TaxKept ==
  ASSUME Tax!TaxAssumption, TaxInv, [Tax!Next]_Tax!vars
  PROVE  TaxInv'
<1>1. /\ TaxTypeOK /\ CallsKnow /\ RowsAssessed
      /\ Tax!BalancesAreRows /\ Tax!AnswersAreBooked
  BY DEF TaxInv
<1>2. Tax!Idle \in TaxCall /\ Tax!Idle.at = "idle"
  BY DEF Tax!Idle, TaxCall, Tax!NoRow, TaxRow
<1>3. CASE UNCHANGED Tax!vars
  <2>1. /\ row' = row /\ entry' = entry /\ account' = account /\ closed' = closed
        /\ call' = call /\ told' = told /\ unchecked' = unchecked
    BY <1>3 DEF Tax!vars
  <2>2. (Tax!BalancesAreRows)'
    BY <1>1, <2>1, TaxUnmoved
  <2>3. TaxTypeOK' /\ CallsKnow' /\ RowsAssessed' /\ (Tax!AnswersAreBooked)'
    BY <1>1, <2>1 DEF TaxTypeOK, CallsKnow, RowsAssessed, Assessed, Tax!Off,
                      Tax!AnswersAreBooked
  <2>4. QED
    BY <2>2, <2>3 DEF TaxInv
<1>4. ASSUME NEW c \in Caller, NEW kind \in Tax!Kind, NEW k \in Tax!Key,
             NEW basis \in Basis, NEW percent \in Rate, Tax!Ask(c, kind, k, basis, percent)
      PROVE  TaxInv'
  <2> DEFINE r == [kind |-> kind, basis |-> basis, rate |-> percent,
                   tax |-> Tax!Tax(basis, percent)]
             w == [at |-> "book", key |-> k, shut |-> FALSE, asked |-> r]
  <2>1. basis \in Int /\ percent \in Int
    BY DEF Tax!TaxAssumption
  <2>2. /\ Tax!Tax(basis, percent) \in Int
        /\ 2 * (Whole * Tax!Tax(basis, percent) - basis * percent) \in - Whole .. Whole
    BY <2>1, TaxRounds
  <2>3. r \in TaxRow /\ Assessed(r)
    BY <2>1, <2>2 DEF TaxRow, Assessed, Tax!Off
  <2> HIDE DEF r
  <2>4. w \in TaxCall /\ w.at = "book" /\ w.key = k /\ w.shut = FALSE /\ w.asked = r
    BY <2>3 DEF TaxCall
  <2>5. /\ call' = [call EXCEPT ![c] = w] /\ ~ closed
        /\ row' = row /\ entry' = entry /\ account' = account /\ closed' = closed
        /\ told' = told /\ unchecked' = unchecked
    BY <1>4 DEF Tax!Ask, Tax!Open, r
  <2>6. closed = FALSE
    BY <1>1, <2>5 DEF TaxTypeOK
  <2> HIDE DEF w
  <2>7. QED
    BY <2>3, <2>4, <2>5, <2>6, TaxCalled
<1>5. ASSUME NEW c \in Caller, Tax!BookNothing(c)
      PROVE  TaxInv'
  <2> DEFINE w == [at |-> "read", key |-> call[c].key, asked |-> call[c].asked,
                   shut |-> call[c].shut]
  <2>1. /\ call[c].at = "book" /\ entry[call[c].key] # "none"
        /\ call' = [call EXCEPT ![c].at = "read"]
        /\ row' = row /\ entry' = entry /\ account' = account /\ closed' = closed
        /\ told' = told /\ unchecked' = unchecked
    BY <1>5 DEF Tax!BookNothing, Tax!Booked, Tax!Step
  <2>2. /\ call[c] \in TaxCall /\ call[c].key \in Tax!Key /\ call[c].shut = closed
        /\ Assessed(call[c].asked)
    BY <1>1, <2>1 DEF TaxTypeOK, CallsKnow
  <2>3. call' = [call EXCEPT ![c] = w]
    <3>1. call' = [call EXCEPT ![c] = [call[c] EXCEPT !.at = "read"]]
      BY <2>1
    <3>2. QED
      BY <2>2, <3>1, CallAt
  <2>4. /\ w \in TaxCall /\ w.at = "read" /\ w.key = call[c].key
        /\ w.shut = call[c].shut /\ w.asked = call[c].asked
    BY <2>2 DEF TaxCall
  <2> HIDE DEF w
  <2>5. QED
    BY <2>1, <2>2, <2>3, <2>4, TaxCalled
<1>6. ASSUME NEW c \in Caller, Tax!Answer(c)
      PROVE  TaxInv'
  <2>1. PICK k, r : k = call[c].key /\ r = row[k]
    OBVIOUS
  <2>2. /\ call[c].at \in {"answer", "read"}
        /\ told' = [told EXCEPT ![k] = @ \cup
                      {IF call[c].at = "answer" THEN call[c].asked ELSE row[k]}]
        /\ call' = [call EXCEPT ![c] = Tax!Idle]
        /\ row' = row /\ entry' = entry /\ account' = account /\ closed' = closed
        /\ unchecked' = unchecked
    BY <1>6, <2>1 DEF Tax!Answer
  <2>3. /\ k \in Tax!Key /\ entry[k] # "none" /\ r \in TaxRow
        /\ call[c].at = "answer" => call[c].asked = r
    BY <1>1, <2>1, <2>2 DEF CallsKnow, TaxTypeOK
  <2>4. told' = [told EXCEPT ![k] = @ \cup {r}]
    BY <2>1, <2>2, <2>3
  <2>5. /\ told' \in [Tax!Key -> SUBSET TaxRow] /\ told'[k] = told[k] \cup {r}
        /\ \A j \in Tax!Key \ {k} : told'[j] = told[j]
    BY <1>1, <2>3, <2>4 DEF TaxTypeOK
  <2>6. call'[c].at = "idle" /\ \A d \in Caller \ {c} : call'[d] = call[d]
    BY <1>1, <1>2, <2>2 DEF TaxTypeOK
  <2>7. call' \in [Caller -> TaxCall]
    BY <1>1, <1>2, <2>2 DEF TaxTypeOK
  <2>8. TaxTypeOK'
    BY <1>1, <2>2, <2>5, <2>7 DEF TaxTypeOK
  <2>9. CallsKnow'
    BY <1>1, <2>2, <2>6 DEF CallsKnow, Assessed, Tax!Off
  <2>10. RowsAssessed'
    BY <1>1, <2>2 DEF RowsAssessed
  <2>11. (Tax!AnswersAreBooked)'
    BY <1>1, <2>1, <2>2, <2>3, <2>5 DEF Tax!AnswersAreBooked
  <2>12. (Tax!BalancesAreRows)'
    BY <1>1, <2>2, TaxUnmoved
  <2>13. QED
    BY <2>8, <2>9, <2>10, <2>11, <2>12 DEF TaxInv
<1>7. ASSUME NEW c \in Caller, Tax!Fail(c)
      PROVE  TaxInv'
  <2>1. /\ call' = [call EXCEPT ![c] = Tax!Idle]
        /\ row' = row /\ entry' = entry /\ account' = account /\ closed' = closed
        /\ told' = told /\ unchecked' = unchecked
    BY <1>7 DEF Tax!Fail
  <2>2. QED
    BY <1>2, <2>1, TaxCalled
<1>8. QED
  BY <1>3, <1>4, <1>5, <1>6, <1>7, TaxClosed, TaxIsBooked, TaxReversed DEF Tax!Next

\* Tax payable and deferred are at all times the sums of the rows whose entries
\* stand, each within half a cent, and expense is what they come to; who is
\* answered is answered with the one row that was booked for the key, however
\* many ask at once; and no month takes an entry it was closed for
\* (RunCurrentTax, RecognizeDeferredTax).
THEOREM TaxIsSound ==
  ASSUME Tax!TaxAssumption
  PROVE  Tax!Spec => []Tax!TaxTies
<1>1. Tax!Init => TaxInv
  BY TaxInitially
<1>2. TaxInv /\ [Tax!Next]_Tax!vars => TaxInv'
  BY TaxKept
<1>3. TaxInv => Tax!TaxTies
  BY DEF TaxInv, Tax!TaxTies
<1>4. QED
  BY <1>1, <1>2, <1>3, PTL DEF Tax!Spec

-----------------------------------------------------------------------------
(* Revaluation. *)

FXRequest == [at: {"forward", "reverse"}, period: Period, net: Int \ {0}]

FXTypeOK ==
  /\ net \in [Period -> Int]
  /\ forward \in [Period -> Int] /\ reverse \in [Period -> Int]
  /\ call \in [Caller -> FXRequest \cup {FX!Free}]

\* Between its two bookings a request finds the first one there.
ForwardIsBooked ==
  \A c \in Caller : call[c].at = "reverse" => forward[call[c].period] # 0

\* A request at work on a period that was left in peace is the only one, and
\* is about to take back what stands booked.
WorksAlone ==
  \A c, d \in Caller :
    call[c].period \in Period \ disturbed /\ call[d].period = call[c].period
      => c = d

TakesBack ==
  \A c \in Caller : call[c].period \in Period \ disturbed =>
    LET p == call[c].period IN
    \/ reverse[p] = forward[p]
    \/ call[c].at = "reverse" /\ reverse[p] = 0 /\ forward[p] = call[c].net

FXInv ==
  /\ FXTypeOK /\ ForwardIsBooked /\ WorksAlone /\ TakesBack
  /\ FX!ReversalMirrors /\ FX!ReversalFollowsForward

LEMMA FXInitInv ==
  ASSUME FX!PeriodAssumption, FX!Init
  PROVE  FXInv
BY DEF FX!PeriodAssumption, FX!Init, FX!Free, FXInv, FXTypeOK, FXRequest,
       ForwardIsBooked, WorksAlone, TakesBack, FX!ReversalMirrors,
       FX!ReversalFollowsForward, FX!Running

\* What one caller's step leaves of the calls: its own is the request w.
LEMMA FXMoves ==
  ASSUME call \in [Caller -> FXRequest \cup {FX!Free}],
         NEW c \in Caller, call[c].at = "forward"
  PROVE  LET w == [at |-> "reverse", period |-> call[c].period, net |-> call[c].net]
         IN  /\ w \in FXRequest /\ call[c] \in FXRequest
             /\ [call EXCEPT ![c].at = "reverse"] = [call EXCEPT ![c] = w]
<1>1. call[c] \in FXRequest
  BY DEF FX!Free
<1>2. ASSUME NEW f \in FXRequest
      PROVE  [f EXCEPT !.at = "reverse"]
               = [at |-> "reverse", period |-> f.period, net |-> f.net]
  BY DEF FXRequest
<1>3. [call[c] EXCEPT !.at = "reverse"]
        = [at |-> "reverse", period |-> call[c].period, net |-> call[c].net]
  BY <1>1, <1>2
<1>4. [call EXCEPT ![c].at = "reverse"]
        = [call EXCEPT ![c] = [call[c] EXCEPT !.at = "reverse"]]
  OBVIOUS
<1>5. [at |-> "reverse", period |-> call[c].period, net |-> call[c].net] \in FXRequest
  BY <1>1 DEF FXRequest
<1>6. QED
  BY <1>1, <1>3, <1>4, <1>5

LEMMA FXNextInv ==
  ASSUME FX!PeriodAssumption, FXInv, [FX!Next]_FX!vars
  PROVE  FXInv'
<1> USE DEF FXInv
<1> NoPeriod \notin Period
  BY DEF FX!PeriodAssumption
<1>1. ASSUME NEW p \in Period, FX!BalancesMove(p)
      PROVE  FXInv'
  <2>1. /\ net' \in [Period -> Int]
        /\ forward' = forward /\ reverse' = reverse /\ call' = call
        /\ disturbed' = disturbed
    <3>1. FX!Net \subseteq Int
      BY DEF FX!Net, FX!PeriodAssumption
    <3>2. QED
      BY <1>1, <3>1 DEF FX!BalancesMove, FXTypeOK
  <2>2. QED
    BY <2>1 DEF FXTypeOK, ForwardIsBooked, WorksAlone, TakesBack,
       FX!ReversalMirrors, FX!ReversalFollowsForward, FX!Running
<1>2. ASSUME NEW c \in Caller, NEW p \in Period, FX!Compute(c, p)
      PROVE  FXInv'
  <2> DEFINE w == [at |-> "forward", period |-> p, net |-> net[p]]
  <2>1. /\ call[c] = FX!Free /\ call' = [call EXCEPT ![c] = w]
        /\ net' = net /\ forward' = forward /\ reverse' = reverse
        /\ w \in FXRequest /\ w.at = "forward" /\ w.period = p
        /\ disturbed' = IF FX!Running(p) THEN disturbed \cup {p} ELSE disturbed
    BY <1>2 DEF FX!Compute, FXTypeOK, FXRequest
  <2> HIDE DEF w
  <2>2. /\ FXTypeOK' /\ call'[c] = w
        /\ \A d \in Caller : d # c => call'[d] = call[d]
    BY <2>1 DEF FXTypeOK
  <2>3. \A q \in Period \ disturbed' : q # p => (FX!Running(q))' = FX!Running(q)
    BY <2>1, <2>2 DEF FX!Running, FX!Free
  <2>4. p \notin disturbed' =>
          /\ p \notin disturbed /\ reverse[p] = forward[p]
          /\ \A d \in Caller : call[d].period # p
    BY <2>1 DEF FX!Running, FX!ReversalMirrors
  <2>5. ForwardIsBooked'
    BY <2>1, <2>2 DEF ForwardIsBooked
  <2>6. WorksAlone'
    BY <2>1, <2>2, <2>4 DEF WorksAlone
  <2>7. TakesBack'
    BY <2>1, <2>2, <2>4 DEF TakesBack
  <2>8. (FX!ReversalMirrors)'
    BY <2>1, <2>2, <2>3 DEF FX!ReversalMirrors, FX!Running
  <2>9. QED
    BY <2>1, <2>2, <2>5, <2>6, <2>7, <2>8 DEF FX!ReversalFollowsForward
<1>3. ASSUME NEW c \in Caller, FX!BookForward(c)
      PROVE  FXInv'
  <2> DEFINE w == [at |-> "reverse", period |-> call[c].period, net |-> call[c].net]
             p == call[c].period
  <2>1. /\ call[c].at = "forward" /\ call' = [call EXCEPT ![c] = w]
        /\ net' = net /\ reverse' = reverse /\ disturbed' = disturbed
        /\ w \in FXRequest /\ w.at = "reverse" /\ w.period = p
        /\ w.net = call[c].net /\ p \in Period /\ w.net \in Int /\ w.net # 0
        /\ forward' = [forward EXCEPT ![p] = IF forward[p] = 0 THEN w.net
                                             ELSE forward[p]]
    <3>1. call[c].at = "forward" /\ w \in FXRequest /\ call[c] \in FXRequest
          /\ call' = [call EXCEPT ![c] = w]
      BY <1>3, FXMoves DEF FX!BookForward, FXTypeOK
    <3>2. forward' = [forward EXCEPT ![p] = IF forward[p] = 0 THEN call[c].net
                                            ELSE forward[p]]
      BY <1>3, <3>1 DEF FX!BookForward, FX!Booked, FXTypeOK, FXRequest
    <3>3. QED
      BY <1>3, <3>1, <3>2 DEF FX!BookForward, FXRequest
  <2> HIDE DEF w, p
  <2>2. /\ FXTypeOK' /\ call'[c] = w
        /\ \A d \in Caller : d # c => call'[d] = call[d]
        /\ forward'[p] # 0 /\ \A q \in Period : q # p => forward'[q] = forward[q]
        /\ forward[p] # 0 => forward'[p] = forward[p]
        /\ forward[p] = 0 => forward'[p] = w.net
    BY <2>1 DEF FXTypeOK
  <2>3. \A d \in Caller : call'[d].period = call[d].period
    BY <2>1, <2>2 DEF p
  <2>4. ForwardIsBooked'
    <3> SUFFICES ASSUME NEW d \in Caller, call'[d].at = "reverse"
                 PROVE  forward'[call'[d].period] # 0
      BY DEF ForwardIsBooked
    <3>1. CASE d = c
      BY <2>1, <2>2, <3>1
    <3>2. CASE d # c
      <4>1. call'[d] = call[d] /\ call[d].period \in Period
            /\ forward[call[d].period] # 0
        BY <2>2, <3>2 DEF ForwardIsBooked, FXTypeOK, FXRequest, FX!Free
      <4>2. QED
        BY <2>2, <4>1
    <3>3. QED
      BY <3>1, <3>2
  <2>5. WorksAlone'
    BY <2>1, <2>3 DEF WorksAlone
  <2>6. TakesBack'
    <3> SUFFICES ASSUME NEW d \in Caller, call'[d].period \in Period \ disturbed
                 PROVE  LET q == call'[d].period IN
                        \/ reverse[q] = forward'[q]
                        \/ call'[d].at = "reverse" /\ reverse[q] = 0
                             /\ forward'[q] = call'[d].net
      BY <2>1 DEF TakesBack
    <3>1. CASE d = c
      <4>1. reverse[p] = forward[p] /\ call'[d].period = p /\ call'[d] = w
        BY <2>1, <2>2, <3>1 DEF TakesBack, p
      <4>2. QED
        BY <2>1, <2>2, <4>1
    <3>2. CASE d # c
      <4>1. call'[d] = call[d] /\ call[d].period # p
        BY <2>1, <2>2, <3>2 DEF WorksAlone, p
      <4>2. forward'[call[d].period] = forward[call[d].period]
        BY <2>2, <4>1
      <4>3. QED
        BY <4>1, <4>2 DEF TakesBack
    <3>3. QED
      BY <3>1, <3>2
  <2>7. (FX!ReversalMirrors)'
    <3>1. \A q \in Period : (FX!Running(q))' = FX!Running(q)
      BY <2>3 DEF FX!Running
    <3>2. FX!Running(p)
      BY DEF FX!Running, p
    <3>3. QED
      BY <2>1, <2>2, <3>1, <3>2 DEF FX!ReversalMirrors
  <2>8. (FX!ReversalFollowsForward)'
    BY <2>1, <2>2 DEF FX!ReversalFollowsForward
  <2>9. QED
    BY <2>2, <2>4, <2>5, <2>6, <2>7, <2>8
<1>4. ASSUME NEW c \in Caller, FX!BookReverse(c)
      PROVE  FXInv'
  <2> DEFINE p == call[c].period
  <2>1. /\ call[c].at = "reverse" /\ call' = [call EXCEPT ![c] = FX!Free]
        /\ net' = net /\ forward' = forward /\ disturbed' = disturbed
        /\ p \in Period /\ call[c].net \in Int
        /\ reverse' = [reverse EXCEPT ![p] = IF reverse[p] = 0 THEN call[c].net
                                             ELSE reverse[p]]
    <3>1. call[c].at = "reverse" /\ call[c] \in FXRequest
      BY <1>4 DEF FX!BookReverse, FXTypeOK, FX!Free
    <3>2. QED
      BY <1>4, <3>1 DEF FX!BookReverse, FX!Booked, FXTypeOK, FXRequest
  <2> HIDE DEF p
  <2>2. /\ FXTypeOK' /\ call'[c] = FX!Free
        /\ \A d \in Caller : d # c => call'[d] = call[d]
        /\ \A q \in Period : q # p => reverse'[q] = reverse[q]
        /\ reverse[p] # 0 => reverse'[p] = reverse[p]
        /\ reverse[p] = 0 => reverse'[p] = call[c].net
    BY <2>1 DEF FXTypeOK
  <2>3. forward[p] # 0
    BY <2>1 DEF ForwardIsBooked, p
  <2>4. p \notin disturbed =>
          /\ reverse'[p] = forward[p]
          /\ \A d \in Caller : d # c => call[d].period # p
    BY <2>1, <2>2, <2>3 DEF TakesBack, WorksAlone, p
  <2>5. FX!Free.period = NoPeriod /\ FX!Free.at = "free"
    BY DEF FX!Free
  <2>6. ForwardIsBooked'
    BY <2>1, <2>2, <2>5 DEF ForwardIsBooked
  <2>7. WorksAlone'
    BY <2>1, <2>2, <2>5 DEF WorksAlone
  <2>8. TakesBack'
    <3> SUFFICES ASSUME NEW d \in Caller, call'[d].period \in Period \ disturbed
                 PROVE  LET q == call'[d].period IN
                        \/ reverse'[q] = forward[q]
                        \/ call'[d].at = "reverse" /\ reverse'[q] = 0
                             /\ forward[q] = call'[d].net
      BY <2>1 DEF TakesBack
    <3>1. d # c /\ call'[d] = call[d] /\ call[d].period # p
      BY <2>2, <2>4, <2>5
    <3>2. reverse'[call[d].period] = reverse[call[d].period]
      BY <2>2, <3>1
    <3>3. QED
      BY <3>1, <3>2 DEF TakesBack
  <2>9. (FX!ReversalMirrors)'
    <3> SUFFICES ASSUME NEW q \in Period \ disturbed, ~ (FX!Running(q))'
                 PROVE  reverse'[q] = forward[q]
      BY <2>1 DEF FX!ReversalMirrors
    <3>1. CASE q = p
      BY <2>4, <3>1
    <3>2. CASE q # p
      <4>1. ~ FX!Running(q)
        BY <2>2, <3>2 DEF FX!Running, p
      <4>2. QED
        BY <2>2, <3>2, <4>1 DEF FX!ReversalMirrors
    <3>3. QED
      BY <3>1, <3>2
  <2>10. (FX!ReversalFollowsForward)'
    BY <2>1, <2>2, <2>3 DEF FX!ReversalFollowsForward
  <2>11. QED
    BY <2>2, <2>6, <2>7, <2>8, <2>9, <2>10
<1>5. ASSUME NEW c \in Caller, FX!CallFails(c)
      PROVE  FXInv'
  <2>1. /\ call[c] # FX!Free /\ call' = [call EXCEPT ![c] = FX!Free]
        /\ net' = net /\ forward' = forward /\ reverse' = reverse
        /\ disturbed' = disturbed \cup {call[c].period}
    BY <1>5 DEF FX!CallFails
  <2>2. /\ FXTypeOK' /\ call'[c] = FX!Free
        /\ \A d \in Caller : d # c => call'[d] = call[d]
        /\ FX!Free.period = NoPeriod /\ FX!Free.at = "free"
    BY <2>1 DEF FXTypeOK, FX!Free
  <2>3. \A q \in Period \ disturbed' : (FX!Running(q))' = FX!Running(q)
    BY <2>1, <2>2 DEF FX!Running
  <2>4. ForwardIsBooked' /\ WorksAlone' /\ TakesBack'
    BY <2>1, <2>2 DEF ForwardIsBooked, WorksAlone, TakesBack
  <2>5. (FX!ReversalMirrors)'
    BY <2>1, <2>3 DEF FX!ReversalMirrors
  <2>6. QED
    BY <2>1, <2>2, <2>4, <2>5 DEF FX!ReversalFollowsForward
<1>6. CASE UNCHANGED FX!vars
  BY <1>6 DEF FX!vars, FXTypeOK, ForwardIsBooked, WorksAlone, TakesBack,
     FX!ReversalMirrors, FX!ReversalFollowsForward, FX!Running
<1>7. QED
  BY <1>1, <1>2, <1>3, <1>4, <1>5, <1>6 DEF FX!Next

\* What a period's revaluation books is taken back on the first day of the
\* next and nothing else is, however the balances move between the two
\* bookings (RevalueFX).
THEOREM RevaluationIsSound ==
  ASSUME FX!PeriodAssumption
  PROVE  FX!Spec => []FX!RevaluationReverses
<1>1. FX!Init => FXInv
  BY FXInitInv
<1>2. FXInv /\ [FX!Next]_FX!vars => FXInv'
  BY FXNextInv
<1>3. FXInv => FX!RevaluationReverses
  BY DEF FXInv, FX!RevaluationReverses
<1>4. QED
  BY <1>1, <1>2, <1>3, PTL DEF FX!Spec

-----------------------------------------------------------------------------
(* Leave valuation. *)

LeaveRow == [valued: BOOLEAN, total: Int, movement: Int, linked: BOOLEAN]
LeaveCall ==
  [at: {"measure", "previous", "book"}, day: Leave!Day, measured: Int,
   previous: Int]

LeaveTypeOK ==
  /\ liability \in Int
  /\ valuation \in [Leave!Day -> LeaveRow]
  /\ entry \in [Leave!Day -> [booked: BOOLEAN, amount: Int]]
  /\ call \in [Caller -> LeaveCall \cup {Leave!Free}]
  /\ orderly \in BOOLEAN

UnbookedIsNothing ==
  \A d \in Leave!Day : ~ entry[d].booked => entry[d].amount = 0

\* In good order a request is alone, its date comes after every date valued,
\* and the total it subtracts is still the last one when it books.
ValuedInOrder ==
  orderly => \A c \in Caller : call[c] # Leave!Free =>
    /\ \A b \in Caller \ {c} : call[b] = Leave!Free
    /\ \A d \in Leave!Valued : d < call[c].day
    /\ call[c].at = "book" => call[c].previous = Leave!LastTotal

LeaveInv ==
  /\ LeaveTypeOK /\ UnbookedIsNothing /\ ValuedInOrder
  /\ Leave!LedgerIsLastTotal /\ Leave!PostingIsRecorded

Movements(e) == [d \in Leave!Day |-> e[d].amount]

LEMMA LeaveSum == Leave!Ledger = SumFunction(Movements(entry))
BY DEF Leave!Ledger, Movements, SumFunction, SumFunctionOnSet,
       FoldFunctionOnSet, MapThenFoldSet, Leave!SumFunction,
       Leave!SumFunctionOnSet, Leave!FoldFunctionOnSet, Leave!MapThenFoldSet

LEMMA LeaveSumAfter == (Leave!Ledger)' = SumFunction(Movements(entry'))
BY DEF Leave!Ledger, Movements, SumFunction, SumFunctionOnSet,
       FoldFunctionOnSet, MapThenFoldSet, Leave!SumFunction,
       Leave!SumFunctionOnSet, Leave!FoldFunctionOnSet, Leave!MapThenFoldSet

LEMMA DaysFinite ==
  ASSUME Leave!DayAssumption
  PROVE  IsFiniteSet(Leave!Day)
<1>1. LastDay \in Int
  BY DEF Leave!DayAssumption
<1>2. QED
  BY <1>1, FS_Interval DEF Leave!Day

LEMMA LatestIs ==
  ASSUME NEW S, S \subseteq Int, NEW d \in S, \A e \in S : e <= d
  PROVE  Leave!Max(S) = d
<1>1. \A x \in S : x >= d => x = d
  OBVIOUS
<1>2. \A y \in S : d >= y
  OBVIOUS
<1>3. QED
  BY <1>1, <1>2 DEF Leave!Max

LEMMA LastTotalType ==
  ASSUME Leave!DayAssumption, LeaveTypeOK
  PROVE  Leave!LastTotal \in Int
<1> DEFINE S == Leave!Valued
<1>1. CASE S = {}
  BY <1>1 DEF Leave!LastTotal
<1>2. CASE S # {}
  <2>1. S \subseteq Nat /\ S \subseteq Leave!Day /\ LastDay \in Nat
        /\ \A n \in S : n <= LastDay
    BY DEF Leave!Valued, Leave!Day, Leave!DayAssumption
  <2> HIDE DEF S
  <2>2. PICK m \in S : \A n \in S : n <= m
    BY <1>2, <2>1, GreatestExists
  <2>3. Leave!Max(S) = m
    <3>1. S \subseteq Int
      BY <2>1
    <3>2. QED
      BY <2>2, <3>1, LatestIs
  <2>4. valuation[m].total \in Int
    BY <2>1 DEF LeaveTypeOK, LeaveRow
  <2>5. QED
    BY <1>2, <2>3, <2>4 DEF Leave!LastTotal, S
<1>3. QED
  BY <1>1, <1>2

\* A date after all that are valued has the last total once it is valued.
LEMMA LastTotalAfter ==
  ASSUME LeaveTypeOK, NEW d \in Leave!Day, NEW r \in LeaveRow, r.valued,
         valuation' = [valuation EXCEPT ![d] = r],
         \A e \in Leave!Valued : e < d
  PROVE  (Leave!LastTotal)' = r.total
<1>1. (Leave!Valued)' = Leave!Valued \cup {d}
  <2>1. valuation'[d] = r /\ \A e \in Leave!Day : e # d => valuation'[e] = valuation[e]
    BY DEF LeaveTypeOK
  <2>2. \A e : e \in (Leave!Valued)' <=> e \in Leave!Valued \/ e = d
    BY <2>1 DEF Leave!Valued
  <2>3. QED
    BY <2>2
<1>2. /\ Leave!Valued \cup {d} \subseteq Int
      /\ \A e \in Leave!Valued \cup {d} : e <= d
  BY DEF Leave!Valued, Leave!Day
<1>3. Leave!Max(Leave!Valued \cup {d}) = d
  BY <1>2, LatestIs
<1>4. valuation'[d] = r
  BY DEF LeaveTypeOK
<1>5. (Leave!Valued)' # {} /\ Leave!Max((Leave!Valued)') = d
  BY <1>1, <1>3
<1>6. QED
  BY <1>4, <1>5 DEF Leave!LastTotal

LEMMA LeaveInitInv ==
  ASSUME Leave!DayAssumption, Leave!Init
  PROVE  LeaveInv
<1>1. LeaveTypeOK /\ UnbookedIsNothing /\ ValuedInOrder /\ Leave!PostingIsRecorded
  BY DEF Leave!Init, LeaveTypeOK, LeaveRow, UnbookedIsNothing, ValuedInOrder,
         Leave!PostingIsRecorded, Leave!NoRow, Leave!NoEntry
<1>2. Leave!Valued = {}
  BY DEF Leave!Init, Leave!Valued, Leave!NoRow
<1>3. /\ Movements(entry) \in [Leave!Day -> Int] /\ IsFiniteSet(Leave!Day)
      /\ \A d \in Leave!Day : Movements(entry)[d] = 0
  BY DaysFinite DEF Leave!Init, Movements, Leave!NoEntry
<1>4. SumFunction(Movements(entry)) = 0
  BY <1>3, SumZero
<1>5. QED
  BY <1>1, <1>2, <1>4, LeaveSum DEF LeaveInv, Leave!LedgerIsLastTotal, Leave!LastTotal

\* Nothing booked: the ledger and the total are what they were.
LEMMA LeaveStill ==
  ASSUME LeaveInv, valuation' = valuation, entry' = entry,
         orderly' => orderly
  PROVE  (Leave!LedgerIsLastTotal)'
<1>1. (Leave!LastTotal)' = Leave!LastTotal
  BY DEF Leave!LastTotal, Leave!Valued
<1>2. (Leave!Ledger)' = Leave!Ledger
  BY LeaveSum, LeaveSumAfter
<1>3. QED
  BY <1>1, <1>2 DEF LeaveInv, Leave!LedgerIsLastTotal

\* A request that goes on, or ends, with nothing booked.
LEMMA LeaveGoesOn ==
  ASSUME LeaveInv, NEW c \in Caller, NEW w \in LeaveCall \cup {Leave!Free},
         call[c] # Leave!Free, call' = [call EXCEPT ![c] = w],
         w # Leave!Free =>
           w.day = call[c].day /\ (w.at = "book" => w.previous = Leave!LastTotal),
         valuation' = valuation, entry' = entry, orderly' = orderly,
         liability' = liability
  PROVE  LeaveInv'
<1>1. /\ LeaveTypeOK' /\ call'[c] = w
      /\ \A b \in Caller : b # c => call'[b] = call[b]
  BY DEF LeaveInv, LeaveTypeOK
<1>2. (Leave!LastTotal)' = Leave!LastTotal /\ (Leave!Valued)' = Leave!Valued
  BY DEF Leave!LastTotal, Leave!Valued
<1>3. ValuedInOrder'
  <2> SUFFICES ASSUME orderly, NEW b \in Caller, call'[b] # Leave!Free
               PROVE  /\ \A a \in Caller \ {b} : call'[a] = Leave!Free
                      /\ \A d \in Leave!Valued : d < call'[b].day
                      /\ call'[b].at = "book" =>
                           call'[b].previous = Leave!LastTotal
    BY <1>2 DEF ValuedInOrder
  <2>1. \A a \in Caller \ {c} : call[a] = Leave!Free
    BY DEF LeaveInv, ValuedInOrder
  <2>2. b = c
    BY <1>1, <2>1
  <2>3. \A d \in Leave!Valued : d < call[c].day
    BY DEF LeaveInv, ValuedInOrder
  <2>4. QED
    BY <1>1, <2>1, <2>2, <2>3
<1>4. UnbookedIsNothing' /\ (Leave!PostingIsRecorded)'
  BY DEF LeaveInv, UnbookedIsNothing, Leave!PostingIsRecorded
<1>5. QED
  BY <1>1, <1>3, <1>4, LeaveStill DEF LeaveInv

\* A request ends with the row r and the entry amount m on its date.
LEMMA LeaveBooks ==
  ASSUME Leave!DayAssumption, LeaveInv, NEW c \in Caller, call[c].at = "book",
         call' = [call EXCEPT ![c] = Leave!Free],
         NEW r \in LeaveRow, r.valued, NEW x \in [booked: BOOLEAN, amount: Int],
         valuation' = [valuation EXCEPT ![call[c].day] = r],
         entry' = [entry EXCEPT ![call[c].day] = x],
         r.linked => x.booked /\ x.amount = r.movement,
         ~ x.booked => x.amount = 0,
         entry[call[c].day].booked => x = entry[call[c].day],
         r.total = call[c].measured,
         ~ entry[call[c].day].booked => x.amount = Leave!Movement(c),
         orderly' = orderly, liability' = liability
  PROVE  LeaveInv'
<1> DEFINE d == call[c].day
<1>1. call[c] \in LeaveCall /\ d \in Leave!Day /\ call[c] # Leave!Free
      /\ call[c].measured \in Int /\ call[c].previous \in Int
  BY DEF LeaveInv, LeaveTypeOK, LeaveCall, Leave!Free, Leave!Step
<1> HIDE DEF d
<1>2. /\ LeaveTypeOK' /\ call'[c] = Leave!Free
      /\ \A b \in Caller : b # c => call'[b] = call[b]
      /\ valuation'[d] = r /\ entry'[d] = x
      /\ \A e \in Leave!Day : e # d =>
           valuation'[e] = valuation[e] /\ entry'[e] = entry[e]
  BY <1>1 DEF LeaveInv, LeaveTypeOK, d
<1>3. UnbookedIsNothing' /\ (Leave!PostingIsRecorded)'
  BY <1>2 DEF LeaveInv, UnbookedIsNothing, Leave!PostingIsRecorded
<1>4. ASSUME orderly
      PROVE  \A b \in Caller : call'[b] = Leave!Free
  BY <1>1, <1>2, <1>4 DEF LeaveInv, ValuedInOrder
<1>5. ValuedInOrder'
  BY <1>4 DEF ValuedInOrder
<1>6. ASSUME orderly
      PROVE  (Leave!Ledger)' = (Leave!LastTotal)'
  <2>1. /\ \A e \in Leave!Valued : e < d
        /\ call[c].previous = Leave!LastTotal
        /\ Leave!Ledger = Leave!LastTotal
    BY <1>1, <1>6 DEF LeaveInv, ValuedInOrder, Leave!LedgerIsLastTotal, d
  <2>2. d \in Int /\ d \notin Leave!Valued
    BY <1>1, <2>1 DEF Leave!Day
  <2>3. ~ entry[d].booked /\ entry[d].amount = 0
    BY <1>1, <2>2 DEF LeaveInv, Leave!PostingIsRecorded, Leave!Valued, UnbookedIsNothing
  <2>4. x.amount = call[c].measured - call[c].previous
    BY <2>3 DEF Leave!Movement, d
  <2>5. (Leave!LastTotal)' = r.total
    <3>1. LeaveTypeOK /\ valuation' = [valuation EXCEPT ![d] = r]
      BY DEF LeaveInv, d
    <3>2. QED
      BY <1>1, <2>1, <3>1, LastTotalAfter
  <2>6. SumFunction(Movements(entry'))
          = SumFunction(Movements(entry)) - Movements(entry)[d] + Movements(entry')[d]
    <3> DEFINE D == Leave!Day
               f == Movements(entry)
               g == Movements(entry')
    <3>1. IsFiniteSet(D) /\ d \in D
      BY <1>1, DaysFinite
    <3>2. f \in [D -> Int] /\ g \in [D -> Int]
      BY <1>2 DEF LeaveInv, LeaveTypeOK, Movements
    <3>3. \A e \in D \ {d} : g[e] = f[e]
      BY <1>2 DEF Movements
    <3> HIDE DEF D, f, g
    <3>4. SumFunction(g) = SumFunction(f) - f[d] + g[d]
      BY <3>1, <3>2, <3>3, SumChange
    <3>5. QED
      BY <3>4 DEF f, g
  <2>7. Movements(entry)[d] = 0 /\ Movements(entry')[d] = x.amount
    BY <1>1, <1>2, <2>3 DEF Movements
  <2>8. SumFunction(Movements(entry)) = call[c].previous
    BY <2>1, LeaveSum
  <2>9. SumFunction(Movements(entry')) = call[c].measured
    BY <1>1, <2>4, <2>6, <2>7, <2>8
  <2>10. QED
    BY <2>5, <2>9, LeaveSumAfter
<1>7. QED
  BY <1>2, <1>3, <1>5, <1>6 DEF LeaveInv, Leave!LedgerIsLastTotal

LEMMA LeaveNextInv ==
  ASSUME Leave!DayAssumption, LeaveInv, [Leave!Next]_Leave!vars
  PROVE  LeaveInv'
<1>1. ASSUME Leave!Report
      PROVE  LeaveInv'
  <2>1. /\ liability' \in Int /\ call' = call /\ valuation' = valuation
        /\ entry' = entry /\ orderly' = orderly
    BY <1>1 DEF Leave!Report, Leave!DayAssumption
  <2>2. LeaveTypeOK' /\ UnbookedIsNothing' /\ (Leave!PostingIsRecorded)'
    BY <2>1 DEF LeaveInv, LeaveTypeOK, UnbookedIsNothing, Leave!PostingIsRecorded
  <2>3. ValuedInOrder'
    BY <2>1 DEF LeaveInv, ValuedInOrder, Leave!LastTotal, Leave!Valued
  <2>4. QED
    BY <2>1, <2>2, <2>3, LeaveStill DEF LeaveInv
<1>2. ASSUME NEW c \in Caller, NEW d \in Leave!Day, Leave!Ask(c, d)
      PROVE  LeaveInv'
  <2> DEFINE w == Leave!Step("measure", d, 0, 0)
  <2>1. /\ call[c] = Leave!Free /\ call' = [call EXCEPT ![c] = w]
        /\ liability' = liability /\ valuation' = valuation /\ entry' = entry
        /\ w \in LeaveCall /\ w.at = "measure" /\ w.day = d
    BY <1>2 DEF Leave!Ask, LeaveCall, Leave!Step
  <2>2. orderly' = (orderly /\ (\A b \in Caller : call[b] = Leave!Free)
                            /\ (\A v \in Leave!Valued : v < d))
    BY <1>2 DEF Leave!Ask
  <2>3. orderly' \in BOOLEAN
    BY <2>2
  <2> HIDE DEF w
  <2>4. /\ LeaveTypeOK' /\ call'[c] = w
        /\ \A b \in Caller : b # c => call'[b] = call[b]
    BY <2>1, <2>3 DEF LeaveInv, LeaveTypeOK
  <2>5. (Leave!Valued)' = Leave!Valued
    BY <2>1 DEF Leave!Valued
  <2>6. ValuedInOrder'
    BY <2>1, <2>2, <2>4, <2>5 DEF ValuedInOrder
  <2>7. UnbookedIsNothing' /\ (Leave!PostingIsRecorded)'
    BY <2>1 DEF LeaveInv, UnbookedIsNothing, Leave!PostingIsRecorded
  <2>8. QED
    BY <2>1, <2>2, <2>4, <2>6, <2>7, LeaveStill DEF LeaveInv
<1>3. ASSUME NEW c \in Caller, Leave!MeasureLeaveLiability(c)
      PROVE  LeaveInv'
  <2> DEFINE w == Leave!Step("previous", call[c].day, liability, 0)
  <2>1. /\ call[c].at = "measure" /\ call' = [call EXCEPT ![c] = w]
        /\ liability' = liability /\ valuation' = valuation /\ entry' = entry
        /\ orderly' = orderly
    BY <1>3 DEF Leave!MeasureLeaveLiability
  <2>2. call[c] \in LeaveCall /\ call[c] # Leave!Free
    BY <2>1 DEF LeaveInv, LeaveTypeOK, Leave!Free, Leave!Step
  <2>3. w \in LeaveCall /\ w.day = call[c].day /\ w.at # "book"
    BY <2>2 DEF LeaveInv, LeaveTypeOK, LeaveCall, Leave!Step
  <2> HIDE DEF w
  <2>4. QED
    BY <2>1, <2>2, <2>3, LeaveGoesOn
<1>4. ASSUME NEW c \in Caller, Leave!LastLeaveValuationTotal(c)
      PROVE  LeaveInv'
  <2> DEFINE w == Leave!Step("book", call[c].day, call[c].measured, Leave!LastTotal)
  <2>1. /\ call[c].at = "previous" /\ call' = [call EXCEPT ![c] = w]
        /\ liability' = liability /\ valuation' = valuation /\ entry' = entry
        /\ orderly' = orderly
    BY <1>4 DEF Leave!LastLeaveValuationTotal
  <2>2. call[c] \in LeaveCall /\ call[c] # Leave!Free
    BY <2>1 DEF LeaveInv, LeaveTypeOK, Leave!Free, Leave!Step
  <2>3. Leave!LastTotal \in Int
    BY LastTotalType DEF LeaveInv
  <2>4. w \in LeaveCall /\ w.day = call[c].day /\ w.previous = Leave!LastTotal
    BY <2>2, <2>3 DEF LeaveCall, Leave!Step
  <2> HIDE DEF w
  <2>5. QED
    BY <2>1, <2>2, <2>4, LeaveGoesOn
<1>5. ASSUME NEW c \in Caller, Leave!RecordUnmoved(c)
      PROVE  LeaveInv'
  <2> DEFINE d == call[c].day
             r == Leave!Row(call[c].measured, 0, FALSE)
  <2>1. /\ call[c].at = "book" /\ call' = [call EXCEPT ![c] = Leave!Free]
        /\ valuation' = [valuation EXCEPT ![d] = r]
        /\ entry' = entry /\ orderly' = orderly /\ liability' = liability
        /\ Leave!Movement(c) = 0
    BY <1>5 DEF Leave!RecordUnmoved, Leave!Done
  <2>2. call[c] \in LeaveCall
    BY <2>1 DEF LeaveInv, LeaveTypeOK, Leave!Free, Leave!Step
  <2>3. r \in LeaveRow /\ r.valued /\ ~ r.linked /\ r.total = call[c].measured
    BY <2>2 DEF LeaveRow, LeaveCall, Leave!Row
  <2>4. d \in Leave!Day
    BY <2>2 DEF LeaveCall
  <2>5. entry[d] \in [booked: BOOLEAN, amount: Int]
        /\ (~ entry[d].booked => entry[d].amount = 0)
        /\ entry' = [entry EXCEPT ![d] = entry[d]]
    BY <2>1, <2>4 DEF LeaveInv, LeaveTypeOK, UnbookedIsNothing
  <2> HIDE DEF r
  <2>6. QED
    BY <2>1, <2>3, <2>5, LeaveBooks
<1>6. ASSUME NEW c \in Caller, Leave!BookMovement(c)
      PROVE  LeaveInv'
  <2> DEFINE d == call[c].day
             m == Leave!Movement(c)
             r == Leave!Row(call[c].measured, m, TRUE)
             x == [booked |-> TRUE, amount |-> m]
  <2>1. /\ call[c].at = "book" /\ call' = [call EXCEPT ![c] = Leave!Free]
        /\ orderly' = orderly /\ liability' = liability
    BY <1>6 DEF Leave!BookMovement, Leave!Done
  <2>2. call[c] \in LeaveCall /\ call[c] # Leave!Free
    BY <2>1 DEF LeaveInv, LeaveTypeOK, Leave!Free, Leave!Step
  <2>3. CASE entry[d].booked
    <3>1. valuation' = valuation /\ entry' = entry
      BY <1>6, <2>3 DEF Leave!BookMovement
    <3>2. QED
      BY <2>1, <2>2, <3>1, LeaveGoesOn
  <2>4. CASE ~ entry[d].booked
    <3>1. /\ valuation' = [valuation EXCEPT ![d] = r]
          /\ entry' = [entry EXCEPT ![d] = x]
      BY <1>6, <2>4 DEF Leave!BookMovement
    <3>2. m \in Int
      BY <2>2 DEF LeaveCall, Leave!Movement
    <3>3. /\ r \in LeaveRow /\ r.valued /\ r.total = call[c].measured
          /\ r.movement = m /\ x.amount = m /\ x.booked
          /\ x \in [booked: BOOLEAN, amount: Int]
      <4> HIDE DEF m
      <4>1. QED
        BY <2>2, <3>2 DEF LeaveRow, LeaveCall, Leave!Row
    <3> HIDE DEF r, x
    <3>4. QED
      BY <2>1, <2>4, <3>1, <3>3, LeaveBooks
  <2>5. QED
    BY <2>3, <2>4
<1>7. ASSUME NEW c \in Caller, Leave!CallFails(c)
      PROVE  LeaveInv'
  <2>1. /\ call[c] # Leave!Free /\ call' = [call EXCEPT ![c] = Leave!Free]
        /\ liability' = liability /\ valuation' = valuation /\ entry' = entry
        /\ orderly' = orderly
    BY <1>7 DEF Leave!CallFails, Leave!Done
  <2>2. QED
    BY <2>1, LeaveGoesOn
<1>8. CASE UNCHANGED Leave!vars
  <2>1. /\ liability' = liability /\ call' = call /\ valuation' = valuation
        /\ entry' = entry /\ orderly' = orderly
    BY <1>8 DEF Leave!vars
  <2>2. LeaveTypeOK' /\ UnbookedIsNothing' /\ (Leave!PostingIsRecorded)'
    BY <2>1 DEF LeaveInv, LeaveTypeOK, UnbookedIsNothing, Leave!PostingIsRecorded
  <2>3. ValuedInOrder'
    BY <2>1 DEF LeaveInv, ValuedInOrder, Leave!LastTotal, Leave!Valued
  <2>4. QED
    BY <2>1, <2>2, <2>3, LeaveStill DEF LeaveInv
<1>9. QED
  BY <1>1, <1>2, <1>3, <1>4, <1>5, <1>6, <1>7, <1>8 DEF Leave!Next

\* Every movement of the leave liability has its record, whatever races; and
\* for requests made one after the other, the ledger carries the total last
\* measured (ValueLeaveLiability).
THEOREM LeaveIsSound ==
  ASSUME Leave!DayAssumption
  PROVE  Leave!Spec => []Leave!LeaveTies
<1>1. Leave!Init => LeaveInv
  BY LeaveInitInv
<1>2. LeaveInv /\ [Leave!Next]_Leave!vars => LeaveInv'
  BY LeaveNextInv
<1>3. LeaveInv => Leave!LeaveTies
  BY DEF LeaveInv, Leave!LeaveTies
<1>4. QED
  BY <1>1, <1>2, <1>3, PTL DEF Leave!Spec

-----------------------------------------------------------------------------
(* Numbered registers. *)

Register == {"wht", "fee", "intangible", "fx", "time"}
RegisterRow == [amount: Int, posts: BOOLEAN]
RegisterCall ==
  [at: {"idle", "number", "insert", "commit"}, ref: Registers!Ref, amount: Int,
   posts: BOOLEAN, drawn: BOOLEAN, shut: BOOLEAN, lost: BOOLEAN]

RegistersTypeOK ==
  /\ register \in Register
  /\ rows \in [Registers!Ref -> RegisterRow]
  /\ balance \in Int /\ closed \in BOOLEAN
  /\ call \in [Caller -> RegisterCall]

\* What a call that is under way has been admitted with: whatever it posts was
\* asked for in an open month, and only registers that number draw.
CallsAdmitted ==
  \A c \in Caller :
    /\ call[c].at = "idle" => ~ call[c].posts /\ ~ call[c].drawn
    /\ call[c].at # "idle" =>
         call[c].amount > 0 /\ call[c].posts \in Registers!Posting
    /\ call[c].posts /\ closed => call[c].shut
    /\ call[c].at = "number" \/ call[c].drawn => register # "intangible"

\* A number drawn and since taken was taken after it was drawn, or drawn as the
\* one a failed query leaves.
DrawsFree ==
  \A c \in Caller :
    /\ call[c].at = "insert" /\ call[c].drawn /\ ~ call[c].lost
    /\ call[c].ref \in Registers!Recorded
    => Registers!Malformed /\ ~ call[c].posts

\* An inserted row is of a free reference, and alone under it.
InsertsAlone ==
  \A c \in Caller : call[c].at = "commit" =>
    /\ call[c].ref \notin Registers!Recorded
    /\ \A d \in Caller : call[d].at = "commit" /\ call[d].ref = call[c].ref => d = c

RegistersInv ==
  /\ RegistersTypeOK /\ CallsAdmitted /\ DrawsFree /\ InsertsAlone
  /\ Registers!RegistersTie

PostedRows(rw, side) ==
  [r \in Registers!Ref |-> IF rw[r].posts THEN side * rw[r].amount ELSE 0]

LEMMA RegistersSum ==
  Registers!PostedWithRow <=>
    balance = SumFunction(PostedRows(rows, Registers!Side)) /\ unchecked = {}
BY DEF Registers!PostedWithRow, PostedRows, SumFunction, SumFunctionOnSet,
       FoldFunctionOnSet, MapThenFoldSet, Registers!SumFunction,
       Registers!SumFunctionOnSet, Registers!FoldFunctionOnSet,
       Registers!MapThenFoldSet

LEMMA RegistersSumAfter ==
  (Registers!PostedWithRow)' <=>
    balance' = SumFunction(PostedRows(rows', (Registers!Side)')) /\ unchecked' = {}
BY DEF Registers!PostedWithRow, PostedRows, SumFunction, SumFunctionOnSet,
       FoldFunctionOnSet, MapThenFoldSet, Registers!SumFunction,
       Registers!SumFunctionOnSet, Registers!FoldFunctionOnSet,
       Registers!MapThenFoldSet

LEMMA RefsFinite ==
  ASSUME Registers!AmountAssumption
  PROVE  IsFiniteSet(Registers!Ref)
<1>1. IsFiniteSet(0 .. MaxNumber)
  BY FS_Interval DEF Registers!AmountAssumption
<1> DEFINE K == {"padded", "short", "words", "other"}
<1>2. IsFiniteSet(K)
  <2>1. IsFiniteSet({"padded"}) /\ IsFiniteSet({"short"}) /\ IsFiniteSet({"words"})
        /\ IsFiniteSet({"other"})
    BY FS_Singleton
  <2>2. IsFiniteSet({"padded"} \cup {"short"}) /\ IsFiniteSet({"words"} \cup {"other"})
    BY <2>1, FS_Union
  <2>3. IsFiniteSet(({"padded"} \cup {"short"}) \cup ({"words"} \cup {"other"}))
    BY <2>2, FS_Union
  <2>4. K = ({"padded"} \cup {"short"}) \cup ({"words"} \cup {"other"})
    OBVIOUS
  <2>5. QED
    BY <2>3, <2>4
<1> HIDE DEF K
<1>3. IsFiniteSet(K \X (0 .. MaxNumber))
  BY <1>1, <1>2, FS_Product
<1>4. QED
  BY <1>3 DEF Registers!Ref, K

\* The number drawn is above every number recorded, unless the query failed.
LEMMA NextNumberIsFree ==
  ASSUME Registers!AmountAssumption, RegistersTypeOK
  PROVE  /\ Registers!NextNumber \in Nat
         /\ ~ Registers!Malformed =>
              << "padded", Registers!NextNumber >> \notin Registers!Recorded
<1> DEFINE S == {0} \cup { r[2] : r \in { q \in Registers!Recorded :
                                            q[1] \in Registers!Digits } }
<1>1. S \subseteq Nat /\ 0 \in S /\ \A n \in S : n <= MaxNumber
  BY DEF Registers!Recorded, Registers!Ref, Registers!AmountAssumption
<1>2. \A n : << "padded", n >> \in Registers!Recorded => n \in S
  BY DEF Registers!Digits
<1>3. Registers!NextNumber = 1 + (IF Registers!Malformed THEN 0 ELSE Registers!Max(S))
  BY DEF Registers!NextNumber
<1> HIDE DEF S
<1>4. PICK m \in S : \A n \in S : n <= m
  <2>1. MaxNumber \in Nat /\ S # {}
    BY <1>1 DEF Registers!AmountAssumption
  <2>2. QED
    BY <1>1, <2>1, GreatestExists
<1>5. Registers!Max(S) = m
  <2>1. \A x \in S : x >= m => x = m
    BY <1>1, <1>4
  <2>2. \A y \in S : m >= y
    BY <1>1, <1>4
  <2>3. QED
    BY <2>1, <2>2, <1>4 DEF Registers!Max
<1>6. m \in Nat /\ 1 + m \notin S
  BY <1>1, <1>4
<1>7. QED
  BY <1>2, <1>3, <1>5, <1>6

LEMMA RegisterIdle ==
  ASSUME Registers!AmountAssumption
  PROVE  /\ Registers!Idle \in RegisterCall
         /\ Registers!Idle.at = "idle" /\ Registers!Idle.ref \in Registers!Ref
         /\ ~ Registers!Idle.posts /\ ~ Registers!Idle.drawn
<1>1. << "other", 0 >> \in Registers!Ref
  BY DEF Registers!Ref, Registers!AmountAssumption
<1>2. QED
  BY <1>1 DEF Registers!Idle, Registers!Asked, RegisterCall

LEMMA RegistersInitInv ==
  ASSUME Registers!AmountAssumption, Registers!Init
  PROVE  RegistersInv
<1>1. RegistersTypeOK
  <2>1. Registers!Unused \in RegisterRow
    BY DEF Registers!Unused, RegisterRow
  <2>2. rows \in [Registers!Ref -> RegisterRow]
    BY <2>1 DEF Registers!Init
  <2>3. call \in [Caller -> RegisterCall]
    BY RegisterIdle DEF Registers!Init
  <2>4. register \in Register /\ balance \in Int /\ closed \in BOOLEAN
    <3>1. register \in {"wht", "fee", "intangible", "fx", "time"} /\ balance = 0
          /\ closed = FALSE
      BY DEF Registers!Init
    <3>2. register \in Register
      BY <3>1 DEF Register
    <3>3. balance \in Int
      BY <3>1
    <3>4. closed \in BOOLEAN
      BY <3>1
    <3>5. QED
      BY <3>2, <3>3, <3>4
  <2>5. QED
    BY <2>2, <2>3, <2>4 DEF RegistersTypeOK
<1>2. \A c \in Caller : call[c] = Registers!Idle
  BY DEF Registers!Init
<1>3. CallsAdmitted /\ DrawsFree /\ InsertsAlone
  BY <1>2, RegisterIdle DEF CallsAdmitted, DrawsFree, InsertsAlone, Registers!Init
<1> DEFINE f == PostedRows(rows, Registers!Side)
<1>4. f \in [Registers!Ref -> Int] /\ \A r \in Registers!Ref : f[r] = 0
  BY DEF Registers!Init, PostedRows, Registers!Unused
<1> HIDE DEF f
<1>5. SumFunction(f) = 0
  BY <1>4, RefsFinite, SumZero
<1>6. balance = 0 /\ unchecked = {} /\ taken = {}
  BY DEF Registers!Init
<1>7. Registers!PostedWithRow
  BY <1>5, <1>6, RegistersSum DEF f
<1>8. QED
  BY <1>1, <1>3, <1>6, <1>7 DEF RegistersInv, Registers!RegistersTie, Registers!NumbersAreFree

\* One call goes on to w, or ends; nothing is committed.
LEMMA RegisterGoesOn ==
  ASSUME Registers!AmountAssumption, RegistersInv,
         NEW c \in Caller, NEW w \in RegisterCall,
         call' = [call EXCEPT ![c] = w],
         w.at = "idle" => ~ w.posts /\ ~ w.drawn,
         w.at # "idle" => w.amount > 0 /\ w.posts \in Registers!Posting,
         w.posts /\ closed => w.shut,
         w.at = "number" \/ w.drawn => register # "intangible",
         w.at = "insert" /\ w.drawn /\ ~ w.lost /\ w.ref \in Registers!Recorded
           => Registers!Malformed /\ ~ w.posts,
         w.at = "commit" => /\ w.ref \notin Registers!Recorded
                            /\ \A d \in Caller \ {c} :
                                 call[d].at = "commit" => call[d].ref # w.ref,
         register' = register, rows' = rows, balance' = balance,
         closed' = closed, unchecked' = unchecked,
         taken' # {} => Registers!Malformed /\ register \in {"fx", "time"}
  PROVE  RegistersInv'
<1>1. /\ call \in [Caller -> RegisterCall] /\ call'[c] = w
      /\ \A d \in Caller : d # c => call'[d] = call[d]
  BY DEF RegistersInv, RegistersTypeOK
<1>2. RegistersTypeOK'
  BY <1>1 DEF RegistersInv, RegistersTypeOK
<1>3. /\ (Registers!Recorded)' = Registers!Recorded
      /\ (Registers!Malformed)' = Registers!Malformed
      /\ (Registers!Posting)' = Registers!Posting
      /\ (Registers!Side)' = Registers!Side
  BY DEF Registers!Recorded, Registers!Malformed, Registers!Posting, Registers!Side
<1>4. CallsAdmitted'
  <2> SUFFICES ASSUME NEW d \in Caller
               PROVE  /\ call'[d].at = "idle" => ~ call'[d].posts /\ ~ call'[d].drawn
                      /\ call'[d].at # "idle" => call'[d].amount > 0
                           /\ call'[d].posts \in Registers!Posting
                      /\ call'[d].posts /\ closed => call'[d].shut
                      /\ call'[d].at = "number" \/ call'[d].drawn
                           => register # "intangible"
    BY <1>3 DEF CallsAdmitted
  <2>1. CASE d = c
    BY <1>1, <2>1
  <2>2. CASE d # c
    BY <1>1, <2>2 DEF RegistersInv, CallsAdmitted
  <2>3. QED
    BY <2>1, <2>2
<1>5. DrawsFree'
  BY <1>1, <1>3 DEF RegistersInv, DrawsFree
<1>6. InsertsAlone'
  BY <1>1, <1>3 DEF RegistersInv, InsertsAlone
<1>7. Registers!PostedWithRow
  BY DEF RegistersInv, Registers!RegistersTie
<1>8. (Registers!PostedWithRow)'
  BY <1>3, <1>7, RegistersSum, RegistersSumAfter
<1>9. (Registers!NumbersAreFree)'
  BY <1>3 DEF Registers!NumbersAreFree
<1>10. QED
  BY <1>2, <1>4, <1>5, <1>6, <1>8, <1>9 DEF RegistersInv, Registers!RegistersTie

\* A month closed or reopened while calls are under way.
LEMMA RegisterShuts ==
  ASSUME NEW f \in RegisterCall, NEW b \in BOOLEAN
  PROVE  LET g == [f EXCEPT !.shut = b] IN
         /\ g \in RegisterCall /\ g.shut = b /\ g.at = f.at /\ g.ref = f.ref
         /\ g.amount = f.amount /\ g.posts = f.posts /\ g.drawn = f.drawn
         /\ g.lost = f.lost
BY DEF RegisterCall

LEMMA RegisterLoses ==
  ASSUME NEW f \in RegisterCall
  PROVE  LET g == [f EXCEPT !.lost = TRUE] IN
         /\ g \in RegisterCall /\ g.shut = f.shut /\ g.at = f.at /\ g.ref = f.ref
         /\ g.amount = f.amount /\ g.posts = f.posts /\ g.drawn = f.drawn
         /\ g.lost
BY DEF RegisterCall

LEMMA RegisterInserts ==
  ASSUME NEW f \in RegisterCall
  PROVE  LET g == [f EXCEPT !.at = "commit"] IN
         /\ g \in RegisterCall /\ g.shut = f.shut /\ g.at = "commit" /\ g.ref = f.ref
         /\ g.amount = f.amount /\ g.posts = f.posts /\ g.drawn = f.drawn
         /\ g.lost = f.lost
BY DEF RegisterCall

LEMMA RegistersClose ==
  ASSUME Registers!AmountAssumption, RegistersInv, Registers!CloseOrReopen
  PROVE  RegistersInv'
<1>1. /\ closed' = ~ closed /\ closed' \in BOOLEAN /\ closed \in BOOLEAN
      /\ register' = register /\ rows' = rows /\ balance' = balance
      /\ unchecked' = unchecked /\ taken' = taken
      /\ call \in [Caller -> RegisterCall]
      /\ call' = [c \in Caller |-> IF call[c].at = "idle" THEN Registers!Idle
                                   ELSE [call[c] EXCEPT !.shut = closed']]
  BY DEF RegistersInv, RegistersTypeOK, Registers!CloseOrReopen
<1>2. ASSUME NEW c \in Caller
      PROVE  /\ call'[c] \in RegisterCall
             /\ call[c].at = "idle" => call'[c] = Registers!Idle
             /\ call[c].at # "idle" =>
                  /\ call'[c].shut = closed' /\ call'[c].at = call[c].at
                  /\ call'[c].ref = call[c].ref /\ call'[c].amount = call[c].amount
                  /\ call'[c].posts = call[c].posts /\ call'[c].drawn = call[c].drawn
                  /\ call'[c].lost = call[c].lost
  <2>1. CASE call[c].at = "idle"
    BY <1>1, <2>1, RegisterIdle
  <2>2. CASE call[c].at # "idle"
    <3>1. call'[c] = [call[c] EXCEPT !.shut = closed'] /\ call[c] \in RegisterCall
      BY <1>1, <2>2
    <3>2. QED
      BY <1>1, <2>2, <3>1, RegisterShuts
  <2>3. QED
    BY <2>1, <2>2
<1>3. RegistersTypeOK'
  <2>1. call' = [c \in Caller |-> call'[c]]
    BY <1>1
  <2>2. call' \in [Caller -> RegisterCall]
    BY <1>2, <2>1
  <2>3. QED
    BY <1>1, <2>2 DEF RegistersInv, RegistersTypeOK
<1>4. /\ (Registers!Recorded)' = Registers!Recorded
      /\ (Registers!Malformed)' = Registers!Malformed
      /\ (Registers!Posting)' = Registers!Posting
      /\ (Registers!Side)' = Registers!Side
  BY <1>1 DEF Registers!Recorded, Registers!Malformed, Registers!Posting, Registers!Side
<1>5. CallsAdmitted'
  <2> SUFFICES ASSUME NEW d \in Caller
               PROVE  /\ call'[d].at = "idle" => ~ call'[d].posts /\ ~ call'[d].drawn
                      /\ call'[d].at # "idle" => call'[d].amount > 0
                           /\ call'[d].posts \in Registers!Posting
                      /\ call'[d].posts /\ closed' => call'[d].shut
                      /\ call'[d].at = "number" \/ call'[d].drawn
                           => register # "intangible"
    BY <1>1, <1>4 DEF CallsAdmitted
  <2>1. CASE call[d].at = "idle"
    BY <1>2, <2>1, RegisterIdle
  <2>2. CASE call[d].at # "idle"
    <3>1. /\ call[d].amount > 0 /\ call[d].posts \in Registers!Posting
          /\ call[d].at = "number" \/ call[d].drawn => register # "intangible"
      BY <2>2 DEF RegistersInv, CallsAdmitted
    <3>2. /\ call'[d].shut = closed' /\ call'[d].at = call[d].at
          /\ call'[d].amount = call[d].amount
          /\ call'[d].posts = call[d].posts /\ call'[d].drawn = call[d].drawn
      BY <1>2, <2>2
    <3>3. call'[d].posts /\ closed' => call'[d].shut
      BY <3>2
    <3>4. QED
      BY <2>2, <3>1, <3>2, <3>3
  <2>3. QED
    BY <2>1, <2>2
<1>6. \A c \in Caller : call'[c].at # "idle" => call[c].at # "idle"
  BY <1>2, RegisterIdle
<1>7. DrawsFree'
  <2> SUFFICES ASSUME NEW c \in Caller, call'[c].at = "insert", call'[c].drawn,
                      ~ call'[c].lost, call'[c].ref \in Registers!Recorded
               PROVE  Registers!Malformed /\ ~ call'[c].posts
    BY <1>4 DEF DrawsFree
  <2>1. /\ call'[c].posts = call[c].posts /\ call'[c].drawn = call[c].drawn
        /\ call'[c].lost = call[c].lost /\ call'[c].at = call[c].at
        /\ call'[c].ref = call[c].ref
    BY <1>2, <1>6
  <2>2. QED
    BY <2>1 DEF RegistersInv, DrawsFree
<1>8. InsertsAlone'
  <2> SUFFICES ASSUME NEW c \in Caller, call'[c].at = "commit"
               PROVE  /\ call'[c].ref \notin Registers!Recorded
                      /\ \A d \in Caller :
                           call'[d].at = "commit" /\ call'[d].ref = call'[c].ref => d = c
    BY <1>4 DEF InsertsAlone
  <2>1. \A d \in Caller : call'[d].at = "commit" =>
          call[d].at = "commit" /\ call'[d].ref = call[d].ref
    BY <1>2, <1>6
  <2>2. QED
    BY <2>1 DEF RegistersInv, InsertsAlone
<1>9. Registers!PostedWithRow /\ Registers!NumbersAreFree
  BY DEF RegistersInv, Registers!RegistersTie
<1>10. (Registers!PostedWithRow)'
  BY <1>1, <1>4, <1>9, RegistersSum, RegistersSumAfter
<1>11. (Registers!NumbersAreFree)'
  BY <1>1, <1>4, <1>9 DEF Registers!NumbersAreFree
<1>12. QED
  BY <1>3, <1>5, <1>7, <1>8, <1>10, <1>11 DEF RegistersInv, Registers!RegistersTie

\* Row and entry are committed together, under a reference that was free.
LEMMA RegistersCommit ==
  ASSUME Registers!AmountAssumption, RegistersInv, NEW c \in Caller,
         Registers!Commit(c)
  PROVE  RegistersInv'
<1> DEFINE ref == call[c].ref
           r == [amount |-> call[c].amount, posts |-> call[c].posts]
<1>1. /\ rows' = [rows EXCEPT ![ref] = r]
      /\ register' = register /\ closed' = closed /\ taken' = taken
      /\ call' = [d \in Caller |->
                    IF d = c THEN Registers!Idle
                    ELSE IF call[d].at = "insert" /\ call[d].ref = ref
                    THEN [call[d] EXCEPT !.lost = TRUE] ELSE call[d]]
      /\ balance' = balance + (IF call[c].posts
                               THEN Registers!Side * call[c].amount ELSE 0)
      /\ unchecked' = IF call[c].posts /\ closed /\ ~call[c].shut
                      THEN unchecked \cup {ref} ELSE unchecked
  BY DEF Registers!Commit
<1>2. \/ call[c].at = "commit"
      \/ call[c].at = "insert" /\ ~call[c].posts /\ ~Registers!Held(c)
           /\ ~Registers!Refuses(c)
  BY DEF Registers!Commit
<1>3. /\ call \in [Caller -> RegisterCall] /\ call[c] \in RegisterCall
      /\ ref \in Registers!Ref /\ call[c].amount \in Int /\ call[c].amount > 0
      /\ r \in RegisterRow /\ r # Registers!Unused
  <2>1. call \in [Caller -> RegisterCall] /\ call[c] \in RegisterCall
    BY DEF RegistersInv, RegistersTypeOK
  <2>2. ref \in Registers!Ref /\ call[c].amount \in Int /\ call[c].posts \in BOOLEAN
    BY <2>1 DEF RegisterCall
  <2>3. call[c].amount > 0
    BY <1>2 DEF RegistersInv, CallsAdmitted
  <2>4. r.amount # Registers!Unused.amount
    BY <2>2, <2>3 DEF Registers!Unused
  <2>5. QED
    BY <2>1, <2>2, <2>3, <2>4 DEF RegisterRow
<1>4. /\ ref \notin Registers!Recorded
      /\ \A d \in Caller \ {c} : call[d].at = "commit" => call[d].ref # ref
  BY <1>2 DEF RegistersInv, InsertsAlone, Registers!Refuses, Registers!Held
<1>5. r.posts = call[c].posts /\ r.amount = call[c].amount
  OBVIOUS
<1> HIDE DEF ref, r
<1>6. /\ rows \in [Registers!Ref -> RegisterRow] /\ rows[ref] = Registers!Unused
      /\ rows'[ref] = r
      /\ \A q \in Registers!Ref : q # ref => rows'[q] = rows[q]
  BY <1>1, <1>3, <1>4 DEF RegistersInv, RegistersTypeOK, Registers!Recorded
<1>7. (Registers!Recorded)' = Registers!Recorded \cup {ref}
  <2>1. \A q : q \in (Registers!Recorded)' <=> q \in Registers!Recorded \/ q = ref
    BY <1>3, <1>6 DEF Registers!Recorded
  <2>2. QED
    BY <2>1
<1>8. /\ Registers!Malformed => (Registers!Malformed)'
      /\ (Registers!Posting)' = Registers!Posting
      /\ (Registers!Side)' = Registers!Side /\ Registers!Side \in Int
  BY <1>1, <1>7 DEF Registers!Malformed, Registers!Posting, Registers!Side
<1>9. ASSUME NEW d \in Caller, d # c
      PROVE  /\ call'[d] \in RegisterCall
             /\ call'[d].shut = call[d].shut /\ call'[d].at = call[d].at
             /\ call'[d].ref = call[d].ref /\ call'[d].amount = call[d].amount
             /\ call'[d].posts = call[d].posts /\ call'[d].drawn = call[d].drawn
             /\ ~ call'[d].lost => ~ call[d].lost
             /\ call[d].at = "insert" /\ call[d].ref = ref => call'[d].lost
  <2>1. CASE call[d].at = "insert" /\ call[d].ref = ref
    <3>1. call'[d] = [call[d] EXCEPT !.lost = TRUE] /\ call[d] \in RegisterCall
      BY <1>1, <1>3, <1>9, <2>1
    <3>2. QED
      BY <3>1, RegisterLoses
  <2>2. CASE ~ (call[d].at = "insert" /\ call[d].ref = ref)
    <3>1. call'[d] = call[d] /\ call[d] \in RegisterCall
      BY <1>1, <1>3, <1>9, <2>2
    <3>2. QED
      BY <2>2, <3>1
  <2>3. QED
    BY <2>1, <2>2
<1>10. call'[c] = Registers!Idle
  BY <1>1
<1>11. RegistersTypeOK'
  <2>1. \A d \in Caller : call'[d] \in RegisterCall
    BY <1>9, <1>10, RegisterIdle
  <2>2. call' = [d \in Caller |-> call'[d]]
    BY <1>1
  <2>3. call' \in [Caller -> RegisterCall]
    BY <2>1, <2>2
  <2>4. Registers!Side * call[c].amount \in Int /\ balance \in Int
    BY <1>3, <1>8 DEF RegistersInv, RegistersTypeOK
  <2>5. balance' \in Int
    BY <1>1, <2>4
  <2>6. rows' \in [Registers!Ref -> RegisterRow]
    BY <1>1, <1>3, <1>6
  <2>7. QED
    BY <1>1, <2>3, <2>5, <2>6 DEF RegistersInv, RegistersTypeOK
<1>12. CallsAdmitted'
  <2> SUFFICES ASSUME NEW d \in Caller
               PROVE  /\ call'[d].at = "idle" => ~ call'[d].posts /\ ~ call'[d].drawn
                      /\ call'[d].at # "idle" => call'[d].amount > 0
                           /\ call'[d].posts \in Registers!Posting
                      /\ call'[d].posts /\ closed => call'[d].shut
                      /\ call'[d].at = "number" \/ call'[d].drawn
                           => register # "intangible"
    BY <1>1, <1>8 DEF CallsAdmitted
  <2>1. CASE d = c
    BY <1>10, <2>1, RegisterIdle
  <2>2. CASE d # c
    <3>1. /\ call[d].at = "idle" => ~ call[d].posts /\ ~ call[d].drawn
          /\ call[d].at # "idle" => call[d].amount > 0
               /\ call[d].posts \in Registers!Posting
          /\ call[d].posts /\ closed => call[d].shut
          /\ call[d].at = "number" \/ call[d].drawn => register # "intangible"
      BY DEF RegistersInv, CallsAdmitted
    <3>2. QED
      BY <1>9, <2>2, <3>1
  <2>3. QED
    BY <2>1, <2>2
<1>13. DrawsFree'
  <2> SUFFICES ASSUME NEW d \in Caller, call'[d].at = "insert", call'[d].drawn,
                      ~ call'[d].lost, call'[d].ref \in (Registers!Recorded)'
               PROVE  (Registers!Malformed)' /\ ~ call'[d].posts
    BY DEF DrawsFree
  <2>1. d # c
    BY <1>10, RegisterIdle
  <2>2. /\ call[d].at = "insert" /\ call[d].drawn /\ ~ call[d].lost
        /\ call'[d].ref = call[d].ref /\ call'[d].posts = call[d].posts
        /\ call[d].ref # ref
    BY <1>9, <2>1
  <2>3. call[d].ref \in Registers!Recorded
    BY <1>7, <2>2
  <2>4. Registers!Malformed /\ ~ call[d].posts
    BY <2>2, <2>3 DEF RegistersInv, DrawsFree
  <2>5. QED
    BY <1>8, <2>2, <2>4
<1>14. InsertsAlone'
  <2> SUFFICES ASSUME NEW d \in Caller, call'[d].at = "commit"
               PROVE  /\ call'[d].ref \notin (Registers!Recorded)'
                      /\ \A e \in Caller :
                           call'[e].at = "commit" /\ call'[e].ref = call'[d].ref => e = d
    BY DEF InsertsAlone
  <2>1. \A e \in Caller : call'[e].at = "commit" =>
          e # c /\ call[e].at = "commit" /\ call'[e].ref = call[e].ref
    BY <1>9, <1>10, RegisterIdle
  <2>2. QED
    BY <1>4, <1>7, <2>1 DEF RegistersInv, InsertsAlone
<1>15. Registers!PostedWithRow /\ Registers!NumbersAreFree
  BY DEF RegistersInv, Registers!RegistersTie
<1>16. unchecked' = {}
  <2>1. call[c].posts /\ closed => call[c].shut
    BY DEF RegistersInv, CallsAdmitted
  <2>2. QED
    BY <1>1, <1>15, <2>1, RegistersSum
<1>17. balance' = SumFunction(PostedRows(rows', Registers!Side))
  <2> DEFINE D == Registers!Ref
             f == PostedRows(rows, Registers!Side)
             g == PostedRows(rows', Registers!Side)
             s == Registers!Side
             a == call[c].amount
  <2>1. s * a \in Int
    BY <1>3, <1>8
  <2>2. \A q \in D : rows[q].amount \in Int /\ rows'[q].amount \in Int
    BY <1>3, <1>6 DEF RegisterRow
  <2>3. f \in [D -> Int] /\ g \in [D -> Int]
    BY <1>8, <2>2 DEF PostedRows
  <2>4. \A q \in D \ {ref} : g[q] = f[q]
    BY <1>6 DEF PostedRows
  <2>5. f[ref] = 0 /\ g[ref] = IF call[c].posts THEN s * a ELSE 0
    BY <1>3, <1>5, <1>6 DEF PostedRows, Registers!Unused
  <2>6. IsFiniteSet(D) /\ ref \in D
    BY <1>3, RefsFinite
  <2>7. balance = SumFunction(f)
    BY <1>15, RegistersSum
  <2>8. balance' = balance + (IF call[c].posts THEN s * a ELSE 0)
    BY <1>1
  <2> HIDE DEF D, f, g, s, a
  <2>9. SumFunction(g) = SumFunction(f) - f[ref] + g[ref]
    BY <2>3, <2>4, <2>6, SumChange
  <2>10. SumFunction(f) \in Int
    BY <2>3, <2>6, SumType
  <2>11. balance' = SumFunction(g)
    BY <2>1, <2>5, <2>7, <2>8, <2>9, <2>10
  <2>12. QED
    BY <2>11 DEF g
<1>18. (Registers!PostedWithRow)'
  BY <1>8, <1>16, <1>17, RegistersSumAfter
<1>19. (Registers!NumbersAreFree)'
  BY <1>1, <1>8, <1>15 DEF Registers!NumbersAreFree
<1>20. QED
  BY <1>11, <1>12, <1>13, <1>14, <1>18, <1>19 DEF RegistersInv, Registers!RegistersTie

LEMMA RegistersNextInv ==
  ASSUME Registers!AmountAssumption, RegistersInv, [Registers!Next]_Registers!vars
  PROVE  RegistersInv'
<1> DEFINE Still == /\ register' = register /\ rows' = rows /\ balance' = balance
                    /\ closed' = closed /\ unchecked' = unchecked /\ taken' = taken
<1>1. taken # {} => Registers!Malformed /\ register \in {"fx", "time"}
  BY DEF RegistersInv, Registers!RegistersTie, Registers!NumbersAreFree
<1>2. ASSUME NEW c \in Caller, NEW amount \in RegisterAmount, NEW posts \in BOOLEAN,
             Registers!AskWithout(c, amount, posts)
      PROVE  RegistersInv'
  <2> DEFINE w == Registers!Asked("number", Registers!Idle.ref, amount, posts)
  <2>1. Still /\ call' = [call EXCEPT ![c] = w] /\ register # "intangible"
        /\ posts \in Registers!Posting /\ (posts => ~ closed)
    BY <1>2 DEF Registers!AskWithout, Registers!Admitted
  <2>2. amount \in Int /\ amount > 0
    BY DEF Registers!AmountAssumption
  <2>3. /\ w \in RegisterCall /\ w.at = "number" /\ ~ w.drawn /\ w.posts = posts
        /\ w.amount = amount
    BY <2>2, RegisterIdle DEF Registers!Asked, RegisterCall
  <2> HIDE DEF w
  <2>4. QED
    BY <1>1, <2>1, <2>2, <2>3, RegisterGoesOn
<1>3. ASSUME NEW c \in Caller, NEW amount \in RegisterAmount, NEW posts \in BOOLEAN,
             NEW ref \in Typed, Registers!AskWith(c, ref, amount, posts)
      PROVE  RegistersInv'
  <2> DEFINE w == Registers!Asked("insert", ref, amount, posts)
  <2>1. Still /\ call' = [call EXCEPT ![c] = w]
        /\ posts \in Registers!Posting /\ (posts => ~ closed)
    BY <1>3 DEF Registers!AskWith, Registers!Admitted
  <2>2. amount \in Int /\ amount > 0 /\ ref \in Registers!Ref
    BY DEF Registers!AmountAssumption
  <2>3. /\ w \in RegisterCall /\ w.at = "insert" /\ ~ w.drawn /\ w.posts = posts
        /\ w.amount = amount
    BY <2>2 DEF Registers!Asked, RegisterCall
  <2> HIDE DEF w
  <2>4. QED
    BY <1>1, <2>1, <2>2, <2>3, RegisterGoesOn
<1>4. ASSUME NEW c \in Caller, Registers!Draw(c)
      PROVE  RegistersInv'
  <2> DEFINE n == Registers!NextNumber
             w == [at |-> "insert", ref |-> << "padded", n >>,
                   amount |-> call[c].amount, posts |-> call[c].posts,
                   drawn |-> TRUE, shut |-> call[c].shut, lost |-> call[c].lost]
  <2>1. Still /\ call' = [call EXCEPT ![c] = w] /\ call[c].at = "number"
        /\ n <= MaxNumber /\ ~ (call[c].posts /\ Registers!Malformed)
    BY <1>4 DEF Registers!Draw
  <2>2. n \in Nat /\ (~ Registers!Malformed => << "padded", n >> \notin Registers!Recorded)
    BY NextNumberIsFree DEF RegistersInv
  <2>3. << "padded", n >> \in Registers!Ref
    BY <2>1, <2>2 DEF Registers!Ref, Registers!AmountAssumption
  <2> HIDE DEF n
  <2>4. call[c] \in RegisterCall
    BY DEF RegistersInv, RegistersTypeOK
  <2>5. /\ w \in RegisterCall /\ w.at = "insert" /\ w.ref = << "padded", n >>
        /\ w.amount = call[c].amount
    BY <2>3, <2>4 DEF RegisterCall
  <2>6. w.posts = call[c].posts /\ w.shut = call[c].shut
    OBVIOUS
  <2> HIDE DEF w
  <2>7. /\ call[c].amount > 0 /\ call[c].posts \in Registers!Posting
        /\ call[c].posts /\ closed => call[c].shut
        /\ register # "intangible"
    BY <2>1 DEF RegistersInv, CallsAdmitted
  <2>8. w.posts /\ closed => w.shut
    BY <2>6, <2>7
  <2>9. w.ref \in Registers!Recorded => Registers!Malformed /\ ~ w.posts
    BY <2>1, <2>2, <2>5, <2>6
  <2>10. w.posts \in Registers!Posting /\ w.amount > 0
    BY <2>5, <2>6, <2>7
  <2>11. QED
    BY <1>1, <2>1, <2>5, <2>7, <2>8, <2>9, <2>10, RegisterGoesOn
<1>5. ASSUME NEW c \in Caller, Registers!Fail(c)
      PROVE  RegistersInv'
  <2>1. Still /\ call' = [call EXCEPT ![c] = Registers!Idle]
    BY <1>5 DEF Registers!Fail
  <2>2. QED
    BY <1>1, <2>1, RegisterIdle, RegisterGoesOn
<1>6. ASSUME NEW c \in Caller, Registers!Insert(c)
      PROVE  RegistersInv'
  <2> DEFINE w == [call[c] EXCEPT !.at = "commit"]
  <2>1. Still /\ call' = [call EXCEPT ![c] = w] /\ call[c].at = "insert"
        /\ call[c].posts /\ ~ Registers!Held(c) /\ ~ Registers!Refuses(c)
    BY <1>6 DEF Registers!Insert, RegistersInv, RegistersTypeOK
  <2>2. call[c] \in RegisterCall
    BY DEF RegistersInv, RegistersTypeOK
  <2>3. /\ w \in RegisterCall /\ w.shut = call[c].shut /\ w.at = "commit"
        /\ w.ref = call[c].ref /\ w.amount = call[c].amount
        /\ w.posts = call[c].posts /\ w.drawn = call[c].drawn
    BY <2>2, RegisterInserts
  <2> HIDE DEF w
  <2>4. /\ call[c].amount > 0 /\ call[c].posts \in Registers!Posting
        /\ call[c].posts /\ closed => call[c].shut
        /\ call[c].drawn => register # "intangible"
    BY <2>1 DEF RegistersInv, CallsAdmitted
  <2>5. w.posts \in Registers!Posting /\ w.amount > 0
    BY <2>3, <2>4
  <2>6. w.posts /\ closed => w.shut
    BY <2>3, <2>4
  <2>7. w.drawn => register # "intangible"
    BY <2>3, <2>4
  <2>8. /\ w.ref \notin Registers!Recorded
        /\ \A d \in Caller \ {c} : call[d].at = "commit" => call[d].ref # w.ref
    BY <2>1, <2>3 DEF Registers!Held, Registers!Refuses
  <2>9. QED
    BY <1>1, <2>1, <2>3, <2>5, <2>6, <2>7, <2>8, RegisterGoesOn
<1>7. ASSUME NEW c \in Caller, Registers!Conflict(c)
      PROVE  RegistersInv'
  <2>1. /\ register' = register /\ rows' = rows /\ balance' = balance
        /\ closed' = closed /\ unchecked' = unchecked
        /\ call' = [call EXCEPT ![c] = Registers!Idle]
        /\ call[c].at = "insert" /\ call[c].ref \in Registers!Recorded
        /\ taken' = IF call[c].drawn /\ ~call[c].lost
                    THEN taken \cup {call[c].ref} ELSE taken
    BY <1>7 DEF Registers!Conflict, Registers!Refuses
  <2>2. ASSUME call[c].drawn, ~ call[c].lost
        PROVE  Registers!Malformed /\ register \in {"fx", "time"}
    <3>1. Registers!Malformed /\ ~ call[c].posts
      BY <2>1, <2>2 DEF RegistersInv, DrawsFree
    <3>2. call[c].posts \in Registers!Posting /\ register # "intangible"
      BY <2>1, <2>2 DEF RegistersInv, CallsAdmitted
    <3>3. register \notin {"wht", "fee"}
      <4>1. CASE register \in {"wht", "fee"}
        <5>1. Registers!Posting = {TRUE}
          BY <4>1 DEF Registers!Posting
        <5>2. call[c].posts = TRUE
          BY <3>2, <5>1
        <5>3. QED
          BY <3>1, <5>2
      <4>2. QED
        BY <4>1
    <3>4. QED
      BY <3>1, <3>2, <3>3 DEF RegistersInv, RegistersTypeOK, Register
  <2>3. taken' # {} => Registers!Malformed /\ register \in {"fx", "time"}
    BY <1>1, <2>1, <2>2
  <2>4. QED
    BY <2>1, <2>3, RegisterIdle, RegisterGoesOn
<1>8. CASE UNCHANGED Registers!vars
  <2>1. Still /\ call' = call
    BY <1>8 DEF Registers!vars
  <2>2. /\ (Registers!Recorded)' = Registers!Recorded
        /\ (Registers!Malformed)' = Registers!Malformed
        /\ (Registers!Posting)' = Registers!Posting
        /\ (Registers!Side)' = Registers!Side
    BY <2>1 DEF Registers!Recorded, Registers!Malformed, Registers!Posting, Registers!Side
  <2>3. RegistersTypeOK' /\ DrawsFree' /\ InsertsAlone'
    BY <2>1, <2>2 DEF RegistersInv, RegistersTypeOK, DrawsFree, InsertsAlone
  <2>4. CallsAdmitted'
    BY <2>1, <2>2 DEF RegistersInv, CallsAdmitted
  <2>5. Registers!PostedWithRow /\ Registers!NumbersAreFree
    BY DEF RegistersInv, Registers!RegistersTie
  <2>6. (Registers!PostedWithRow)'
    BY <2>1, <2>2, <2>5, RegistersSum, RegistersSumAfter
  <2>7. (Registers!NumbersAreFree)'
    BY <2>1, <2>2, <2>5 DEF Registers!NumbersAreFree
  <2>8. QED
    BY <2>3, <2>4, <2>6, <2>7 DEF RegistersInv, Registers!RegistersTie
<1> HIDE DEF Still
<1>9. QED
  BY <1>2, <1>3, <1>4, <1>5, <1>6, <1>7, <1>8, RegistersClose, RegistersCommit
     DEF Registers!Next

\* The account carries exactly the posted documents, none of a month that was
\* closed when its call looked; a number drawn is refused only if it was taken
\* since, or a reference broke the query (CreateWHTReceipt and the others).
THEOREM RegistersAreSound ==
  ASSUME Registers!AmountAssumption
  PROVE  Registers!Spec => []Registers!RegistersTie
<1>1. Registers!Init => RegistersInv
  BY RegistersInitInv
<1>2. RegistersInv /\ [Registers!Next]_Registers!vars => RegistersInv'
  BY RegistersNextInv
<1>3. RegistersInv => Registers!RegistersTie
  BY DEF RegistersInv
<1>4. QED
  BY <1>1, <1>2, <1>3, PTL DEF Registers!Spec

-----------------------------------------------------------------------------
(* The composition.  A behaviour of Services picks one service for good and *)
(* is, on that service's variables, a behaviour of it: what is proved of    *)
(* each service holds of the whole.                                         *)

OnPayroll == service = "payroll"

LEMMA PayrollRuns == Spec => ([]OnPayroll /\ Payroll!Spec) \/ [](~ OnPayroll)
<1>1. Init => (OnPayroll => Payroll!Init)
  BY DEF Init, Kept, OnPayroll
<1>2. [Next]_vars => (OnPayroll => OnPayroll' /\ [Payroll!Next]_Payroll!vars)
  <2> SUFFICES ASSUME [Next]_vars, OnPayroll
               PROVE  OnPayroll' /\ [Payroll!Next]_Payroll!vars
    OBVIOUS
  <2>1. CASE Step
    BY <2>1 DEF Step, OnPayroll
  <2>2. CASE UNCHANGED vars
    BY <2>2 DEF vars, OnPayroll, Payroll!vars
  <2>3. QED
    BY <2>1, <2>2 DEF Next, Ended
<1>3. [Next]_vars => (~ OnPayroll => ~ OnPayroll')
  BY DEF OnPayroll, Next, Step, Ended, vars
<1>4. QED
  BY <1>1, <1>2, <1>3, PTL DEF Spec, Payroll!Spec

OnLeave == service = "leave"

LEMMA LeaveRuns == Spec => ([]OnLeave /\ Leave!Spec) \/ [](~ OnLeave)
<1>1. Init => (OnLeave => Leave!Init)
  BY DEF Init, Kept, OnLeave
<1>2. [Next]_vars => (OnLeave => OnLeave' /\ [Leave!Next]_Leave!vars)
  <2> SUFFICES ASSUME [Next]_vars, OnLeave
               PROVE  OnLeave' /\ [Leave!Next]_Leave!vars
    OBVIOUS
  <2>1. CASE Step
    BY <2>1 DEF Step, OnLeave
  <2>2. CASE UNCHANGED vars
    BY <2>2 DEF vars, OnLeave, Leave!vars
  <2>3. QED
    BY <2>1, <2>2 DEF Next, Ended
<1>3. [Next]_vars => (~ OnLeave => ~ OnLeave')
  BY DEF OnLeave, Next, Step, Ended, vars
<1>4. QED
  BY <1>1, <1>2, <1>3, PTL DEF Spec, Leave!Spec

OnFX == service = "fx"

LEMMA FXRuns == Spec => ([]OnFX /\ FX!Spec) \/ [](~ OnFX)
<1>1. Init => (OnFX => FX!Init)
  BY DEF Init, Kept, OnFX
<1>2. [Next]_vars => (OnFX => OnFX' /\ [FX!Next]_FX!vars)
  <2> SUFFICES ASSUME [Next]_vars, OnFX
               PROVE  OnFX' /\ [FX!Next]_FX!vars
    OBVIOUS
  <2>1. CASE Step
    BY <2>1 DEF Step, OnFX
  <2>2. CASE UNCHANGED vars
    BY <2>2 DEF vars, OnFX, FX!vars
  <2>3. QED
    BY <2>1, <2>2 DEF Next, Ended
<1>3. [Next]_vars => (~ OnFX => ~ OnFX')
  BY DEF OnFX, Next, Step, Ended, vars
<1>4. QED
  BY <1>1, <1>2, <1>3, PTL DEF Spec, FX!Spec

OnAudit == service = "audit"

LEMMA AuditRuns == Spec => ([]OnAudit /\ Audit!Spec) \/ [](~ OnAudit)
<1>1. Init => (OnAudit => Audit!Init)
  BY DEF Init, Kept, OnAudit
<1>2. [Next]_vars => (OnAudit => OnAudit' /\ [Audit!Next]_Audit!vars)
  <2> SUFFICES ASSUME [Next]_vars, OnAudit
               PROVE  OnAudit' /\ [Audit!Next]_Audit!vars
    OBVIOUS
  <2>1. CASE Step
    BY <2>1 DEF Step, OnAudit
  <2>2. CASE UNCHANGED vars
    BY <2>2 DEF vars, OnAudit, Audit!vars
  <2>3. QED
    BY <2>1, <2>2 DEF Next, Ended
<1>3. [Next]_vars => (~ OnAudit => ~ OnAudit')
  BY DEF OnAudit, Next, Step, Ended, vars
<1>4. QED
  BY <1>1, <1>2, <1>3, PTL DEF Spec, Audit!Spec

OnAssets == service = "assets"

LEMMA AssetsRuns == Spec => ([]OnAssets /\ Assets!Spec) \/ [](~ OnAssets)
<1>1. Init => (OnAssets => Assets!Init)
  BY DEF Init, Kept, OnAssets
<1>2. [Next]_vars => (OnAssets => OnAssets' /\ [Assets!Next]_Assets!vars)
  <2> SUFFICES ASSUME [Next]_vars, OnAssets
               PROVE  OnAssets' /\ [Assets!Next]_Assets!vars
    OBVIOUS
  <2>1. CASE Step
    BY <2>1 DEF Step, OnAssets
  <2>2. CASE UNCHANGED vars
    BY <2>2 DEF vars, OnAssets, Assets!vars
  <2>3. QED
    BY <2>1, <2>2 DEF Next, Ended
<1>3. [Next]_vars => (~ OnAssets => ~ OnAssets')
  BY DEF OnAssets, Next, Step, Ended, vars
<1>4. QED
  BY <1>1, <1>2, <1>3, PTL DEF Spec, Assets!Spec

OnYear == service = "year"

LEMMA YearRuns == Spec => ([]OnYear /\ Year!Spec) \/ [](~ OnYear)
<1>1. Init => (OnYear => Year!Init)
  BY DEF Init, Kept, OnYear
<1>2. [Next]_vars => (OnYear => OnYear' /\ [Year!Next]_Year!vars)
  <2> SUFFICES ASSUME [Next]_vars, OnYear
               PROVE  OnYear' /\ [Year!Next]_Year!vars
    OBVIOUS
  <2>1. CASE Step
    BY <2>1 DEF Step, OnYear
  <2>2. CASE UNCHANGED vars
    BY <2>2 DEF vars, OnYear, Year!vars
  <2>3. QED
    BY <2>1, <2>2 DEF Next, Ended
<1>3. [Next]_vars => (~ OnYear => ~ OnYear')
  BY DEF OnYear, Next, Step, Ended, vars
<1>4. QED
  BY <1>1, <1>2, <1>3, PTL DEF Spec, Year!Spec

OnBank == service = "statement"

LEMMA BankRuns == Spec => ([]OnBank /\ Bank!Spec) \/ [](~ OnBank)
<1>1. Init => (OnBank => Bank!Init)
  BY DEF Init, Kept, OnBank
<1>2. [Next]_vars => (OnBank => OnBank' /\ [Bank!Next]_Bank!vars)
  <2> SUFFICES ASSUME [Next]_vars, OnBank
               PROVE  OnBank' /\ [Bank!Next]_Bank!vars
    OBVIOUS
  <2>1. CASE Step
    BY <2>1 DEF Step, OnBank
  <2>2. CASE UNCHANGED vars
    BY <2>2 DEF vars, OnBank, Bank!vars
  <2>3. QED
    BY <2>1, <2>2 DEF Next, Ended
<1>3. [Next]_vars => (~ OnBank => ~ OnBank')
  BY DEF OnBank, Next, Step, Ended, vars
<1>4. QED
  BY <1>1, <1>2, <1>3, PTL DEF Spec, Bank!Spec

OnItems == service = "openitems"

LEMMA ItemsRuns == Spec => ([]OnItems /\ Items!Spec) \/ [](~ OnItems)
<1>1. Init => (OnItems => Items!Init)
  BY DEF Init, Kept, OnItems
<1>2. [Next]_vars => (OnItems => OnItems' /\ [Items!Next]_Items!vars)
  <2> SUFFICES ASSUME [Next]_vars, OnItems
               PROVE  OnItems' /\ [Items!Next]_Items!vars
    OBVIOUS
  <2>1. CASE Step
    BY <2>1 DEF Step, OnItems
  <2>2. CASE UNCHANGED vars
    BY <2>2 DEF vars, OnItems, Items!vars
  <2>3. QED
    BY <2>1, <2>2 DEF Next, Ended
<1>3. [Next]_vars => (~ OnItems => ~ OnItems')
  BY DEF OnItems, Next, Step, Ended, vars
<1>4. QED
  BY <1>1, <1>2, <1>3, PTL DEF Spec, Items!Spec

OnSign == service = "approvals"

LEMMA SignRuns == Spec => ([]OnSign /\ Sign!Spec) \/ [](~ OnSign)
<1>1. Init => (OnSign => Sign!Init)
  BY DEF Init, Kept, OnSign
<1>2. [Next]_vars => (OnSign => OnSign' /\ [Sign!Next]_Sign!vars)
  <2> SUFFICES ASSUME [Next]_vars, OnSign
               PROVE  OnSign' /\ [Sign!Next]_Sign!vars
    OBVIOUS
  <2>1. CASE Step
    BY <2>1 DEF Step, OnSign
  <2>2. CASE UNCHANGED vars
    BY <2>2 DEF vars, OnSign, Sign!vars
  <2>3. QED
    BY <2>1, <2>2 DEF Next, Ended
<1>3. [Next]_vars => (~ OnSign => ~ OnSign')
  BY DEF OnSign, Next, Step, Ended, vars
<1>4. QED
  BY <1>1, <1>2, <1>3, PTL DEF Spec, Sign!Spec

OnEfris == service = "efris"

LEMMA EfrisRuns == Spec => ([]OnEfris /\ Efris!Spec) \/ [](~ OnEfris)
<1>1. Init => (OnEfris => Efris!Init)
  BY DEF Init, Kept, OnEfris
<1>2. [Next]_vars => (OnEfris => OnEfris' /\ [Efris!Next]_Efris!vars)
  <2> SUFFICES ASSUME [Next]_vars, OnEfris
               PROVE  OnEfris' /\ [Efris!Next]_Efris!vars
    OBVIOUS
  <2>1. CASE Step
    BY <2>1 DEF Step, OnEfris
  <2>2. CASE UNCHANGED vars
    BY <2>2 DEF vars, OnEfris, Efris!vars
  <2>3. QED
    BY <2>1, <2>2 DEF Next, Ended
<1>3. [Next]_vars => (~ OnEfris => ~ OnEfris')
  BY DEF OnEfris, Next, Step, Ended, vars
<1>4. QED
  BY <1>1, <1>2, <1>3, PTL DEF Spec, Efris!Spec

OnIntents == service = "intents"

LEMMA IntentsRuns == Spec => ([]OnIntents /\ Intents!Spec) \/ [](~ OnIntents)
<1>1. Init => (OnIntents => Intents!Init)
  BY DEF Init, Kept, OnIntents
<1>2. [Next]_vars => (OnIntents => OnIntents' /\ [Intents!Next]_Intents!vars)
  <2> SUFFICES ASSUME [Next]_vars, OnIntents
               PROVE  OnIntents' /\ [Intents!Next]_Intents!vars
    OBVIOUS
  <2>1. CASE Step
    BY <2>1 DEF Step, OnIntents
  <2>2. CASE UNCHANGED vars
    BY <2>2 DEF vars, OnIntents, Intents!vars
  <2>3. QED
    BY <2>1, <2>2 DEF Next, Ended
<1>3. [Next]_vars => (~ OnIntents => ~ OnIntents')
  BY DEF OnIntents, Next, Step, Ended, vars
<1>4. QED
  BY <1>1, <1>2, <1>3, PTL DEF Spec, Intents!Spec

OnTax == service = "tax"

LEMMA TaxRuns == Spec => ([]OnTax /\ Tax!Spec) \/ [](~ OnTax)
<1>1. Init => (OnTax => Tax!Init)
  BY DEF Init, Kept, OnTax
<1>2. [Next]_vars => (OnTax => OnTax' /\ [Tax!Next]_Tax!vars)
  <2> SUFFICES ASSUME [Next]_vars, OnTax
               PROVE  OnTax' /\ [Tax!Next]_Tax!vars
    OBVIOUS
  <2>1. CASE Step
    BY <2>1 DEF Step, OnTax
  <2>2. CASE UNCHANGED vars
    BY <2>2 DEF vars, OnTax, Tax!vars
  <2>3. QED
    BY <2>1, <2>2 DEF Next, Ended
<1>3. [Next]_vars => (~ OnTax => ~ OnTax')
  BY DEF OnTax, Next, Step, Ended, vars
<1>4. QED
  BY <1>1, <1>2, <1>3, PTL DEF Spec, Tax!Spec

OnSchema == service = "schema"

LEMMA SchemaRuns == Spec => ([]OnSchema /\ Schema!Spec) \/ [](~ OnSchema)
<1>1. Init => (OnSchema => Schema!Init)
  BY DEF Init, Kept, OnSchema
<1>2. [Next]_vars => (OnSchema => OnSchema' /\ [Schema!Next]_Schema!vars)
  <2> SUFFICES ASSUME [Next]_vars, OnSchema
               PROVE  OnSchema' /\ [Schema!Next]_Schema!vars
    OBVIOUS
  <2>1. CASE Step
    BY <2>1 DEF Step, OnSchema
  <2>2. CASE UNCHANGED vars
    BY <2>2 DEF vars, OnSchema, Schema!vars
  <2>3. QED
    BY <2>1, <2>2 DEF Next, Ended
<1>3. [Next]_vars => (~ OnSchema => ~ OnSchema')
  BY DEF OnSchema, Next, Step, Ended, vars
<1>4. QED
  BY <1>1, <1>2, <1>3, PTL DEF Spec, Schema!Spec

OnDigest == service = "digest"

LEMMA DigestRuns == Spec => ([]OnDigest /\ Digest!Spec) \/ [](~ OnDigest)
<1>1. Init => (OnDigest => Digest!Init)
  BY DEF Init, Kept, OnDigest
<1>2. [Next]_vars => (OnDigest => OnDigest' /\ [Digest!Next]_Digest!vars)
  <2> SUFFICES ASSUME [Next]_vars, OnDigest
               PROVE  OnDigest' /\ [Digest!Next]_Digest!vars
    OBVIOUS
  <2>1. CASE Step
    BY <2>1 DEF Step, OnDigest
  <2>2. CASE UNCHANGED vars
    BY <2>2 DEF vars, OnDigest, Digest!vars
  <2>3. QED
    BY <2>1, <2>2 DEF Next, Ended
<1>3. [Next]_vars => (~ OnDigest => ~ OnDigest')
  BY DEF OnDigest, Next, Step, Ended, vars
<1>4. QED
  BY <1>1, <1>2, <1>3, PTL DEF Spec, Digest!Spec

OnStock == service = "stock"

LEMMA StockRuns == Spec => ([]OnStock /\ Stock!Spec) \/ [](~ OnStock)
<1>1. Init => (OnStock => Stock!Init)
  BY DEF Init, Kept, OnStock
<1>2. [Next]_vars => (OnStock => OnStock' /\ [Stock!Next]_Stock!vars)
  <2> SUFFICES ASSUME [Next]_vars, OnStock
               PROVE  OnStock' /\ [Stock!Next]_Stock!vars
    OBVIOUS
  <2>1. CASE Step
    BY <2>1 DEF Step, OnStock
  <2>2. CASE UNCHANGED vars
    BY <2>2 DEF vars, OnStock, Stock!vars
  <2>3. QED
    BY <2>1, <2>2 DEF Next, Ended
<1>3. [Next]_vars => (~ OnStock => ~ OnStock')
  BY DEF OnStock, Next, Step, Ended, vars
<1>4. QED
  BY <1>1, <1>2, <1>3, PTL DEF Spec, Stock!Spec

OnPages == service = "tail"

LEMMA PagesRuns == Spec => ([]OnPages /\ Pages!Spec) \/ [](~ OnPages)
<1>1. Init => (OnPages => Pages!Init)
  BY DEF Init, Kept, OnPages
<1>2. [Next]_vars => (OnPages => OnPages' /\ [Pages!Next]_Pages!vars)
  <2> SUFFICES ASSUME [Next]_vars, OnPages
               PROVE  OnPages' /\ [Pages!Next]_Pages!vars
    OBVIOUS
  <2>1. CASE Step
    BY <2>1 DEF Step, OnPages
  <2>2. CASE UNCHANGED vars
    BY <2>2 DEF vars, OnPages, Pages!vars
  <2>3. QED
    BY <2>1, <2>2 DEF Next, Ended
<1>3. [Next]_vars => (~ OnPages => ~ OnPages')
  BY DEF OnPages, Next, Step, Ended, vars
<1>4. QED
  BY <1>1, <1>2, <1>3, PTL DEF Spec, Pages!Spec

OnLinks == service = "links"

LEMMA LinksRuns == Spec => ([]OnLinks /\ Links!Spec) \/ [](~ OnLinks)
<1>1. Init => (OnLinks => Links!Init)
  BY DEF Init, Kept, OnLinks
<1>2. [Next]_vars => (OnLinks => OnLinks' /\ [Links!Next]_Links!vars)
  <2> SUFFICES ASSUME [Next]_vars, OnLinks
               PROVE  OnLinks' /\ [Links!Next]_Links!vars
    OBVIOUS
  <2>1. CASE Step
    BY <2>1 DEF Step, OnLinks
  <2>2. CASE UNCHANGED vars
    BY <2>2 DEF vars, OnLinks, Links!vars
  <2>3. QED
    BY <2>1, <2>2 DEF Next, Ended
<1>3. [Next]_vars => (~ OnLinks => ~ OnLinks')
  BY DEF OnLinks, Next, Step, Ended, vars
<1>4. QED
  BY <1>1, <1>2, <1>3, PTL DEF Spec, Links!Spec

OnRegisters == service = "registers"

LEMMA RegistersRuns == Spec => ([]OnRegisters /\ Registers!Spec) \/ [](~ OnRegisters)
<1>1. Init => (OnRegisters => Registers!Init)
  BY DEF Init, Kept, OnRegisters
<1>2. [Next]_vars => (OnRegisters => OnRegisters' /\ [Registers!Next]_Registers!vars)
  <2> SUFFICES ASSUME [Next]_vars, OnRegisters
               PROVE  OnRegisters' /\ [Registers!Next]_Registers!vars
    OBVIOUS
  <2>1. CASE Step
    BY <2>1 DEF Step, OnRegisters
  <2>2. CASE UNCHANGED vars
    BY <2>2 DEF vars, OnRegisters, Registers!vars
  <2>3. QED
    BY <2>1, <2>2 DEF Next, Ended
<1>3. [Next]_vars => (~ OnRegisters => ~ OnRegisters')
  BY DEF OnRegisters, Next, Step, Ended, vars
<1>4. QED
  BY <1>1, <1>2, <1>3, PTL DEF Spec, Registers!Spec

OnBilling == service = "billing"

LEMMA BillingRuns == Spec => ([]OnBilling /\ Billing!Spec) \/ [](~ OnBilling)
<1>1. Init => (OnBilling => Billing!Init)
  BY DEF Init, Kept, OnBilling
<1>2. [Next]_vars => (OnBilling => OnBilling' /\ [Billing!Next]_Billing!vars)
  <2> SUFFICES ASSUME [Next]_vars, OnBilling
               PROVE  OnBilling' /\ [Billing!Next]_Billing!vars
    OBVIOUS
  <2>1. CASE Step
    BY <2>1 DEF Step, OnBilling
  <2>2. CASE UNCHANGED vars
    BY <2>2 DEF vars, OnBilling, Billing!vars
  <2>3. QED
    BY <2>1, <2>2 DEF Next, Ended
<1>3. [Next]_vars => (~ OnBilling => ~ OnBilling')
  BY DEF OnBilling, Next, Step, Ended, vars
<1>4. QED
  BY <1>1, <1>2, <1>3, PTL DEF Spec, Billing!Spec

OnLiab == service = "provisions"

LEMMA LiabRuns == Spec => ([]OnLiab /\ Liab!Spec) \/ [](~ OnLiab)
<1>1. Init => (OnLiab => Liab!Init)
  BY DEF Init, Kept, OnLiab
<1>2. [Next]_vars => (OnLiab => OnLiab' /\ [Liab!Next]_Liab!vars)
  <2> SUFFICES ASSUME [Next]_vars, OnLiab
               PROVE  OnLiab' /\ [Liab!Next]_Liab!vars
    OBVIOUS
  <2>1. CASE Step
    BY <2>1 DEF Step, OnLiab
  <2>2. CASE UNCHANGED vars
    BY <2>2 DEF vars, OnLiab, Liab!vars
  <2>3. QED
    BY <2>1, <2>2 DEF Next, Ended
<1>3. [Next]_vars => (~ OnLiab => ~ OnLiab')
  BY DEF OnLiab, Next, Step, Ended, vars
<1>4. QED
  BY <1>1, <1>2, <1>3, PTL DEF Spec, Liab!Spec

OnCredit == service = "credit"

LEMMA CreditRuns == Spec => ([]OnCredit /\ Credit!Spec) \/ [](~ OnCredit)
<1>1. Init => (OnCredit => Credit!Init)
  BY DEF Init, Kept, OnCredit
<1>2. [Next]_vars => (OnCredit => OnCredit' /\ [Credit!Next]_Credit!vars)
  <2> SUFFICES ASSUME [Next]_vars, OnCredit
               PROVE  OnCredit' /\ [Credit!Next]_Credit!vars
    OBVIOUS
  <2>1. CASE Step
    BY <2>1 DEF Step, OnCredit
  <2>2. CASE UNCHANGED vars
    BY <2>2 DEF vars, OnCredit, Credit!vars
  <2>3. QED
    BY <2>1, <2>2 DEF Next, Ended
<1>3. [Next]_vars => (~ OnCredit => ~ OnCredit')
  BY DEF OnCredit, Next, Step, Ended, vars
<1>4. QED
  BY <1>1, <1>2, <1>3, PTL DEF Spec, Credit!Spec

OnGoods == service = "receipts"

LEMMA GoodsRuns == Spec => ([]OnGoods /\ Goods!Spec) \/ [](~ OnGoods)
<1>1. Init => (OnGoods => Goods!Init)
  BY DEF Init, Kept, OnGoods
<1>2. [Next]_vars => (OnGoods => OnGoods' /\ [Goods!Next]_Goods!vars)
  <2> SUFFICES ASSUME [Next]_vars, OnGoods
               PROVE  OnGoods' /\ [Goods!Next]_Goods!vars
    OBVIOUS
  <2>1. CASE Step
    BY <2>1 DEF Step, OnGoods
  <2>2. CASE UNCHANGED vars
    BY <2>2 DEF vars, OnGoods, Goods!vars
  <2>3. QED
    BY <2>1, <2>2 DEF Next, Ended
<1>3. [Next]_vars => (~ OnGoods => ~ OnGoods')
  BY DEF OnGoods, Next, Step, Ended, vars
<1>4. QED
  BY <1>1, <1>2, <1>3, PTL DEF Spec, Goods!Spec

\* Payroll runs and the valuation of leave agree with the ledger: a recorded
\* run is posted and recorded once, and every movement of the leave liability
\* has its record (PostPayrollRun, ValueLeaveLiability).
THEOREM PayrollHolds == Spec => []PayrollTies
<1>1. Payroll!Spec => []Payroll!RunPostedOnce
  BY RunsArePostedOnce
<1>2. Spec => [](OnPayroll => Payroll!RunPostedOnce)
  BY <1>1, PayrollRuns, PTL
<1>3. Leave!Spec => []Leave!LeaveTies
  BY LeaveIsSound, ServicesAssumption
<1>4. Spec => [](OnLeave => Leave!LeaveTies)
  BY <1>3, LeaveRuns, PTL
<1>5. (OnPayroll => Payroll!RunPostedOnce) /\ (OnLeave => Leave!LeaveTies) => PayrollTies
  BY DEF OnPayroll, OnLeave, PayrollTies
<1>6. QED
  BY <1>2, <1>4, <1>5, PTL

\* A period's revaluation is taken back on the first day of the next, and
\* nothing else is (RevalueFX).
THEOREM RevaluationHolds == Spec => []RevaluationTies
<1>1. FX!Spec => []FX!RevaluationReverses
  BY RevaluationIsSound, ServicesAssumption
<1>2. Spec => [](OnFX => FX!RevaluationReverses)
  BY <1>1, FXRuns, PTL
<1>3. (OnFX => FX!RevaluationReverses) => RevaluationTies
  BY DEF OnFX, RevaluationTies
<1>4. QED
  BY <1>2, <1>3, PTL

\* The chain of audit events verifies, whoever appends (AppendChainTx, Verify).
THEOREM ChainHolds == Spec => []ChainVerifies
<1>1. Audit!Spec => []Audit!ChainVerifies
  BY ChainIsSound, ServicesAssumption
<1>2. Spec => [](OnAudit => Audit!ChainVerifies)
  BY <1>1, AuditRuns, PTL
<1>3. (OnAudit => Audit!ChainVerifies) => ChainVerifies
  BY DEF OnAudit, ChainVerifies
<1>4. QED
  BY <1>2, <1>3, PTL

\* The register of fixed assets ties to the ledger and stays within its bounds
\* (repository/fixed_assets.go, fixed_assets_ias16.go).
THEOREM RegisterHolds == Spec => []RegisterSound
<1>1. Assets!Spec => []Assets!RegisterSound
  BY RegisterIsSound, ServicesAssumption
<1>2. Spec => [](OnAssets => Assets!RegisterSound)
  BY <1>1, AssetsRuns, PTL
<1>3. (OnAssets => Assets!RegisterSound) => RegisterSound
  BY DEF OnAssets, RegisterSound
<1>4. QED
  BY <1>2, <1>3, PTL

\* A closed year nets to zero and no profit is lost on its way to retained
\* earnings (CloseFiscalYear).
THEOREM YearHolds == Spec => []YearCloses
<1>1. Year!Spec => []Year!YearCloses
  BY YearIsSound, ServicesAssumption
<1>2. Spec => [](OnYear => Year!YearCloses)
  BY <1>1, YearRuns, PTL
<1>3. (OnYear => Year!YearCloses) => YearCloses
  BY DEF OnYear, YearCloses
<1>4. QED
  BY <1>2, <1>3, PTL

\* A statement line that is matched has paid its document, and none is paid
\* beyond what it is owed (ConfirmStatementLine, MatchStatementLine).
THEOREM StatementHolds == Spec => []MatchedIsPaid
<1>1. Bank!Spec => []Bank!MatchedIsPaid
  BY StatementIsSound, ServicesAssumption
<1>2. Spec => [](OnBank => Bank!MatchedIsPaid)
  BY <1>1, BankRuns, PTL
<1>3. (OnBank => Bank!MatchedIsPaid) => MatchedIsPaid
  BY DEF OnBank, MatchedIsPaid
<1>4. QED
  BY <1>2, <1>3, PTL

\* Open items, payment rows and control account agree
\* (ApplyPaymentWithJournal, BookAdjustment, WriteOffReceivable).
THEOREM ItemsHold == Spec => []ItemsTie
<1>1. Items!Spec => []Items!ItemsTie
  BY SubledgerIsSound, ServicesAssumption
<1>2. Spec => [](OnItems => Items!ItemsTie)
  BY <1>1, ItemsRuns, PTL
<1>3. (OnItems => Items!ItemsTie) => ItemsTie
  BY DEF OnItems, ItemsTie
<1>4. QED
  BY <1>2, <1>3, PTL

\* Under dual control a target goes out once, with the signatures it needs
\* (repository/approvals.go, ledger/approvals.go).
THEOREM ApprovalsHold == Spec => []ApprovalsSound
<1>1. Sign!Spec => []Sign!ApprovalsSound
  BY ApprovalsAreSound, ServicesAssumption DEF ApprovalAssumption
<1>2. Spec => [](OnSign => Sign!ApprovalsSound)
  BY <1>1, SignRuns, PTL
<1>3. (OnSign => Sign!ApprovalsSound) => ApprovalsSound
  BY DEF OnSign, ApprovalsSound
<1>4. QED
  BY <1>2, <1>3, PTL

\* A payment intent tells whether its money was booked, and a payment link
\* leads to its receivable (ConfirmPaymentIntent, EnsurePaymentLinkToken).
THEOREM IntentsHold == Spec => []IntentsTie
<1>1. Intents!Spec => []Intents!IntentsTie
  BY IntentsAreSound, ServicesAssumption
<1>2. Spec => [](OnIntents => Intents!IntentsTie)
  BY <1>1, IntentsRuns, PTL
<1>3. Links!Spec => []Links!LinkLeads
  BY LinksLead
<1>4. Spec => [](OnLinks => Links!LinkLeads)
  BY <1>3, LinksRuns, PTL
<1>5. (OnIntents => Intents!IntentsTie) /\ (OnLinks => Links!LinkLeads) => IntentsTie
  BY DEF OnIntents, OnLinks, IntentsTie
<1>6. QED
  BY <1>2, <1>4, <1>5, PTL

\* A numbered register ties to its account and to its open months, and numbers
\* its documents without a clash (CreateWHTReceipt and the others).
THEOREM RegistersHold == Spec => []RegistersTie
<1>1. Registers!Spec => []Registers!RegistersTie
  BY RegistersAreSound, ServicesAssumption
<1>2. Spec => [](OnRegisters => Registers!RegistersTie)
  BY <1>1, RegistersRuns, PTL
<1>3. (OnRegisters => Registers!RegistersTie) => RegistersTie
  BY DEF OnRegisters, RegistersTie
<1>4. QED
  BY <1>2, <1>3, PTL

\* Tax payable, deferred and expense are what the standing rows come to
\* (RunCurrentTax, RecognizeDeferredTax).
THEOREM TaxHolds == Spec => []TaxTies
<1>1. Tax!Spec => []Tax!TaxTies
  BY TaxIsSound, ServicesAssumption
<1>2. Spec => [](OnTax => Tax!TaxTies)
  BY <1>1, TaxRuns, PTL
<1>3. (OnTax => Tax!TaxTies) => TaxTies
  BY DEF OnTax, TaxTies
<1>4. QED
  BY <1>2, <1>3, PTL

\* Migrations take effect once and in order, whatever replicas start
\* (RunMigrations).
THEOREM SchemaHolds == Spec => []SchemaInOrder
<1>1. Schema!Spec => []Schema!SchemaInOrder
  BY MigrationsAreInOrder, ServicesAssumption
<1>2. Spec => [](OnSchema => Schema!SchemaInOrder)
  BY <1>1, SchemaRuns, PTL
<1>3. (OnSchema => Schema!SchemaInOrder) => SchemaInOrder
  BY DEF OnSchema, SchemaInOrder
<1>4. QED
  BY <1>2, <1>3, PTL

\* Customers are chased sparingly, and open pages hear of every change (tick in
\* worker/overdue.go, serve in handlers/ws.go).
THEOREM NoticesHold == Spec => []NoticesSound
<1>1. Digest!Spec => []Digest!ChasedSparingly
  BY DigestsAreSparing, ServicesAssumption
<1>2. Spec => [](OnDigest => Digest!ChasedSparingly)
  BY <1>1, DigestRuns, PTL
<1>3. Pages!Spec => []Pages!ChangesPushed
  BY PagesAreTold, ServicesAssumption
<1>4. Spec => [](OnPages => Pages!ChangesPushed)
  BY <1>3, PagesRuns, PTL
<1>5. (OnDigest => Digest!ChasedSparingly) /\ (OnPages => Pages!ChangesPushed) => NoticesSound
  BY DEF OnDigest, OnPages, NoticesSound
<1>6. QED
  BY <1>2, <1>4, <1>5, PTL

\* The ledger is worth what is in stock and in work once every event is booked,
\* and what an order leaves in the clearing account is what its row says is open
\* (warehouse and procurement events, DetectMatchExceptions).
THEOREM StockHolds == Spec => []StockTies
<1>1. Stock!Spec => []Stock!StockTies
  BY StockIsSound, ServicesAssumption
<1>2. Goods!Spec => []Goods!OrderSettles
  BY OrderIsSound, ServicesAssumption
<1>3. Spec => [](OnStock => Stock!StockTies)
  BY <1>1, StockRuns, PTL
<1>4. Spec => [](OnGoods => Goods!OrderSettles)
  BY <1>2, GoodsRuns, PTL
<1>5. (OnStock => Stock!StockTies) /\ (OnGoods => Goods!OrderSettles) => StockTies
  BY DEF OnStock, OnGoods, StockTies
<1>6. QED
  BY <1>3, <1>4, <1>5, PTL

\* A period is billed once, and what is issued is in the ledger and the
\* subledger once (ClaimRecurring, IssueInvoice).
THEOREM InvoicesHold == Spec => []InvoicesTie
<1>1. Billing!Spec => []Billing!InvoicesTie
  BY InvoicesAreSound
<1>2. Spec => [](OnBilling => Billing!InvoicesTie)
  BY <1>1, BillingRuns, PTL
<1>3. (OnBilling => Billing!InvoicesTie) => InvoicesTie
  BY DEF OnBilling, InvoicesTie
<1>4. QED
  BY <1>2, <1>3, PTL

\* A provision is carried at what its movements and its account come to
\* (bookProvisionOp).
THEOREM ProvisionsHold == Spec => []ProvisionTies
<1>1. Liab!Spec => []Liab!ProvisionTies
  BY ProvisionIsSound, ServicesAssumption
<1>2. Spec => [](OnLiab => Liab!ProvisionTies)
  BY <1>1, LiabRuns, PTL
<1>3. (OnLiab => Liab!ProvisionTies) => ProvisionTies
  BY DEF OnLiab, ProvisionTies
<1>4. QED
  BY <1>2, <1>3, PTL

\* The loss allowance is backed by its records and not overdrawn
\* (RunECLProvision, WriteOffReceivable).
THEOREM AllowanceHolds == Spec => []AllowanceTies
<1>1. Credit!Spec => []Credit!AllowanceTies
  BY AllowanceIsSound, ServicesAssumption
<1>2. Spec => [](OnCredit => Credit!AllowanceTies)
  BY <1>1, CreditRuns, PTL
<1>3. (OnCredit => Credit!AllowanceTies) => AllowanceTies
  BY DEF OnCredit, AllowanceTies
<1>4. QED
  BY <1>2, <1>3, PTL

(* A step of Services that leaves the variables of the service it is on      *)
(* leaves all variables.                                                    *)

LEMMA AssetsDecides ==
  Spec => [][OnAssets => Assets!KeepsSalvage]_vars
<1>1. Assets!Spec => [][Assets!KeepsSalvage]_Assets!vars
  BY ChargesKeepSalvage, ServicesAssumption DEF Assets!ChargeKeepsSalvage
<1>2. [Next]_vars /\ OnAssets /\ [Assets!KeepsSalvage]_Assets!vars => [OnAssets => Assets!KeepsSalvage]_vars
  BY DEF OnAssets, Next, Ended, Step, Idle, vars, Assets!vars
<1>3. [Next]_vars /\ ~ OnAssets => [OnAssets => Assets!KeepsSalvage]_vars
  OBVIOUS
<1>4. QED
  BY <1>1, <1>2, <1>3, AssetsRuns, PTL DEF Spec

LEMMA BankDecides ==
  Spec => [][OnBank => Bank!KeepsMatch]_vars
<1>1. Bank!Spec => [][Bank!KeepsMatch]_Bank!vars
  BY MatchesStay, ServicesAssumption DEF Bank!MatchedStays
<1>2. [Next]_vars /\ OnBank /\ [Bank!KeepsMatch]_Bank!vars => [OnBank => Bank!KeepsMatch]_vars
  BY DEF OnBank, Next, Ended, Step, Idle, vars, Bank!vars
<1>3. [Next]_vars /\ ~ OnBank => [OnBank => Bank!KeepsMatch]_vars
  OBVIOUS
<1>4. QED
  BY <1>1, <1>2, <1>3, BankRuns, PTL DEF Spec

LEMMA SignDecides ==
  Spec => [][OnSign => Sign!KeepsDecision]_vars
<1>1. Sign!Spec => [][Sign!KeepsDecision]_Sign!vars
  BY DecisionsAreFinal, ServicesAssumption DEF Sign!DecidedIsFinal, ApprovalAssumption
<1>2. [Next]_vars /\ OnSign /\ [Sign!KeepsDecision]_Sign!vars => [OnSign => Sign!KeepsDecision]_vars
  BY DEF OnSign, Next, Ended, Step, Idle, vars, Sign!vars
<1>3. [Next]_vars /\ ~ OnSign => [OnSign => Sign!KeepsDecision]_vars
  OBVIOUS
<1>4. QED
  BY <1>1, <1>2, <1>3, SignRuns, PTL DEF Spec

LEMMA EfrisDecides ==
  Spec => [][OnEfris => Efris!KeepsAcknowledged]_vars
<1>1. Efris!Spec => [][Efris!KeepsAcknowledged]_Efris!vars
  BY AcknowledgedStays
<1>2. [Next]_vars /\ OnEfris /\ [Efris!KeepsAcknowledged]_Efris!vars => [OnEfris => Efris!KeepsAcknowledged]_vars
  BY DEF OnEfris, Next, Ended, Step, Idle, vars, Efris!vars
<1>3. [Next]_vars /\ ~ OnEfris => [OnEfris => Efris!KeepsAcknowledged]_vars
  OBVIOUS
<1>4. QED
  BY <1>1, <1>2, <1>3, EfrisRuns, PTL DEF Spec

LEMMA YearDecides ==
  Spec => [][OnYear => Year!KeepsLocked]_vars
<1>1. Year!Spec => [][Year!KeepsLocked]_Year!vars
  BY LockedYearIsKept, ServicesAssumption
<1>2. [Next]_vars /\ OnYear /\ [Year!KeepsLocked]_Year!vars => [OnYear => Year!KeepsLocked]_vars
  BY DEF OnYear, Next, Ended, Step, Idle, vars, Year!vars
<1>3. [Next]_vars /\ ~ OnYear => [OnYear => Year!KeepsLocked]_vars
  OBVIOUS
<1>4. QED
  BY <1>1, <1>2, <1>3, YearRuns, PTL DEF Spec

\* A charge leaves every asset at or above its salvage value (RunDepreciation).
THEOREM SalvageHolds == Spec => ChargeKeepsSalvage
<1>1. [OnAssets => Assets!KeepsSalvage]_vars =>
        [service = "assets" => Assets!KeepsSalvage]_vars
  BY DEF OnAssets
<1>2. QED
  BY <1>1, AssetsDecides, PTL DEF ChargeKeepsSalvage

\* What was decided stays decided: a match (Flip), an approval (Decision), an
\* acknowledgement (SubmitEFRIS), the lock of a year (CloseFiscalYear).
THEOREM DecisionsHold == Spec => DecidedStays
<1>1. /\ [OnBank => Bank!KeepsMatch]_vars
      /\ [OnSign => Sign!KeepsDecision]_vars
      /\ [OnEfris => Efris!KeepsAcknowledged]_vars
      /\ [OnYear => Year!KeepsLocked]_vars
      => [ /\ service = "statement" => Bank!KeepsMatch
           /\ service = "approvals" => Sign!KeepsDecision
           /\ service = "efris" => Efris!KeepsAcknowledged
           /\ service = "year" => Year!KeepsLocked ]_vars
  BY DEF OnBank, OnSign, OnEfris, OnYear
<1>2. QED
  BY <1>1, BankDecides, SignDecides, EfrisDecides, YearDecides, PTL DEF DecidedStays
=============================================================================
