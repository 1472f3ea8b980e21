-------------------------- MODULE ConsumerProofs --------------------------
(* Theorems about EventConsumer for every topic, group, retry limit and      *)
(* number of faults.                                                         *)
EXTENDS EventConsumer, TLAPS

ConsumerStep == ConsumerNext \/ \E e \in Event : Arrive(e)

\* The steps that change nothing of a member but where it is.
LEMMA GotoTypes ==
  ASSUME ConsumerTypeOK, NEW c \in Consumer, NEW at \in Step, Goto(c, at),
         reader[c].at # "idle" \/ at = "idle"
  PROVE  /\ reader' \in [Consumer -> Reader]
         /\ \A k \in Consumer :
              /\ reader'[k].next <= Len(log)
              /\ reader'[k].at # "idle" => reader'[k].pos < Len(log)
BY DEF ConsumerTypeOK, Goto, Reader

LEMMA RetryTypes ==
  ASSUME ConsumerTypeOK, NEW c \in Consumer, Retry(c), reader[c].at # "idle"
  PROVE  /\ reader' \in [Consumer -> Reader]
         /\ \A k \in Consumer :
              /\ reader'[k].next <= Len(log)
              /\ reader'[k].at # "idle" => reader'[k].pos < Len(log)
<1>1. reader[c] \in Reader
  BY DEF ConsumerTypeOK
<1>2. PICK at \in Step :
        reader' = [reader EXCEPT ![c] =
                     [at |-> at, pos |-> reader[c].pos, next |-> reader[c].next,
                      tries |-> reader[c].tries + 1]]
  BY DEF Retry, Step
<1>3. QED
  BY <1>1, <1>2 DEF ConsumerTypeOK, Reader

\* A member that is busy holds an event of the topic.
LEMMA HeldIsEvent ==
  ASSUME ConsumerTypeOK, NEW c \in Consumer, reader[c].at # "idle"
  PROVE  /\ reader[c] \in Reader
         /\ reader[c].pos + 1 \in 1 .. Len(log)
         /\ Held(c) \in Event
BY DEF ConsumerTypeOK, Reader, Held

LEMMA FaultTypes ==
  ASSUME ConsumerTypeOK, Fault \/ NoFault
  PROVE  faults' \in Nat
BY DEF ConsumerTypeOK, Fault, NoFault

\* Every step keeps the consumer's variables well formed.
LEMMA ConsumerTypeStep ==
  ASSUME ConsumerTypeOK, [ConsumerStep]_vars
  PROVE  ConsumerTypeOK'
<1>1. ASSUME NEW e \in Event, Arrive(e) PROVE ConsumerTypeOK'
  BY <1>1 DEF Arrive, ConsumerTypeOK, Reader
<1>2. CASE CloseOrReopen
  BY <1>2 DEF CloseOrReopen, ConsumerTypeOK
<1>3. ASSUME NEW c \in Consumer, Assign(c) PROVE ConsumerTypeOK'
  <2> DEFINE n == IF committed = -1 THEN Len(log) ELSE committed
  <2>1. n \in Nat /\ n <= Len(log) /\ reader' = [reader EXCEPT ![c].next = n]
    BY <1>3 DEF Assign, ConsumerTypeOK
  <2> HIDE DEF n
  <2>2. faults' \in Nat
    BY <1>3, FaultTypes DEF Assign
  <2>3. QED
    BY <1>3, <2>1, <2>2 DEF Assign, ConsumerTypeOK, Reader
<1>4. ASSUME NEW c \in Consumer, ConsumerCrash(c) PROVE ConsumerTypeOK'
  BY <1>4, FaultTypes, GotoTypes DEF ConsumerCrash, ConsumerTypeOK, Step
<1>5. ASSUME NEW c \in Consumer, FetchMessage(c) PROVE ConsumerTypeOK'
  BY <1>5, FaultTypes DEF FetchMessage, ConsumerTypeOK, Reader, Step
<1>6. ASSUME NEW c \in Consumer, Ignore(c) \/ Reject(c) \/ CheckProcessed(c)
                                 \/ InsertDuplicate(c)
      PROVE  ConsumerTypeOK'
  BY <1>6, FaultTypes, GotoTypes
     DEF Ignore, Reject, CheckProcessed, InsertDuplicate, ConsumerTypeOK, Step
<1>7. ASSUME NEW c \in Consumer, ResolveWindow(c) \/ HandlerFails(c)
      PROVE  ConsumerTypeOK'
  BY <1>7, FaultTypes, GotoTypes, RetryTypes
     DEF ResolveWindow, HandlerFails, ConsumerTypeOK, Step
<1>8. ASSUME NEW c \in Consumer, InsertEntry(c) PROVE ConsumerTypeOK'
  <2>1. booked' \in [Event -> Nat]
    BY <1>8, HeldIsEvent DEF InsertEntry, ConsumerTypeOK
  <2>2. QED
    BY <1>8, <2>1, FaultTypes, GotoTypes, RetryTypes
       DEF InsertEntry, ConsumerTypeOK, Step
<1>9. ASSUME NEW c \in Consumer, Link(c) \/ LinkFails(c) \/ ToDLQ(c)
                                 \/ ToDLQFails(c)
      PROVE  ConsumerTypeOK'
  <2>1. Held(c) \in Event /\ reader[c].at # "idle"
    BY <1>9, HeldIsEvent DEF Link, LinkFails, ToDLQ, ToDLQFails
  <2>2. QED
    BY <1>9, <2>1, FaultTypes, GotoTypes
       DEF Link, LinkFails, ToDLQ, ToDLQFails, ConsumerTypeOK, Step
<1>10. ASSUME NEW c \in Consumer, Commit(c) \/ CommitFails(c)
       PROVE  ConsumerTypeOK'
  <2>1. reader[c].at # "idle" /\ Goto(c, "idle") /\ (Fault \/ NoFault)
    BY <1>10 DEF Commit, CommitFails
  <2>2. reader[c].pos + 1 \in 1 .. Len(log)
    BY <2>1, HeldIsEvent
  <2>3. committed' \in Nat \cup {-1} /\ committed' <= Len(log)
    BY <1>10, <2>2 DEF Commit, CommitFails, ConsumerTypeOK
  <2>4. /\ reader' \in [Consumer -> Reader]
        /\ \A k \in Consumer :
             /\ reader'[k].next <= Len(log)
             /\ reader'[k].at # "idle" => reader'[k].pos < Len(log)
    BY <2>1, GotoTypes DEF Step
  <2>5. QED
    BY <1>10, <2>1, <2>3, <2>4, FaultTypes DEF Commit, CommitFails, ConsumerTypeOK
<1>11. CASE UNCHANGED vars
  BY <1>11 DEF vars, ConsumerTypeOK
<1>12. QED
  BY <1>1, <1>2, <1>3, <1>4, <1>5, <1>6, <1>7, <1>8, <1>9, <1>10, <1>11
     DEF ConsumerStep, ConsumerNext, MemberNext, ReaderStep

LEMMA ConsumerTypeInit == Init => ConsumerTypeOK
<1> SUFFICES ASSUME Init PROVE ConsumerTypeOK
  OBVIOUS
<1>1. /\ log = << >> /\ log \in Seq(Event) /\ Len(log) = 0
      /\ faults \in Nat
  BY DEF Init
<1>2. reader = [c \in Consumer |-> [at |-> "idle", pos |-> 0, next |-> 0,
                                   tries |-> 0]]
  BY DEF Init, ConsumerInit
<1>3. /\ reader \in [Consumer -> Reader]
      /\ \A c \in Consumer : reader[c].at = "idle" /\ reader[c].next = 0
  BY <1>2 DEF Reader, Step
<1>4. /\ booked = [e \in Event |-> 0]
      /\ committed \in Nat \cup {-1} /\ committed <= 0
      /\ owner \in Consumer
      /\ linked = {} /\ unlinked = {} /\ dlq = {} /\ dropped = {}
      /\ shut = FALSE
  BY DEF Init, ConsumerInit
<1>5. booked \in [Event -> Nat]
  BY <1>4
<1>6. \A c \in Consumer :
        /\ reader[c].next <= Len(log)
        /\ reader[c].at # "idle" => reader[c].pos < Len(log)
  BY <1>1, <1>3
<1>7. QED
  BY <1>1, <1>3, <1>4, <1>5, <1>6 DEF ConsumerTypeOK

\* The type invariant: offsets stay within the topic, and a busy member holds
\* one of its messages.
THEOREM ConsumerTypeCorrect == ConsumerSpec => []ConsumerTypeOK
<1>1. Init => ConsumerTypeOK
  BY ConsumerTypeInit
<1>2. ConsumerTypeOK /\ [ConsumerStep]_vars => ConsumerTypeOK'
  BY ConsumerTypeStep
<1>3. QED
  BY <1>1, <1>2, PTL DEF ConsumerSpec, ConsumerStep

-----------------------------------------------------------------------------
\* However often an event is delivered, held by two members or committed with
\* its answer lost, it is booked at most once.
THEOREM BooksAtMostOnce == ConsumerSpec => []BookedAtMostOnce
<1>1. Init => BookedAtMostOnce
  <2> SUFFICES ASSUME Init, NEW e \in Event PROVE booked[e] <= 1
    BY DEF BookedAtMostOnce
  <2>1. booked[e] = 0
    BY DEF Init, ConsumerInit
  <2>2. QED
    BY <2>1
<1>2. ConsumerTypeOK /\ BookedAtMostOnce /\ [ConsumerStep]_vars
        => BookedAtMostOnce'
  <2> SUFFICES ASSUME ConsumerTypeOK, BookedAtMostOnce, [ConsumerStep]_vars
               PROVE  BookedAtMostOnce'
    OBVIOUS
  <2>1. ASSUME NEW c \in Consumer, InsertEntry(c) PROVE BookedAtMostOnce'
    BY <2>1, HeldIsEvent DEF InsertEntry, BookedAtMostOnce, ConsumerTypeOK
  <2>2. CASE booked' = booked
    BY <2>2 DEF BookedAtMostOnce
  <2>3. QED
    BY <2>1, <2>2
       DEF ConsumerStep, ConsumerNext, MemberNext, ReaderStep, vars, Arrive,
           CloseOrReopen, Assign, ConsumerCrash, FetchMessage, Ignore, Reject,
           ResolveWindow, CheckProcessed, InsertDuplicate, Link, LinkFails,
           HandlerFails, ToDLQ, ToDLQFails, Commit, CommitFails
<1>3. QED
  BY <1>1, <1>2, ConsumerTypeCorrect, PTL DEF ConsumerSpec, ConsumerStep

-----------------------------------------------------------------------------
(* What is committed is done with: the inductive invariant. *)

\* Message i has been ignored, dead-lettered or dropped, or it is booked and
\* the link of its open item has been tried.
Settled(i) ==
  \/ Disposed(log[i])
  \/ booked[log[i]] > 0 /\ log[i] \in linked \cup unlinked

\* A busy member has settled everything below the message it holds, and this
\* one too when it is about to commit; whoever owns the partition has nothing
\* unsettled behind it but that message.
MemberBehind(c) ==
  /\ reader[c].at # "idle" => \A i \in 1 .. reader[c].pos : Settled(i)
  /\ reader[c].at = "link" => booked[Held(c)] > 0
  /\ reader[c].at = "commit" => Settled(reader[c].pos + 1)
  /\ owner = c => \A i \in 1 .. reader[c].next :
                    \/ Settled(i)
                    \/ reader[c].at # "idle" /\ i = reader[c].pos + 1

CommittedBehind ==
  /\ committed >= 0
  /\ \A i \in 1 .. committed : Settled(i)

Progress == CommittedBehind /\ \A c \in Consumer : MemberBehind(c)

\* Nothing a step does is ever taken back.
LEMMA Grows ==
  ASSUME ConsumerTypeOK, [ConsumerStep]_vars
  PROVE  /\ \A i \in 1 .. Len(log) : log'[i] = log[i]
         /\ \A e \in Event : booked[e] <= booked'[e]
         /\ linked \subseteq linked' /\ unlinked \subseteq unlinked'
         /\ dlq \subseteq dlq' /\ dropped \subseteq dropped'
<1>1. \A i \in 1 .. Len(log) : log'[i] = log[i]
  <2>1. ASSUME NEW e \in Event, Arrive(e), NEW i \in 1 .. Len(log)
        PROVE  log'[i] = log[i]
    BY <2>1 DEF Arrive, ConsumerTypeOK
  <2>2. CASE log' = log
    BY <2>2
  <2>3. QED
    BY <2>1, <2>2
       DEF ConsumerStep, ConsumerNext, MemberNext, ReaderStep, vars,
           CloseOrReopen, Assign, ConsumerCrash, FetchMessage, Ignore, Reject,
           ResolveWindow, CheckProcessed, InsertEntry, InsertDuplicate, Link,
           LinkFails, HandlerFails, ToDLQ, ToDLQFails, Commit, CommitFails
<1>2. \A e \in Event : booked[e] <= booked'[e]
  <2>1. ASSUME NEW c \in Consumer, InsertEntry(c), NEW e \in Event
        PROVE  booked[e] <= booked'[e]
    BY <2>1, HeldIsEvent DEF InsertEntry, ConsumerTypeOK
  <2>2. CASE booked' = booked
    BY <2>2 DEF ConsumerTypeOK
  <2>3. QED
    BY <2>1, <2>2
       DEF ConsumerStep, ConsumerNext, MemberNext, ReaderStep, vars, Arrive,
           CloseOrReopen, Assign, ConsumerCrash, FetchMessage, Ignore, Reject,
           ResolveWindow, CheckProcessed, InsertDuplicate, Link, LinkFails,
           HandlerFails, ToDLQ, ToDLQFails, Commit, CommitFails
<1>3. /\ linked \subseteq linked' /\ unlinked \subseteq unlinked'
      /\ dlq \subseteq dlq' /\ dropped \subseteq dropped'
  BY DEF ConsumerStep, ConsumerNext, MemberNext, ReaderStep, vars, Arrive,
         CloseOrReopen, Assign, ConsumerCrash, FetchMessage, Ignore, Reject,
         ResolveWindow, CheckProcessed, InsertEntry, InsertDuplicate, Link,
         LinkFails, HandlerFails, ToDLQ, ToDLQFails, Commit, CommitFails
<1>4. QED
  BY <1>1, <1>2, <1>3

\* What is settled stays settled.
LEMMA SettledStays ==
  ASSUME ConsumerTypeOK, ConsumerTypeOK', [ConsumerStep]_vars,
         NEW i \in 1 .. Len(log), Settled(i)
  PROVE  Settled(i)'
<1>1. log[i] \in Event /\ log'[i] = log[i]
  BY Grows DEF ConsumerTypeOK
<1>2. booked[log[i]] > 0 => booked'[log[i]] > 0
  <2>1. booked[log[i]] \in Nat /\ booked'[log[i]] \in Nat
    BY <1>1 DEF ConsumerTypeOK
  <2>2. booked[log[i]] <= booked'[log[i]]
    BY <1>1, Grows
  <2>3. QED
    BY <2>1, <2>2
<1>3. Disposed(log[i]) => Disposed(log[i])'
  BY <1>1, Grows DEF Disposed
<1>4. QED
  BY <1>1, <1>2, <1>3, Grows DEF Settled, Disposed

\* A member that does not move keeps what is behind it.
LEMMA MemberStays ==
  ASSUME ConsumerTypeOK, ConsumerTypeOK', [ConsumerStep]_vars,
         NEW k \in Consumer, MemberBehind(k),
         reader'[k] = reader[k], owner' = k => owner = k
  PROVE  MemberBehind(k)'
<1>1. /\ reader[k] \in Reader /\ Len(log) \in Nat
      /\ reader[k].next <= Len(log)
      /\ reader[k].at # "idle" => reader[k].pos < Len(log)
  BY DEF ConsumerTypeOK
<1>2. reader[k].at # "idle" =>
        /\ Held(k) \in Event /\ Held(k)' = Held(k)
        /\ booked[Held(k)] > 0 => booked'[Held(k)] > 0
  BY <1>1, HeldIsEvent, Grows DEF Held, ConsumerTypeOK
<1>3. \A i \in 1 .. Len(log) : Settled(i) => Settled(i)'
  BY SettledStays
<1>4. reader'[k].at # "idle" => \A i \in 1 .. reader'[k].pos : Settled(i)'
  BY <1>1, <1>3 DEF MemberBehind, Reader
<1>5. reader'[k].at = "link" => booked'[Held(k)'] > 0
  BY <1>1, <1>2 DEF MemberBehind
<1>6. reader'[k].at = "commit" => Settled(reader[k].pos + 1)'
  BY <1>1, <1>3 DEF MemberBehind, Reader
<1>7. owner' = k => \A i \in 1 .. reader'[k].next :
                      \/ Settled(i)'
                      \/ reader'[k].at # "idle" /\ i = reader'[k].pos + 1
  BY <1>1, <1>3 DEF MemberBehind, Reader
<1>8. QED
  BY <1>4, <1>5, <1>6, <1>7 DEF MemberBehind, Settled, Held

\* A busy member that goes to another step of the same message keeps what is
\* behind it, when it brings what that step needs.
LEMMA MemberMoves ==
  ASSUME ConsumerTypeOK, ConsumerTypeOK', [ConsumerStep]_vars,
         NEW c \in Consumer, MemberBehind(c), reader[c].at # "idle",
         reader'[c].pos = reader[c].pos, reader'[c].next = reader[c].next,
         owner' = c => owner = c,
         reader'[c].at = "link" => booked'[Held(c)] > 0,
         reader'[c].at = "commit" => Settled(reader[c].pos + 1)',
         reader'[c].at = "idle" =>
           owner' # c \/ Settled(reader[c].pos + 1)'
  PROVE  MemberBehind(c)'
<1>1. /\ reader[c] \in Reader /\ Len(log) \in Nat
      /\ reader[c].next <= Len(log) /\ reader[c].pos < Len(log)
      /\ Held(c)' = Held(c)
  BY HeldIsEvent, Grows DEF ConsumerTypeOK, Held
<1>2. \A i \in 1 .. Len(log) : Settled(i) => Settled(i)'
  BY SettledStays
<1>3. \A i \in 1 .. reader[c].pos : Settled(i)'
  BY <1>1, <1>2 DEF MemberBehind, Reader
<1>4. owner' = c => \A i \in 1 .. reader[c].next :
                      Settled(i)' \/ i = reader[c].pos + 1
  BY <1>1, <1>2 DEF MemberBehind, Reader
<1>5. owner' = c => \A i \in 1 .. reader[c].next :
                      \/ Settled(i)'
                      \/ reader'[c].at # "idle" /\ i = reader[c].pos + 1
  BY <1>4
<1>6. QED
  BY <1>1, <1>3, <1>5 DEF MemberBehind, Settled, Held

\* The members a step of c does not move.
LEMMA OthersStay ==
  ASSUME ConsumerTypeOK, ConsumerTypeOK', [ConsumerStep]_vars,
         NEW c \in Consumer, \A k \in Consumer : MemberBehind(k),
         \A k \in Consumer \ {c} :
           reader'[k] = reader[k] /\ (owner' = k => owner = k)
  PROVE  \A k \in Consumer \ {c} : MemberBehind(k)'
BY MemberStays

\* As long as committed stays, so does all that is settled below it.
LEMMA CommittedStays ==
  ASSUME ConsumerTypeOK, ConsumerTypeOK', [ConsumerStep]_vars,
         CommittedBehind, committed' = committed
  PROVE  CommittedBehind'
<1>1. committed \in Nat /\ Len(log) \in Nat /\ committed <= Len(log)
  BY DEF ConsumerTypeOK, CommittedBehind
<1>2. \A i \in 1 .. committed : Settled(i)'
  BY <1>1, SettledStays DEF CommittedBehind
<1>3. QED
  BY <1>1, <1>2 DEF CommittedBehind

\* Where a step inside one message takes its member, and with what.
LEMMA StepBrings ==
  ASSUME ConsumerTypeOK, ConsumerTypeOK', NEW c \in Consumer, MemberBehind(c),
         \/ Ignore(c) \/ Reject(c) \/ ResolveWindow(c) \/ CheckProcessed(c)
         \/ InsertEntry(c) \/ InsertDuplicate(c) \/ Link(c) \/ LinkFails(c)
         \/ HandlerFails(c) \/ ToDLQ(c) \/ ToDLQFails(c) \/ CommitFails(c)
  PROVE  /\ reader[c].at # "idle"
         /\ reader'[c].pos = reader[c].pos /\ reader'[c].next = reader[c].next
         /\ \A k \in Consumer \ {c} : reader'[k] = reader[k]
         /\ owner' = owner /\ committed' = committed /\ log' = log
         /\ reader'[c].at = "link" => booked'[Held(c)] > 0
         /\ reader'[c].at = "commit" => Settled(reader[c].pos + 1)'
         /\ reader'[c].at = "idle" => Settled(reader[c].pos + 1)'
<1>1. ASSUME NEW at, Goto(c, at)
      PROVE  /\ reader'[c].at = at
             /\ reader'[c].pos = reader[c].pos /\ reader'[c].next = reader[c].next
             /\ \A k \in Consumer \ {c} : reader'[k] = reader[k]
  BY <1>1 DEF Goto, ConsumerTypeOK, Reader
<1>2. ASSUME Retry(c)
      PROVE  /\ reader'[c].at \in {"handle", "dlq"}
             /\ reader'[c].pos = reader[c].pos /\ reader'[c].next = reader[c].next
             /\ \A k \in Consumer \ {c} : reader'[k] = reader[k]
  BY <1>2 DEF Retry, ConsumerTypeOK, Reader
<1>3. CASE Ignore(c)
  BY <1>1, <1>3 DEF Ignore, Settled, Disposed, Held
<1>4. CASE Reject(c)
  BY <1>1, <1>4 DEF Reject
<1>5. CASE CheckProcessed(c) \/ InsertDuplicate(c)
  <2>1. CASE booked[Held(c)] > 0
    BY <1>1, <1>5, <2>1 DEF CheckProcessed, InsertDuplicate
  <2>2. CASE ~ (booked[Held(c)] > 0)
    BY <1>1, <1>5, <2>2 DEF CheckProcessed, InsertDuplicate
  <2>3. QED
    BY <2>1, <2>2
<1>6. CASE ResolveWindow(c) \/ HandlerFails(c)
  BY <1>1, <1>2, <1>6 DEF ResolveWindow, HandlerFails
<1>7. CASE InsertEntry(c)
  <2>1. Held(c) \in Event
    BY <1>7, HeldIsEvent DEF InsertEntry
  <2>2. booked'[Held(c)] > 0
    BY <1>7, <2>1 DEF InsertEntry, ConsumerTypeOK
  <2>3. QED
    BY <1>1, <1>2, <1>7, <2>2 DEF InsertEntry
<1>8. CASE Link(c) \/ LinkFails(c)
  <2>1. booked[log[reader[c].pos + 1]] > 0
    BY <1>8 DEF Link, LinkFails, MemberBehind, Held
  <2>2. Settled(reader[c].pos + 1)'
    BY <1>1, <1>8, <2>1 DEF Link, LinkFails, Settled, Held
  <2>3. QED
    BY <1>1, <1>8, <2>2 DEF Link, LinkFails
<1>9. CASE ToDLQ(c) \/ ToDLQFails(c)
  <2>1. Settled(reader[c].pos + 1)'
    BY <1>1, <1>9 DEF ToDLQ, ToDLQFails, Settled, Disposed, Held
  <2>2. QED
    BY <1>1, <1>9, <2>1 DEF ToDLQ, ToDLQFails
<1>10. CASE CommitFails(c)
  <2>1. Settled(reader[c].pos + 1)'
    BY <1>1, <1>10 DEF CommitFails, MemberBehind, Settled, Disposed
  <2>2. QED
    BY <1>1, <1>10, <2>1 DEF CommitFails
<1>11. QED
  BY <1>3, <1>4, <1>5, <1>6, <1>7, <1>8, <1>9, <1>10

\* Every step keeps the invariant.
LEMMA ProgressStep ==
  ASSUME ConsumerTypeOK, ConsumerTypeOK', Progress, [ConsumerStep]_vars
  PROVE  Progress'
<1>0. /\ CommittedBehind /\ \A c \in Consumer : MemberBehind(c)
      /\ reader \in [Consumer -> Reader] /\ Nobody \notin Consumer
  BY ConsumerAssumption DEF Progress, ConsumerTypeOK
<1>1. CASE reader' = reader /\ owner' = owner /\ committed' = committed
  BY <1>0, <1>1, MemberStays, CommittedStays DEF Progress
<1>2. ASSUME NEW c \in Consumer, Assign(c) PROVE Progress'
  <2>1. CommittedBehind'
    BY <1>0, <1>2, CommittedStays DEF Assign
  <2>2. reader' = [reader EXCEPT ![c].next = committed] /\ owner' = c
    <3>1. committed # -1
      BY <1>0 DEF CommittedBehind
    <3>2. QED
      BY <1>2, <3>1 DEF Assign
  <2>3. \A k \in Consumer \ {c} : MemberBehind(k)'
    BY <1>0, <2>2, OthersStay
  <2>4. MemberBehind(c)'
    <3>1. /\ reader'[c].at = reader[c].at /\ reader'[c].pos = reader[c].pos
          /\ reader'[c].next = committed
          /\ committed' = committed /\ log' = log /\ booked' = booked
          /\ linked' = linked /\ unlinked' = unlinked
          /\ dlq' = dlq /\ dropped' = dropped
      BY <1>0, <1>2, <2>2 DEF Assign, Reader
    <3>2. QED
      BY <1>0, <2>1, <3>1
         DEF MemberBehind, CommittedBehind, Settled, Disposed, Held
  <2>5. QED
    BY <2>1, <2>3, <2>4 DEF Progress
<1>3. ASSUME NEW c \in Consumer, ConsumerCrash(c) PROVE Progress'
  <2>1. CommittedBehind'
    BY <1>0, <1>3, CommittedStays DEF ConsumerCrash
  <2>2. /\ reader'[c].at = "idle" /\ owner' # c
        /\ \A k \in Consumer \ {c} :
             reader'[k] = reader[k] /\ (owner' = k => owner = k)
    BY <1>0, <1>3 DEF ConsumerCrash, Goto, Reader
  <2>3. QED
    BY <1>0, <2>1, <2>2, OthersStay DEF Progress, MemberBehind
<1>4. ASSUME NEW c \in Consumer, FetchMessage(c) PROVE Progress'
  <2>1. CommittedBehind'
    BY <1>0, <1>4, CommittedStays DEF FetchMessage
  <2>2. /\ reader[c].at = "idle" /\ owner = c /\ owner' = owner
        /\ reader'[c].at = "handle" /\ reader'[c].pos = reader[c].next
        /\ reader'[c].next = reader[c].next + 1
        /\ reader[c].next \in Nat /\ reader[c].next < Len(log)
        /\ \A k \in Consumer \ {c} : reader'[k] = reader[k]
    BY <1>0, <1>4 DEF FetchMessage, Reader
  <2>3. \A i \in 1 .. reader[c].next : Settled(i)'
    <3>1. \A i \in 1 .. reader[c].next : Settled(i) /\ i \in 1 .. Len(log)
      <4>1. Len(log) \in Nat
        BY DEF ConsumerTypeOK
      <4>2. \A i \in 1 .. reader[c].next : Settled(i)
        BY <1>0, <2>2 DEF MemberBehind
      <4>3. QED
        BY <2>2, <4>1, <4>2
    <3>2. QED
      BY <3>1, SettledStays
  <2>4. \A i \in 1 .. reader'[c].next :
          Settled(i)' \/ i = reader'[c].pos + 1
    BY <2>2, <2>3
  <2>5. MemberBehind(c)'
    BY <2>2, <2>3, <2>4 DEF MemberBehind
  <2>6. QED
    BY <1>0, <2>1, <2>2, <2>5, OthersStay DEF Progress
<1>5. ASSUME NEW c \in Consumer,
             \/ Ignore(c) \/ Reject(c) \/ ResolveWindow(c) \/ CheckProcessed(c)
             \/ InsertEntry(c) \/ InsertDuplicate(c) \/ Link(c) \/ LinkFails(c)
             \/ HandlerFails(c) \/ ToDLQ(c) \/ ToDLQFails(c) \/ CommitFails(c)
      PROVE  Progress'
  <2>1. /\ MemberBehind(c)'
        /\ owner' = owner /\ committed' = committed
        /\ \A k \in Consumer \ {c} : reader'[k] = reader[k]
    BY <1>0, <1>5, StepBrings, MemberMoves
  <2>2. QED
    BY <1>0, <2>1, OthersStay, CommittedStays DEF Progress
<1>6. ASSUME NEW c \in Consumer, Commit(c) PROVE Progress'
  <2>1. /\ reader[c].at = "commit" /\ reader'[c].at = "idle"
        /\ reader'[c].pos = reader[c].pos /\ reader'[c].next = reader[c].next
        /\ owner' = owner
        /\ \A k \in Consumer \ {c} : reader'[k] = reader[k]
    BY <1>0, <1>6 DEF Commit, Goto, Reader
  <2>2. /\ reader[c].pos \in Nat /\ reader[c].pos + 1 \in 1 .. Len(log)
        /\ Settled(reader[c].pos + 1)
        /\ \A i \in 1 .. reader[c].pos : Settled(i)
    BY <1>0, <2>1, HeldIsEvent DEF MemberBehind, Reader
  <2>3. \A i \in 1 .. reader[c].pos + 1 : Settled(i) /\ i \in 1 .. Len(log)
    BY <2>2 DEF ConsumerTypeOK
  <2>4. \A i \in 1 .. reader[c].pos + 1 : Settled(i)'
    BY <2>3, SettledStays
  <2>5. CommittedBehind'
    <3>1. CASE owner = c
      BY <1>6, <2>2, <2>4, <3>1 DEF Commit, CommittedBehind
    <3>2. CASE owner # c
      BY <1>0, <1>6, <3>2, CommittedStays DEF Commit
    <3>3. QED
      BY <3>1, <3>2
  <2>6. Settled(reader[c].pos + 1)'
    BY <2>1, <2>2, <2>4
  <2>7. MemberBehind(c)'
    BY <1>0, <2>1, <2>6, MemberMoves
  <2>8. QED
    BY <1>0, <2>1, <2>5, <2>7, OthersStay DEF Progress
<1>7. QED
  BY <1>1, <1>2, <1>3, <1>4, <1>5, <1>6
     DEF ConsumerStep, ConsumerNext, MemberNext, ReaderStep, vars, Arrive,
         CloseOrReopen

\* A message is committed only when it is done with: booked and its link tried,
\* ignored, dead-lettered or dropped, whichever member commits and whatever
\* crashed before (Run).
THEOREM CommitsWhatIsDone == ConsumerSpec => []CommittedIsDone
<1>1. CASE FreshGroup
  BY <1>1, PTL DEF CommittedIsDone, CommittedIsAnswered, CommittedIsLinked
<1>2. CASE ~ FreshGroup
  <2>1. Init => Progress
    BY <1>2 DEF Init, ConsumerInit, Progress, CommittedBehind, MemberBehind
  <2>2. ConsumerTypeOK /\ ConsumerTypeOK' /\ Progress /\ [ConsumerStep]_vars
          => Progress'
    BY ProgressStep
  <2>3. Progress => CommittedIsDone
    BY DEF Progress, CommittedBehind, CommittedIsDone, CommittedIsAnswered,
           CommittedIsLinked, Settled, Answered
  <2>4. QED
    BY <2>1, <2>2, <2>3, ConsumerTypeCorrect, PTL DEF ConsumerSpec, ConsumerStep
<1>3. QED
  BY <1>1, <1>2
=============================================================================
