--------------------------- MODULE JournalProofs ---------------------------
(* Theorems about Journal for every set of ids, months and amounts.         *)
EXTENDS Journal, TLAPS

\* Every row a transaction writes is a well-formed row.
LEMMA RowTypes ==
  /\ Unused \in EntryRow /\ DeletedRow \in EntryRow
  /\ \A s \in Source \cup {NoSource}, d \in Doc \cup {NoDoc}, p \in Period,
        a \in Amount : DraftRow(s, d, p, a) \in EntryRow
  /\ \A ev \in Event, p \in Period, a \in Amount :
        BookedRow(ev, p, a) \in EntryRow
BY PeriodAssumption, AmountAssumption
   DEF Unused, DeletedRow, DraftRow, BookedRow, EntryRow, Status, Source, Period

LEMMA IdleTypes == Idle \in Booking /\ IdleCall \in Call
BY PeriodAssumption DEF Idle, IdleCall, Booking, Call, Period

\* Every step keeps the journal's variables well formed.
LEMMA TypeOKStep == ASSUME TypeOK, [Next]_vars PROVE TypeOK'
<1> USE DEF TypeOK
<1>1. CASE NextMonth
  BY <1>1, PeriodAssumption DEF NextMonth, Period
<1>2. ASSUME NEW e \in Entry, NEW s \in Run \cup {NoSource},
             NEW d \in Doc \cup {NoDoc}, NEW p \in Period, NEW a \in Amount,
             CreateDraft(e, s, d, p, a)
      PROVE  TypeOK'
  BY <1>2, RowTypes DEF CreateDraft, Source
<1>3. ASSUME NEW e \in Entry, BeginPost(e) PROVE TypeOK'
  BY <1>3 DEF BeginPost
<1>4. ASSUME NEW e \in Entry, CommitPost(e) PROVE TypeOK'
  BY <1>4 DEF CommitPost, EntryRow, Status, AuditRow
<1>5. ASSUME NEW e \in Entry, AbortPost(e) PROVE TypeOK'
  BY <1>5 DEF AbortPost
<1>6. ASSUME NEW e \in Entry, DeleteDraft(e) PROVE TypeOK'
  BY <1>6, RowTypes DEF DeleteDraft, Deleted
<1>7. ASSUME NEW e \in Entry, NEW m \in Entry, Reverse(e, m) PROVE TypeOK'
  BY <1>7 DEF Reverse, Reversed, Mirror, EntryRow, Status, AuditRow
<1>8. ASSUME NEW p \in Period, CountDrafts(p) \/ CommitClose(p) \/ Reopen(p)
      PROVE  TypeOK'
  BY <1>8 DEF CountDrafts, CommitClose, Reopen
<1>9. ASSUME NEW w \in Worker, NEW ev \in Event, ResolveWindow(w, ev)
      PROVE  TypeOK'
  BY <1>9, OccurredAssumption DEF ResolveWindow, Window, TxnPeriod,
                                  Booking
<1>10. ASSUME NEW w \in Worker, NEW e \in Entry, NEW a \in Amount,
              BookNew(w, e, a)
       PROVE  TypeOK'
  <2>1. booking[w].event \in Event /\ booking[w].period \in Period
    BY <1>10 DEF BookNew, Booking
  <2>2. QED
    BY <1>10, <2>1, RowTypes, IdleTypes DEF BookNew, AuditRow
<1>11. ASSUME NEW w \in Worker, BookDuplicate(w) \/ BookAbort(w) PROVE TypeOK'
  BY <1>11, IdleTypes DEF BookDuplicate, BookAbort, Booking
<1>12. ASSUME NEW c \in Caller, NEW d \in Doc, SupersedeList(c, d)
       PROVE  TypeOK'
  BY <1>12 DEF SupersedeList, DocEntries, Call
<1>13. ASSUME NEW c \in Caller, NEW e \in Entry, SupersedeDelete(c, e)
       PROVE  TypeOK'
  <2>1. entry' \in [Entry -> EntryRow]
    BY <1>13, RowTypes DEF SupersedeDelete, Deleted
  <2>2. superseding' \in [Caller -> Call]
    BY <1>13 DEF SupersedeDelete, DoneWith, Call
  <2>3. QED
    BY <1>13, <2>1, <2>2 DEF SupersedeDelete
<1>14. ASSUME NEW c \in Caller, NEW e \in Entry, NEW m \in Entry,
              SupersedeReverse(c, e, m)
       PROVE  TypeOK'
  <2>1. entry' \in [Entry -> EntryRow] /\ audit' \subseteq AuditRow
    BY <1>14 DEF SupersedeReverse, Reversed, Mirror, EntryRow, Status, AuditRow
  <2>2. superseding' \in [Caller -> Call]
    BY <1>14 DEF SupersedeReverse, DoneWith, Call
  <2>3. QED
    BY <1>14, <2>1, <2>2 DEF SupersedeReverse
<1>15. ASSUME NEW c \in Caller, NEW e \in Entry, SupersedeSkip(c, e)
       PROVE  TypeOK'
  BY <1>15 DEF SupersedeSkip, DoneWith, Call
<1>16. ASSUME NEW c \in Caller, SupersedeReturn(c) PROVE TypeOK'
  BY <1>16, IdleTypes DEF SupersedeReturn
<1>17. CASE UNCHANGED vars
  BY <1>17 DEF vars
<1>18. QED
  BY <1>1, <1>2, <1>3, <1>4, <1>5, <1>6, <1>7, <1>8, <1>9, <1>10, <1>11,
     <1>12, <1>13, <1>14, <1>15, <1>16, <1>17 DEF Next

\* The type invariant: the journal's variables always hold well-formed rows.
THEOREM TypeCorrect == Spec => []TypeOK
<1>1. Init => TypeOK
  BY PeriodAssumption, RowTypes, IdleTypes DEF Init, TypeOK, Period
<1>2. TypeOK /\ [Next]_vars => TypeOK'
  BY TypeOKStep
<1>3. QED
  BY <1>1, <1>2, PTL DEF Spec

-----------------------------------------------------------------------------
(* The inductive invariant of the ledger's rows: what the safety properties  *)
(* say of entry, processed and audit, and the shape of a row in each status. *)

RowShape ==
  \A e \in Entry :
    /\ entry[e].status \in {"unused", "deleted"} =>
         entry[e].source = NoSource /\ entry[e].reverses = NoEntry
    /\ entry[e].status = "draft" =>
         entry[e].source \notin Event /\ entry[e].reverses = NoEntry
    /\ entry[e].reverses # NoEntry =>
         entry[e].source = NoSource /\ entry[e].base = 0

RowInv == /\ RowShape
          /\ OneEntryPerSource
          /\ ProcessedIsBooked
          /\ OneReversalPerEntry
          /\ AuditTellsStatus

\* A draft takes an unused id and, if it names a source, one nobody has.
LEMMA DraftKeepsRows ==
  ASSUME TypeOK, RowInv,
         NEW e \in Entry, NEW s \in Run \cup {NoSource},
         NEW d \in Doc \cup {NoDoc}, NEW p \in Period, NEW a \in Amount,
         CreateDraft(e, s, d, p, a)
  PROVE  RowInv'
<1>1. /\ entry[e].status = "unused"
      /\ s # NoSource => SourceFree(s)
      /\ entry'[e] = DraftRow(s, d, p, a)
      /\ \A x \in Entry : x # e => entry'[x] = entry[x]
      /\ processed' = processed /\ audit' = audit
  BY DEF CreateDraft, TypeOK
<1>2. RowShape'
  BY <1>1, SourceAssumption, SentinelAssumption
     DEF RowInv, RowShape, DraftRow, Source
<1>3. OneEntryPerSource'
  BY <1>1 DEF RowInv, OneEntryPerSource, Exists, SourceFree, DraftRow
<1>4. ProcessedIsBooked'
  BY <1>1 DEF RowInv, ProcessedIsBooked, Booked, DraftRow
<1>5. OneReversalPerEntry'
  BY <1>1, SentinelAssumption
     DEF RowInv, RowShape, OneReversalPerEntry, DraftRow
<1>6. AuditTellsStatus'
  <2> SUFFICES ASSUME NEW x \in Entry PROVE AuditTells(x)'
    BY DEF AuditTellsStatus
  <2>1. AuditTells(x)
    BY DEF RowInv, AuditTellsStatus
  <2>2. QED
    BY <1>1, <2>1 DEF AuditTells, Booked, DraftRow
<1>7. QED
  BY <1>2, <1>3, <1>4, <1>5, <1>6 DEF RowInv

\* Posting changes the status of one draft, which no bus event has.
LEMMA PostKeepsRows ==
  ASSUME TypeOK, RowInv, NEW e \in Entry, CommitPost(e)
  PROVE  RowInv'
<1>1. /\ entry[e].status = "draft"
      /\ entry'[e].status = "posted"
      /\ entry'[e].source = entry[e].source
      /\ entry'[e].reverses = entry[e].reverses
      /\ entry'[e].base = entry[e].base
  BY DEF CommitPost, TypeOK, EntryRow
<1>2. /\ \A x \in Entry : x # e => entry'[x] = entry[x]
      /\ processed' = processed /\ audit' = audit \cup {<<"posted", e>>}
  BY DEF CommitPost, TypeOK
<1>3. RowShape'
  BY <1>1, <1>2 DEF RowInv, RowShape
<1>4. OneEntryPerSource'
  BY <1>1, <1>2 DEF RowInv, OneEntryPerSource, Exists
<1>5. ProcessedIsBooked'
  BY <1>1, <1>2 DEF RowInv, RowShape, ProcessedIsBooked, Booked
<1>6. OneReversalPerEntry'
  BY <1>1, <1>2 DEF RowInv, OneReversalPerEntry
<1>7. AuditTellsStatus'
  <2> SUFFICES ASSUME NEW x \in Entry PROVE AuditTells(x)'
    BY DEF AuditTellsStatus
  <2>1. AuditTells(x)
    BY DEF RowInv, AuditTellsStatus
  <2>2. CASE x = e
    BY <1>1, <1>2, <2>1, <2>2 DEF RowInv, RowShape, AuditTells, Booked
  <2>3. CASE x # e
    BY <1>2, <2>1, <2>3 DEF AuditTells, Booked
  <2>4. QED
    BY <2>2, <2>3
<1>8. QED
  BY <1>3, <1>4, <1>5, <1>6, <1>7 DEF RowInv

\* Deleting a draft frees its source and touches nothing that was booked.
LEMMA DeleteKeepsRows ==
  ASSUME TypeOK, RowInv, NEW e \in Entry, Deleted(e),
         UNCHANGED << processed, audit >>
  PROVE  RowInv'
<1>1. /\ entry[e].status = "draft"
      /\ entry'[e] = DeletedRow
      /\ \A x \in Entry : x # e => entry'[x] = entry[x]
  BY DEF Deleted, TypeOK
<1>2. RowShape'
  BY <1>1 DEF RowInv, RowShape, DeletedRow
<1>3. OneEntryPerSource'
  BY <1>1 DEF RowInv, OneEntryPerSource, Exists, DeletedRow
<1>4. ProcessedIsBooked'
  BY <1>1 DEF RowInv, ProcessedIsBooked, Booked, DeletedRow
<1>5. OneReversalPerEntry'
  BY <1>1, SentinelAssumption
     DEF RowInv, RowShape, OneReversalPerEntry, DeletedRow
<1>6. AuditTellsStatus'
  <2> SUFFICES ASSUME NEW x \in Entry PROVE AuditTells(x)'
    BY DEF AuditTellsStatus
  <2>1. AuditTells(x)
    BY DEF RowInv, AuditTellsStatus
  <2>2. QED
    BY <1>1, <2>1 DEF AuditTells, Booked, DeletedRow
<1>7. QED
  BY <1>2, <1>3, <1>4, <1>5, <1>6 DEF RowInv

\* Reversing takes a posted entry out and puts its one mirror in.
LEMMA ReverseKeepsRows ==
  ASSUME TypeOK, RowInv, NEW e \in Entry, NEW m \in Entry, Reversed(e, m),
         processed' = processed
  PROVE  RowInv'
<1>1. /\ entry[e].status = "posted" /\ entry[m].status = "unused" /\ e # m
      /\ entry'[e].status = "reversed"
      /\ entry'[e].source = entry[e].source
      /\ entry'[e].reverses = entry[e].reverses
      /\ entry'[e].base = entry[e].base
  BY DEF Reversed, TypeOK, EntryRow
<1>2. /\ entry'[m].status = "posted"
      /\ entry'[m].source = NoSource
      /\ entry'[m].reverses = e
      /\ entry'[m].base = 0
  BY <1>1 DEF Reversed, Mirror, TypeOK
<1>3. /\ \A x \in Entry : x \notin {e, m} => entry'[x] = entry[x]
      /\ audit' = audit \cup {<<"reversed", e>>}
  BY DEF Reversed, TypeOK
<1>4. RowShape'
  BY <1>1, <1>2, <1>3 DEF RowInv, RowShape
<1>5. OneEntryPerSource'
  BY <1>1, <1>2, <1>3 DEF RowInv, OneEntryPerSource, Exists
<1>6. ProcessedIsBooked'
  BY <1>1, <1>2, <1>3, SentinelAssumption
     DEF RowInv, RowShape, ProcessedIsBooked, Booked, Source
<1>7. OneReversalPerEntry'
  <2>1. \A x \in Entry : entry[x].reverses # e
    BY <1>1 DEF RowInv, OneReversalPerEntry
  <2>2. entry[m].reverses = NoEntry
    BY <1>1 DEF RowInv, RowShape
  <2>3. QED
    BY <1>1, <1>2, <1>3, <2>1, <2>2, SentinelAssumption
       DEF RowInv, OneReversalPerEntry
<1>8. AuditTellsStatus'
  <2> SUFFICES ASSUME NEW x \in Entry PROVE AuditTells(x)'
    BY DEF AuditTellsStatus
  <2>1. AuditTells(x)
    BY DEF RowInv, AuditTellsStatus
  <2>2. CASE x = e
    BY <1>1, <1>3, <2>1, <2>2 DEF AuditTells, Booked
  <2>3. CASE x = m
    BY <1>1, <1>2, <1>3, <2>1, <2>3, SentinelAssumption DEF AuditTells, Booked
  <2>4. CASE x \notin {e, m}
    BY <1>3, <2>1, <2>4 DEF AuditTells, Booked
  <2>5. QED
    BY <2>2, <2>3, <2>4
<1>9. QED
  BY <1>4, <1>5, <1>6, <1>7, <1>8 DEF RowInv

\* A booking puts in one posted entry for an event that had none, and its mark.
LEMMA BookKeepsRows ==
  ASSUME TypeOK, RowInv, NEW w \in Worker, NEW e \in Entry, NEW a \in Amount,
         BookNew(w, e, a)
  PROVE  RowInv'
<1> DEFINE ev == booking[w].event
<1>1. /\ ev \in Event /\ ev # NoSource /\ SourceFree(ev)
      /\ processed' = processed \cup {ev}
  BY DEF BookNew, TypeOK, Booking
<1>2. /\ entry[e].status = "unused"
      /\ entry'[e].status = "posted"
      /\ entry'[e].source = ev
      /\ entry'[e].reverses = NoEntry
  BY DEF BookNew, TypeOK, BookedRow
<1>3. /\ \A x \in Entry : x # e => entry'[x] = entry[x]
      /\ audit' = audit \cup {<<"booked", e>>}
  BY DEF BookNew, TypeOK
<1> HIDE DEF ev
<1>4. RowShape'
  BY <1>2, <1>3 DEF RowInv, RowShape
<1>5. OneEntryPerSource'
  BY <1>1, <1>2, <1>3 DEF RowInv, OneEntryPerSource, Exists, SourceFree
<1>6. ProcessedIsBooked'
  BY <1>1, <1>2, <1>3 DEF RowInv, RowShape, ProcessedIsBooked, Booked
<1>7. OneReversalPerEntry'
  BY <1>2, <1>3, SentinelAssumption DEF RowInv, RowShape, OneReversalPerEntry
<1>8. AuditTellsStatus'
  <2> SUFFICES ASSUME NEW x \in Entry PROVE AuditTells(x)'
    BY DEF AuditTellsStatus
  <2>1. AuditTells(x)
    BY DEF RowInv, AuditTellsStatus
  <2>2. CASE x = e
    BY <1>2, <1>3, <2>1, <2>2 DEF AuditTells, Booked
  <2>3. CASE x # e
    BY <1>3, <2>1, <2>3 DEF AuditTells, Booked
  <2>4. QED
    BY <2>2, <2>3
<1>9. QED
  BY <1>4, <1>5, <1>6, <1>7, <1>8 DEF RowInv

\* The rows do not depend on anything but these three variables.
LEMMA StutterKeepsRows ==
  ASSUME RowInv, UNCHANGED << entry, processed, audit >>
  PROVE  RowInv'
BY DEF RowInv, RowShape, OneEntryPerSource, Exists, ProcessedIsBooked, Booked,
       OneReversalPerEntry, AuditTellsStatus, AuditTells

\* The row invariant holds in every reachable state.
LEMMA RowsCorrect == Spec => []RowInv
<1>1. Init => RowInv
  <2> SUFFICES ASSUME Init PROVE RowInv
    OBVIOUS
  <2>1. \A e \in Entry : entry[e] = Unused
    BY DEF Init
  <2>2. RowShape /\ OneEntryPerSource
    BY <2>1 DEF RowShape, OneEntryPerSource, Exists, Unused
  <2>3. ProcessedIsBooked
    BY <2>1 DEF Init, ProcessedIsBooked, Booked, Unused
  <2>4. OneReversalPerEntry
    BY <2>1, SentinelAssumption DEF OneReversalPerEntry, Unused
  <2>5. AuditTellsStatus
    BY <2>1 DEF Init, AuditTellsStatus, AuditTells, Booked, Unused
  <2>6. QED
    BY <2>2, <2>3, <2>4, <2>5 DEF RowInv
<1>2. TypeOK /\ RowInv /\ [Next]_vars => RowInv'
  <2> SUFFICES ASSUME TypeOK, RowInv, [Next]_vars PROVE RowInv'
    OBVIOUS
  <2>1. ASSUME NEW e \in Entry, NEW s \in Run \cup {NoSource},
               NEW d \in Doc \cup {NoDoc}, NEW p \in Period, NEW a \in Amount,
               CreateDraft(e, s, d, p, a)
        PROVE  RowInv'
    BY <2>1, DraftKeepsRows
  <2>2. ASSUME NEW e \in Entry, CommitPost(e) PROVE RowInv'
    BY <2>2, PostKeepsRows
  <2>3. ASSUME NEW e \in Entry, DeleteDraft(e) PROVE RowInv'
    BY <2>3, DeleteKeepsRows DEF DeleteDraft
  <2>4. ASSUME NEW e \in Entry, NEW m \in Entry, Reverse(e, m) PROVE RowInv'
    BY <2>4, ReverseKeepsRows DEF Reverse
  <2>5. ASSUME NEW w \in Worker, NEW e \in Entry, NEW a \in Amount,
               BookNew(w, e, a)
        PROVE  RowInv'
    BY <2>5, BookKeepsRows
  <2>6. ASSUME NEW c \in Caller, NEW e \in Entry, SupersedeDelete(c, e)
        PROVE  RowInv'
    BY <2>6, DeleteKeepsRows DEF SupersedeDelete
  <2>7. ASSUME NEW c \in Caller, NEW e \in Entry, NEW m \in Entry,
               SupersedeReverse(c, e, m)
        PROVE  RowInv'
    BY <2>7, ReverseKeepsRows DEF SupersedeReverse
  <2>8. CASE \/ NextMonth
             \/ \E e \in Entry : BeginPost(e) \/ AbortPost(e)
             \/ \E p \in Period : CountDrafts(p) \/ CommitClose(p) \/ Reopen(p)
             \/ \E w \in Worker : BookDuplicate(w) \/ BookAbort(w)
             \/ \E w \in Worker, ev \in Event : ResolveWindow(w, ev)
             \/ \E c \in Caller, d \in Doc : SupersedeList(c, d)
             \/ \E c \in Caller, e \in Entry : SupersedeSkip(c, e)
             \/ \E c \in Caller : SupersedeReturn(c)
             \/ UNCHANGED vars
    <3>1. UNCHANGED << entry, processed, audit >>
      BY <2>8 DEF NextMonth, BeginPost, AbortPost, CountDrafts, CommitClose,
                  Reopen, BookDuplicate, BookAbort, ResolveWindow,
                  SupersedeList, SupersedeSkip, SupersedeReturn, vars
    <3>2. QED
      BY <3>1, StutterKeepsRows
  <2>9. QED
    BY <2>1, <2>2, <2>3, <2>4, <2>5, <2>6, <2>7, <2>8 DEF Next
<1>3. QED
  BY <1>1, <1>2, TypeCorrect, PTL DEF Spec

-----------------------------------------------------------------------------
(* The safety properties.                                                    *)

\* One source event books at most one entry.
THEOREM BooksOncePerSource == Spec => []OneEntryPerSource
<1>1. RowInv => OneEntryPerSource
  BY DEF RowInv
<1>2. QED
  BY <1>1, RowsCorrect, PTL

\* No entry is reversed twice and none is marked reversed without its mirror.
THEOREM ReversedOnce == Spec => []OneReversalPerEntry
<1>1. RowInv => OneReversalPerEntry
  BY DEF RowInv
<1>2. QED
  BY <1>1, RowsCorrect, PTL

\* A reversed entry and its mirror cancel out in the reports.
THEOREM ReversalCancels == Spec => []ReversalNetsToZero
<1>1. TypeOK /\ RowInv => ReversalNetsToZero
  BY SentinelAssumption DEF RowInv, RowShape, ReversalNetsToZero, Reported
<1>2. QED
  BY <1>1, TypeCorrect, RowsCorrect, PTL

\* The audit chain tells each entry's status.
THEOREM AuditIsComplete == Spec => []AuditTellsStatus
<1>1. RowInv => AuditTellsStatus
  BY DEF RowInv
<1>2. QED
  BY <1>1, RowsCorrect, PTL

\* An event reported as done is booked, and only booked events are marked.
THEOREM HandledEventsAreBooked == Spec => []HandledIsBooked
<1>1. Init => handled \subseteq processed
  BY DEF Init
<1>2. TypeOK /\ RowInv /\ handled \subseteq processed /\ [Next]_vars
        => (handled \subseteq processed)'
  <2> SUFFICES ASSUME TypeOK, RowInv, handled \subseteq processed, [Next]_vars
               PROVE  (handled \subseteq processed)'
    OBVIOUS
  <2>1. ASSUME NEW w \in Worker, NEW e \in Entry, NEW a \in Amount,
               BookNew(w, e, a)
        PROVE  (handled \subseteq processed)'
    BY <2>1 DEF BookNew
  <2>2. ASSUME NEW w \in Worker, BookDuplicate(w)
        PROVE  (handled \subseteq processed)'
    <3>1. booking[w].event \in Event
      BY <2>2 DEF BookDuplicate, TypeOK, Booking
    <3>2. booking[w].event \in processed
      BY <2>2, <3>1 DEF BookDuplicate, SourceFree, Exists, Booked, RowInv,
                        RowShape, ProcessedIsBooked
    <3>3. QED
      BY <2>2, <3>2 DEF BookDuplicate
  <2>3. CASE UNCHANGED << handled, processed >>
    BY <2>3
  <2>4. QED
    BY <2>1, <2>2, <2>3 DEF Next, vars, NextMonth, CreateDraft, BeginPost,
       CommitPost, AbortPost, DeleteDraft, Reverse, CountDrafts, CommitClose,
       Reopen, ResolveWindow, BookAbort, SupersedeList, SupersedeDelete,
       SupersedeReverse, SupersedeSkip, SupersedeReturn
<1>3. RowInv /\ handled \subseteq processed => HandledIsBooked
  BY DEF RowInv, HandledIsBooked
<1>4. QED
  BY <1>1, <1>2, <1>3, TypeCorrect, RowsCorrect, PTL DEF Spec

\* The steps change a row only along draft -> posted -> reversed, or discard a
\* draft; a reversed or deleted row is final.
LEMMA RowMoves ==
  ASSUME TypeOK, [Next]_vars, NEW x \in Entry
  PROVE  \/ entry'[x] = entry[x]
         \/ entry[x].status = "unused" /\ entry'[x].status \in {"draft", "posted"}
         \/ /\ entry[x].status = "draft" /\ x \in posting
            /\ entry'[x] = [entry[x] EXCEPT !.status = "posted"]
         \/ /\ entry[x].status = "draft" /\ x \notin posting
            /\ entry'[x] = DeletedRow
         \/ /\ entry[x].status = "posted"
            /\ entry'[x] = [entry[x] EXCEPT !.status = "reversed"]
<1> USE DEF TypeOK
<1>1. ASSUME NEW e \in Entry, NEW m \in Entry, Reversed(e, m)
      PROVE  \/ entry'[x] = entry[x]
             \/ entry[x].status = "unused" /\ entry'[x].status = "posted"
             \/ /\ entry[x].status = "posted"
                /\ entry'[x] = [entry[x] EXCEPT !.status = "reversed"]
  <2>1. e # m /\ entry[e].status = "posted" /\ entry[m].status = "unused"
    BY <1>1 DEF Reversed
  <2>2. entry'[m].status = "posted"
    BY <1>1, <2>1 DEF Reversed, Mirror
  <2>3. entry'[e] = [entry[e] EXCEPT !.status = "reversed"]
    BY <1>1, <2>1 DEF Reversed
  <2>4. x \notin {e, m} => entry'[x] = entry[x]
    BY <1>1 DEF Reversed
  <2>5. QED
    BY <2>1, <2>2, <2>3, <2>4
<1>2. ASSUME NEW e \in Entry, Deleted(e)
      PROVE  \/ entry'[x] = entry[x]
             \/ /\ entry[x].status = "draft" /\ x \notin posting
                /\ entry'[x] = DeletedRow
  BY <1>2 DEF Deleted
<1>3. ASSUME NEW e \in Entry, CommitPost(e)
      PROVE  \/ entry'[x] = entry[x]
             \/ /\ entry[x].status = "draft" /\ x \in posting
                /\ entry'[x] = [entry[x] EXCEPT !.status = "posted"]
  BY <1>3 DEF CommitPost
<1>4. ASSUME NEW e \in Entry, NEW s \in Run \cup {NoSource},
             NEW d \in Doc \cup {NoDoc}, NEW p \in Period, NEW a \in Amount,
             CreateDraft(e, s, d, p, a)
      PROVE  \/ entry'[x] = entry[x]
             \/ entry[x].status = "unused" /\ entry'[x].status = "draft"
  BY <1>4 DEF CreateDraft, DraftRow
<1>5. ASSUME NEW w \in Worker, NEW e \in Entry, NEW a \in Amount,
             BookNew(w, e, a)
      PROVE  \/ entry'[x] = entry[x]
             \/ entry[x].status = "unused" /\ entry'[x].status = "posted"
  BY <1>5 DEF BookNew, BookedRow
<1>6. CASE entry' = entry
  BY <1>6
<1>7. QED
  BY <1>1, <1>2, <1>3, <1>4, <1>5, <1>6
     DEF Next, vars, NextMonth, BeginPost, AbortPost, DeleteDraft, Reverse,
         CountDrafts, CommitClose, Reopen, ResolveWindow, BookDuplicate,
         BookAbort, SupersedeList, SupersedeDelete, SupersedeReverse,
         SupersedeSkip, SupersedeReturn

\* A posted entry is never edited or discarded, whatever the requests do.
THEOREM PostedNeverEdited == Spec => PostedIsImmutable
<1>1. TypeOK /\ [Next]_vars =>
        \A e \in Entry :
          /\ entry[e].status = "posted" =>
               entry'[e] \in {entry[e], [entry[e] EXCEPT !.status = "reversed"]}
          /\ entry[e].status \in {"reversed", "deleted"} => entry'[e] = entry[e]
  <2> SUFFICES ASSUME TypeOK, [Next]_vars, NEW e \in Entry
               PROVE  /\ entry[e].status = "posted" =>
                           entry'[e] \in {entry[e],
                                          [entry[e] EXCEPT !.status = "reversed"]}
                      /\ entry[e].status \in {"reversed", "deleted"} =>
                           entry'[e] = entry[e]
    OBVIOUS
  <2>1. QED
    BY RowMoves
<1>2. QED
  BY <1>1, TypeCorrect, PTL DEF Spec, PostedIsImmutable

\* A post's row lock keeps its draft a draft until the post commits.
THEOREM PostLockHolds == Spec => []PostKeepsItsDraft
<1>1. Init => PostKeepsItsDraft
  BY DEF Init, PostKeepsItsDraft
<1>2. TypeOK /\ PostKeepsItsDraft /\ [Next]_vars => PostKeepsItsDraft'
  <2> SUFFICES ASSUME TypeOK, PostKeepsItsDraft, [Next]_vars,
                      NEW x \in posting'
               PROVE  entry'[x].status = "draft"
    BY DEF PostKeepsItsDraft
  <2>1. posting' \subseteq Entry
    <3>1. TypeOK'
      BY TypeOKStep
    <3>2. QED
      BY <3>1 DEF TypeOK
  <2>2. x \in Entry
    BY <2>1
  <2>3. CASE x \in posting
    <3>1. entry[x].status = "draft"
      BY <2>3 DEF PostKeepsItsDraft
    <3>2. ASSUME entry'[x] = [entry[x] EXCEPT !.status = "posted"]
          PROVE  FALSE
      <4>1. entry'[x].status = "posted"
        BY <3>2, <2>2 DEF TypeOK, EntryRow
      <4>2. entry' # entry
        BY <4>1, <3>1
      <4>3. \E e \in Entry : CommitPost(e) /\ e = x
        BY <4>1, <3>1, <2>2 DEF TypeOK, Next, vars, NextMonth, CreateDraft,
           DraftRow, BeginPost, CommitPost, AbortPost, DeleteDraft, Deleted,
           DeletedRow, Reverse, Reversed, Mirror, CountDrafts, CommitClose,
           Reopen, ResolveWindow, BookNew, BookedRow, BookDuplicate, BookAbort,
           SupersedeList, SupersedeDelete, SupersedeReverse, SupersedeSkip,
           SupersedeReturn
      <4>4. QED
        BY <4>3 DEF CommitPost
    <3>3. QED
      BY <2>2, <2>3, <3>1, <3>2, RowMoves
  <2>4. CASE x \notin posting
    <3>1. BeginPost(x)
      BY <2>4 DEF Next, vars, NextMonth, CreateDraft, BeginPost, CommitPost,
         AbortPost, DeleteDraft, Reverse, CountDrafts, CommitClose, Reopen,
         ResolveWindow, BookNew, BookDuplicate, BookAbort, SupersedeList,
         SupersedeDelete, SupersedeReverse, SupersedeSkip, SupersedeReturn
    <3>2. QED
      BY <3>1 DEF BeginPost
  <2>5. QED
    BY <2>3, <2>4
<1>3. QED
  BY <1>1, <1>2, TypeCorrect, PTL DEF Spec

\* What the supersedes list is stored, and what they are done with is dead.
CallInv ==
  \A c \in Caller, e \in Entry :
    /\ e \in superseding[c].listed => entry[e].status # "unused"
    /\ e \in superseding[c].listed /\ e \notin superseding[c].todo =>
         entry[e].status \in {"reversed", "deleted"}

\* A step leaves a caller's lists alone, starts or ends its call, or takes off
\* its list an entry that is dead afterwards.
LEMMA CallMoves ==
  ASSUME TypeOK, [Next]_vars, NEW c \in Caller
  PROVE  \/ superseding'[c] = superseding[c]
         \/ superseding'[c].listed = {}
         \/ /\ \A e \in superseding'[c].listed : e \in Entry /\ Live(e)
            /\ superseding'[c].todo = superseding'[c].listed
            /\ entry' = entry
         \/ \E e \in Entry :
              /\ superseding'[c].listed = superseding[c].listed
              /\ superseding'[c].todo = superseding[c].todo \ {e}
              /\ entry'[e].status \in {"reversed", "deleted"}
<1> USE DEF TypeOK
<1>1. ASSUME NEW k \in Caller, NEW d \in Doc, SupersedeList(k, d)
      PROVE  \/ superseding'[c] = superseding[c]
             \/ /\ \A e \in superseding'[c].listed : e \in Entry /\ Live(e)
                /\ superseding'[c].todo = superseding'[c].listed
                /\ entry' = entry
  BY <1>1 DEF SupersedeList, DocEntries
<1>2. ASSUME NEW k \in Caller, NEW e \in Entry, DoneWith(k, e)
      PROVE  \/ superseding'[c] = superseding[c]
             \/ /\ superseding'[c].listed = superseding[c].listed
                /\ superseding'[c].todo = superseding[c].todo \ {e}
  BY <1>2 DEF DoneWith, Call
<1>3. ASSUME NEW k \in Caller, NEW e \in Entry, SupersedeDelete(k, e)
      PROVE  DoneWith(k, e) /\ entry'[e].status = "deleted"
  BY <1>3 DEF SupersedeDelete, Deleted, DeletedRow
<1>4. ASSUME NEW k \in Caller, NEW e \in Entry, NEW m \in Entry,
             SupersedeReverse(k, e, m)
      PROVE  DoneWith(k, e) /\ entry'[e].status = "reversed"
  BY <1>4 DEF SupersedeReverse, Reversed, EntryRow
<1>5. ASSUME NEW k \in Caller, NEW e \in Entry, SupersedeSkip(k, e)
      PROVE  DoneWith(k, e) /\ entry'[e].status = "reversed"
  BY <1>5 DEF SupersedeSkip
<1>6. ASSUME NEW k \in Caller, SupersedeReturn(k)
      PROVE  superseding'[c] = superseding[c] \/ superseding'[c].listed = {}
  BY <1>6 DEF SupersedeReturn, IdleCall
<1>7. CASE superseding' = superseding
  BY <1>7
<1> HIDE DEF TypeOK
<1>8. QED
  BY <1>1, <1>2, <1>3, <1>4, <1>5, <1>6, <1>7
     DEF Next, vars, NextMonth, CreateDraft, BeginPost, CommitPost, AbortPost,
         DeleteDraft, Reverse, CountDrafts, CommitClose, Reopen, ResolveWindow,
         BookNew, BookDuplicate, BookAbort

\* What a supersede has undone stays undone.
THEOREM SupersedeClears == Spec => []SupersededIsDead
<1>1. Init => CallInv
  BY DEF Init, CallInv, IdleCall
<1>2. TypeOK /\ CallInv /\ [Next]_vars => CallInv'
  <2> SUFFICES ASSUME TypeOK, CallInv, [Next]_vars,
                      NEW c \in Caller, NEW e \in Entry
               PROVE  /\ e \in superseding'[c].listed =>
                           entry'[e].status # "unused"
                      /\ e \in superseding'[c].listed /\ e \notin superseding'[c].todo =>
                           entry'[e].status \in {"reversed", "deleted"}
    BY DEF CallInv
  <2>1. /\ entry[e].status # "unused" => entry'[e].status # "unused"
        /\ entry[e].status \in {"reversed", "deleted"} => entry'[e] = entry[e]
    <3>1. \/ entry'[e] = entry[e]
          \/ entry[e].status \in {"unused", "draft", "posted"}
             /\ entry'[e].status # "unused"
      <4>1. entry[e] \in EntryRow
        BY DEF TypeOK
      <4>2. /\ [entry[e] EXCEPT !.status = "posted"].status = "posted"
            /\ [entry[e] EXCEPT !.status = "reversed"].status = "reversed"
            /\ DeletedRow.status = "deleted"
        BY <4>1 DEF EntryRow, DeletedRow
      <4>3. QED
        BY <4>2, RowMoves
    <3>2. QED
      BY <3>1
  <2>2. CASE superseding'[c] = superseding[c] \/ superseding'[c].listed = {}
    BY <2>1, <2>2 DEF CallInv
  <2>3. CASE /\ \A x \in superseding'[c].listed : x \in Entry /\ Live(x)
             /\ superseding'[c].todo = superseding'[c].listed
             /\ entry' = entry
    BY <2>3 DEF Live
  <2>4. ASSUME NEW x \in Entry,
               superseding'[c].listed = superseding[c].listed,
               superseding'[c].todo = superseding[c].todo \ {x},
               entry'[x].status \in {"reversed", "deleted"}
        PROVE  /\ e \in superseding'[c].listed =>
                    entry'[e].status # "unused"
               /\ e \in superseding'[c].listed /\ e \notin superseding'[c].todo =>
                    entry'[e].status \in {"reversed", "deleted"}
    <3>1. CASE e = x
      BY <2>4, <3>1
    <3>2. CASE e # x
      BY <2>1, <2>4, <3>2 DEF CallInv
    <3>3. QED
      BY <3>1, <3>2
  <2>5. QED
    BY <2>2, <2>3, <2>4, CallMoves
<1>3. CallInv /\ TypeOK => SupersededIsDead
  BY DEF CallInv, SupersededIsDead, Live, TypeOK, Call
<1>4. QED
  BY <1>1, <1>2, <1>3, TypeCorrect, PTL DEF Spec
=============================================================================
