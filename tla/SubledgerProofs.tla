-------------------------- MODULE SubledgerProofs --------------------------
(* Theorems about the services of Services that keep what is owed and what   *)
(* is held: open items, statements, payment intents and links, stock,        *)
(* approvals, fixed assets, recurring billing, provisions, the loss          *)
(* allowance, goods received.                                                *)
EXTENDS Services, FiniteInduction, Sequences

-----------------------------------------------------------------------------
(* Open items. *)

ItemsTypeOK ==
  /\ item \in [Doc -> Items!Item]
  /\ announced \in [Doc -> Nat] /\ writtenOff \in [Doc -> Nat]
  /\ control \in [Doc -> Int]
  /\ payment \in [Doc -> [Caller -> Nat]]
  /\ booked \subseteq Doc
  /\ notes \subseteq Items!NoteRequest
  /\ requests \subseteq Items!PayRequest \cup Items!NoteRequest
                          \cup Items!WriteOffRequest
  /\ IsFiniteSet(reversed)
  /\ \A x \in reversed : x.doc \in Doc /\ x.moved \in Int

\* Nothing was ever posted for a document that has had no item.
Untouched(d) ==
  item[d].status = "none" =>
    /\ control[d] = 0 /\ announced[d] = 0 /\ d \notin booked
    /\ \A r \in Caller : payment[d][r] = 0
    /\ \A n \in notes : n.doc # d
    /\ \A x \in reversed : x.doc # d

\* The parts of ItemsTie for one document.
PaidRight(d) ==
  /\ item[d].paid <= item[d].amount
  /\ item[d].paid = Items!Received(d)
  /\ ~ Items!Live(d) => item[d].amount = 0

ClosedRight(d) ==
  Items!Live(d) /\ Items!Owed(d) = 0 => item[d].status = "closed"

ControlRight(d) ==
  Items!Live(d) /\ writtenOff[d] = 0 /\ d \notin recreated =>
    control[d] + Items!Unbooked(d) + Items!Undone(d) = Items!Owed(d)

DocumentOK(d) ==
  Untouched(d) /\ PaidRight(d) /\ ClosedRight(d) /\ ControlRight(d)

\* A write-off under way is of something owed on an item that was there.
WriteOffsOK ==
  \A q \in requests :
    q.op = "writeoff" => item[q.doc].status # "none" /\ q.amount > 0

ItemsInv ==
  ItemsTypeOK /\ WriteOffsOK /\ \A d \in Doc : DocumentOK(d)

-----------------------------------------------------------------------------
\* The instance adds up as the library does.
LEMMA ItemsSum == ASSUME NEW f PROVE Items!SumFunction(f) = SumFunction(f)
BY DEF SumFunction, SumFunctionOnSet, FoldFunctionOnSet, MapThenFoldSet,
       Items!SumFunction, Items!SumFunctionOnSet, Items!FoldFunctionOnSet,
       Items!MapThenFoldSet

\* What a document's row and its sums are.
LEMMA ItemRow ==
  ASSUME Items!AmountsAssumption, ItemsTypeOK, NEW d \in Doc
  PROVE  /\ item[d].status \in Items!Status
         /\ item[d].amount \in Nat /\ item[d].paid \in Nat
         /\ control[d] \in Int /\ announced[d] \in Nat
         /\ payment[d] \in [Caller -> Nat]
         /\ Items!Undone(d) \in Int /\ Items!Unbooked(d) \in Nat
         /\ Items!Owed(d) \in Int
<1>1. item[d] \in Items!Item
  BY DEF ItemsTypeOK
<1>2. /\ item[d].status \in Items!Status
      /\ item[d].amount \in Nat /\ item[d].paid \in Nat
  BY <1>1 DEF Items!Item
<1>3. /\ control[d] \in Int /\ announced[d] \in Nat
      /\ payment[d] \in [Caller -> Nat]
  BY DEF ItemsTypeOK
<1>4. Items!Undone(d) \in Int
  <2> DEFINE T == { y \in reversed : y.doc = d }
             f == [x \in T |-> x.moved]
  <2>1. IsFiniteSet(T)
    BY FS_Subset DEF ItemsTypeOK
  <2>2. f \in [T -> Int]
    BY DEF ItemsTypeOK
  <2>3. SumFunction(f) \in Int
    <3> HIDE DEF T, f
    <3>1. QED
      BY <2>1, <2>2, SumType
  <2>4. QED
    BY <2>3, ItemsSum DEF Items!Undone
<1>5. QED
  BY <1>2, <1>3, <1>4 DEF Items!Unbooked, Items!Owed

\* A document no part of which changes stays as it should be.
SameDocument(d) ==
  /\ item'[d] = item[d] /\ announced'[d] = announced[d]
  /\ control'[d] = control[d] /\ payment'[d] = payment[d]
  /\ writtenOff'[d] = writtenOff[d]
  /\ d \in booked' <=> d \in booked
  /\ d \in recreated' <=> d \in recreated
  /\ \A n \in notes' : n.doc = d => n \in notes
  /\ { x \in reversed' : x.doc = d } = { x \in reversed : x.doc = d }

LEMMA SameDocumentKept ==
  ASSUME NEW d \in Doc, DocumentOK(d), SameDocument(d)
  PROVE  DocumentOK(d)'
<1>1. Untouched(d)'
  BY DEF DocumentOK, Untouched, SameDocument
<1>2. PaidRight(d)'
  BY DEF DocumentOK, PaidRight, SameDocument, Items!Received, Items!Live
<1>3. ClosedRight(d)'
  BY DEF DocumentOK, ClosedRight, SameDocument, Items!Live, Items!Owed
<1>4. Items!Undone(d)' = Items!Undone(d)
  <2>1. \A x \in { y \in reversed' : y.doc = d } : x \in { y \in reversed : y.doc = d }
    BY DEF SameDocument
  <2>2. [x \in { y \in reversed' : y.doc = d } |-> x.moved]
          = [x \in { y \in reversed : y.doc = d } |-> x.moved]
    BY DEF SameDocument
  <2>3. QED
    BY <2>2 DEF Items!Undone
<1>5. /\ Items!Unbooked(d)' = Items!Unbooked(d)
      /\ Items!Owed(d)' = Items!Owed(d)
      /\ Items!Live(d)' <=> Items!Live(d)
  BY DEF SameDocument, Items!Unbooked, Items!Owed, Items!Live
<1>6. ControlRight(d)'
  BY <1>4, <1>5 DEF DocumentOK, ControlRight, SameDocument
<1>7. QED
  BY <1>1, <1>2, <1>3, <1>6 DEF DocumentOK

\* The rows of one document change and those of the others stay.
LEMMA OneDocument ==
  ASSUME ItemsInv, NEW d \in Doc, ItemsTypeOK', WriteOffsOK', DocumentOK(d)',
         \A e \in Doc \ {d} : SameDocument(e)
  PROVE  ItemsInv'
<1>1. \A e \in Doc \ {d} : DocumentOK(e)'
  BY SameDocumentKept DEF ItemsInv
<1>2. QED
  BY <1>1 DEF ItemsInv

-----------------------------------------------------------------------------
(* The item itself. *)

LEMMA ItemStatuses ==
  ASSUME ItemsTypeOK, NEW d \in Doc, ~ Items!Live(d)
  PROVE  item[d].status \in {"none", "deleted"}
<1>1. item[d].status \in Items!Status
  BY DEF ItemsTypeOK, Items!Item
<1>2. QED
  BY <1>1 DEF Items!Live, Items!Status

LEMMA CreateItemKeeps ==
  ASSUME Items!AmountsAssumption, ItemsInv, NEW d \in Doc, NEW a \in Amount,
         Items!CreateItem(d, a)
  PROVE  ItemsInv'
<1> USE DEF ItemsInv
<1>1. a \in Nat /\ a > 0
  BY DEF Items!AmountsAssumption
<1>2. /\ ~ Items!Live(d)
      /\ item' = [item EXCEPT ![d] = [status |-> "open", amount |-> a, paid |-> 0]]
      /\ announced' = [announced EXCEPT ![d] = IF @ = 0 THEN a ELSE @]
      /\ recreated' = IF item[d].status = "deleted" THEN recreated \cup {d}
                                                    ELSE recreated
      /\ UNCHANGED << booked, control, payment, notes, reversed, writtenOff,
                      requests >>
  BY DEF Items!CreateItem
<1>3. /\ item'[d] = [status |-> "open", amount |-> a, paid |-> 0]
      /\ \A e \in Doc \ {d} : item'[e] = item[e]
      /\ announced'[d] = IF announced[d] = 0 THEN a ELSE announced[d]
      /\ \A e \in Doc \ {d} : announced'[e] = announced[e]
  BY <1>2 DEF ItemsTypeOK
<1>4. ItemsTypeOK'
  <2>1. item' \in [Doc -> Items!Item]
    BY <1>1, <1>2 DEF ItemsTypeOK, Items!Item, Items!Status
  <2>2. announced' \in [Doc -> Nat]
    BY <1>1, <1>2 DEF ItemsTypeOK
  <2>3. QED
    BY <1>2, <2>1, <2>2 DEF ItemsTypeOK
<1>5. WriteOffsOK'
  <2>1. \A q \in requests : q.doc \in Doc
    BY DEF ItemsTypeOK, Items!PayRequest, Items!NoteRequest, Items!WriteOffRequest
  <2>2. \A e \in Doc : item[e].status # "none" => item'[e].status # "none"
    BY <1>3
  <2>3. QED
    BY <1>2, <2>1, <2>2 DEF WriteOffsOK
<1>6. \A e \in Doc \ {d} : SameDocument(e)
  BY <1>2, <1>3 DEF SameDocument
<1>7. DocumentOK(d)'
  <2>1. item[d].paid = 0 /\ item[d].paid = Items!Received(d)
    BY <1>2, ItemRow DEF DocumentOK, PaidRight
  <2>2. Untouched(d)' /\ ClosedRight(d)'
    BY <1>1, <1>3 DEF Untouched, ClosedRight, Items!Owed
  <2>3. PaidRight(d)'
    BY <1>1, <1>2, <1>3, <2>1 DEF PaidRight, Items!Received, Items!Live
  <2>4. ControlRight(d)'
    <3>1. CASE item[d].status = "deleted"
      BY <1>2, <3>1 DEF ControlRight
    <3>2. CASE item[d].status = "none"
      <4>1. /\ control[d] = 0 /\ announced[d] = 0 /\ d \notin booked
            /\ \A x \in reversed : x.doc # d
        BY <3>2 DEF DocumentOK, Untouched
      <4>2. Items!Undone(d)' = 0
        <5>1. { y \in reversed' : y.doc = d } = {}
          BY <1>2, <4>1
        <5>2. [x \in { y \in reversed' : y.doc = d } |-> x.moved] \in [{} -> Int]
          BY <5>1
        <5> DEFINE f == [x \in { y \in reversed' : y.doc = d } |-> x.moved]
        <5>3. SumFunction(f) = 0
          <6> HIDE DEF f
          <6>1. f \in [{} -> Int]
            BY <5>2 DEF f
          <6>2. QED
            BY <6>1, SumEmpty
        <5>4. QED
          BY <5>3, ItemsSum DEF Items!Undone
      <4>3. Items!Unbooked(d)' = a
        BY <1>2, <1>3, <4>1 DEF Items!Unbooked
      <4>4. Items!Owed(d)' = a
        BY <1>1, <1>3 DEF Items!Owed
      <4>5. control'[d] = 0
        BY <1>2, <4>1
      <4>6. QED
        BY <1>1, <4>2, <4>3, <4>4, <4>5 DEF ControlRight
    <3>3. QED
      BY <1>2, <3>1, <3>2, ItemStatuses
  <2>5. QED
    BY <2>2, <2>3, <2>4 DEF DocumentOK
<1>8. QED
  BY <1>4, <1>5, <1>6, <1>7, OneDocument

LEMMA BookSaleKeeps ==
  ASSUME Items!AmountsAssumption, ItemsInv, NEW d \in Doc, Items!BookSale(d)
  PROVE  ItemsInv'
<1> USE DEF ItemsInv
<1>1. /\ announced[d] > 0 /\ d \notin booked
      /\ booked' = booked \cup {d}
      /\ control' = [control EXCEPT ![d] = @ + announced[d]]
      /\ UNCHANGED << item, announced, recreated, payment, notes, reversed,
                      writtenOff, requests >>
  BY DEF Items!BookSale
<1>2. /\ control'[d] = control[d] + announced[d]
      /\ \A e \in Doc \ {d} : control'[e] = control[e]
  BY <1>1 DEF ItemsTypeOK
<1>3. ItemsTypeOK'
  <2>1. control' \in [Doc -> Int]
    BY <1>1 DEF ItemsTypeOK
  <2>2. QED
    BY <1>1, <2>1 DEF ItemsTypeOK
<1>4. WriteOffsOK' /\ \A e \in Doc \ {d} : SameDocument(e)
  BY <1>1, <1>2 DEF WriteOffsOK, SameDocument
<1>5. DocumentOK(d)'
  <2>1. Untouched(d)'
    BY <1>1 DEF DocumentOK, Untouched, ItemsTypeOK
  <2>2. PaidRight(d)' /\ ClosedRight(d)'
    BY <1>1 DEF DocumentOK, PaidRight, ClosedRight, Items!Received,
                Items!Live, Items!Owed
  <2>3. ControlRight(d)'
    <3>1. /\ Items!Unbooked(d) = announced[d] /\ Items!Unbooked(d)' = 0
          /\ Items!Undone(d)' = Items!Undone(d)
          /\ Items!Owed(d)' = Items!Owed(d)
          /\ Items!Live(d)' <=> Items!Live(d)
      BY <1>1 DEF Items!Unbooked, Items!Undone, Items!Owed, Items!Live
    <3>2. QED
      BY <1>1, <1>2, <3>1, ItemRow DEF DocumentOK, ControlRight
  <2>4. QED
    BY <2>1, <2>2, <2>3 DEF DocumentOK
<1>6. QED
  BY <1>3, <1>4, <1>5, OneDocument

LEMMA PatchStatusKeeps ==
  ASSUME Items!AmountsAssumption, ItemsInv, NEW d \in Doc,
         NEW s \in {"open", "partial", "closed"}, Items!PatchStatus(d, s)
  PROVE  ItemsInv'
<1> USE DEF ItemsInv
<1>1. /\ item[d].status \in {"open", "partial"}
      /\ item' = [item EXCEPT ![d].status = s]
      /\ UNCHANGED << announced, booked, recreated, control, payment, notes,
                      reversed, writtenOff, requests >>
  BY DEF Items!PatchStatus
<1>2. /\ item'[d].status = s /\ item'[d].amount = item[d].amount
      /\ item'[d].paid = item[d].paid
      /\ \A e \in Doc \ {d} : item'[e] = item[e]
      /\ item' \in [Doc -> Items!Item]
  BY <1>1 DEF ItemsTypeOK, Items!Item, Items!Status
<1>3. ItemsTypeOK'
  BY <1>1, <1>2 DEF ItemsTypeOK
<1>4. WriteOffsOK'
  <2>1. \A q \in requests : q.doc \in Doc
    BY DEF ItemsTypeOK, Items!PayRequest, Items!NoteRequest, Items!WriteOffRequest
  <2>2. \A e \in Doc : item[e].status # "none" => item'[e].status # "none"
    BY <1>2
  <2>3. QED
    BY <1>1, <2>1, <2>2 DEF WriteOffsOK
<1>5. \A e \in Doc \ {d} : SameDocument(e)
  BY <1>1, <1>2 DEF SameDocument
<1>6. DocumentOK(d)'
  <2>1. Items!Live(d) /\ Items!Live(d)'
    BY <1>1, <1>2 DEF Items!Live
  <2>2. Untouched(d)' /\ PaidRight(d)'
    BY <1>1, <1>2, <2>1 DEF DocumentOK, Untouched, PaidRight, Items!Received
  <2>3. ClosedRight(d)'
    BY <1>1, <1>2, <2>1 DEF DocumentOK, ClosedRight, Items!Owed
  <2>4. /\ Items!Unbooked(d)' = Items!Unbooked(d)
        /\ Items!Undone(d)' = Items!Undone(d)
        /\ Items!Owed(d)' = Items!Owed(d)
    BY <1>1, <1>2 DEF Items!Unbooked, Items!Undone, Items!Owed
  <2>5. ControlRight(d)'
    BY <1>1, <2>1, <2>4 DEF DocumentOK, ControlRight
  <2>6. QED
    BY <2>2, <2>3, <2>5 DEF DocumentOK
<1>7. QED
  BY <1>3, <1>4, <1>5, <1>6, OneDocument

LEMMA DeleteItemKeeps ==
  ASSUME Items!AmountsAssumption, ItemsInv, NEW d \in Doc, Items!DeleteItem(d)
  PROVE  ItemsInv'
<1> USE DEF ItemsInv
<1>1. /\ item[d].paid = 0 /\ item[d].status = "open"
      /\ item' = [item EXCEPT ![d] = Items!NoItem("deleted")]
      /\ requests' \subseteq requests
      /\ UNCHANGED << announced, booked, recreated, control, payment, notes,
                      reversed, writtenOff >>
  BY DEF Items!DeleteItem
<1>2. /\ item'[d] = [status |-> "deleted", amount |-> 0, paid |-> 0]
      /\ \A e \in Doc \ {d} : item'[e] = item[e]
      /\ item' \in [Doc -> Items!Item]
  BY <1>1 DEF ItemsTypeOK, Items!Item, Items!Status, Items!NoItem
<1>3. ItemsTypeOK'
  BY <1>1, <1>2 DEF ItemsTypeOK
<1>4. WriteOffsOK'
  <2>1. \A q \in requests : q.doc \in Doc
    BY DEF ItemsTypeOK, Items!PayRequest, Items!NoteRequest, Items!WriteOffRequest
  <2>2. \A e \in Doc : item[e].status # "none" => item'[e].status # "none"
    BY <1>2
  <2>3. QED
    BY <1>1, <2>1, <2>2 DEF WriteOffsOK
<1>5. \A e \in Doc \ {d} : SameDocument(e)
  BY <1>1, <1>2 DEF SameDocument
<1>6. DocumentOK(d)'
  <2>1. ~ Items!Live(d)'
    BY <1>2 DEF Items!Live
  <2>2. Untouched(d)' /\ PaidRight(d)' /\ ClosedRight(d)' /\ ControlRight(d)'
    BY <1>1, <1>2, <2>1 DEF DocumentOK, Untouched, PaidRight, ClosedRight,
                            ControlRight, Items!Received
  <2>3. QED
    BY <2>2 DEF DocumentOK
<1>7. QED
  BY <1>3, <1>4, <1>5, <1>6, OneDocument

\* What no item, posting or account is touched by: requests begin and end, and
\* the month is closed or reopened.
LEMMA RequestsKeep ==
  ASSUME Items!AmountsAssumption, ItemsInv,
         \/ Items!CloseOrReopen
         \/ \E d \in Doc, r \in Caller, a \in Amount : Items!BeginPayment(d, r, a)
         \/ \E d \in Doc, k \in Items!Kind, r \in NoteRef, a \in Amount :
              Items!BeginNote(d, k, r, a)
         \/ \E d \in Doc : Items!BeginWriteOff(d)
         \/ \E q \in requests : Items!Abandon(q)
         \/ UNCHANGED Items!vars
  PROVE  ItemsInv'
<1> USE DEF ItemsInv
<1>1. UNCHANGED << item, announced, booked, recreated, control, payment,
                   notes, reversed, writtenOff >>
  BY DEF Items!CloseOrReopen, Items!BeginPayment, Items!BeginNote,
         Items!BeginWriteOff, Items!Abandon, Items!vars
<1>2. \A d \in Doc : DocumentOK(d)'
  BY <1>1, SameDocumentKept DEF SameDocument
<1>3. ASSUME NEW q \in requests'
      PROVE  /\ q \in Items!PayRequest \cup Items!NoteRequest
                        \cup Items!WriteOffRequest
             /\ q.op = "writeoff" => item[q.doc].status # "none" /\ q.amount > 0
  <2>1. CASE q \in requests
    BY <2>1 DEF ItemsTypeOK, WriteOffsOK
  <2>2. CASE q \notin requests
    <3>1. \/ \E d \in Doc, r \in Caller, a \in Amount :
               q = [op |-> "pay", doc |-> d, ref |-> r, amount |-> a]
          \/ \E d \in Doc, k \in Items!Kind, r \in NoteRef, a \in Amount :
               q = [op |-> k, doc |-> d, ref |-> r, amount |-> a]
          \/ \E d \in Doc :
               /\ Items!Live(d) /\ Items!Owed(d) > 0
               /\ q = [op |-> "writeoff", doc |-> d, amount |-> Items!Owed(d)]
      BY <1>3, <2>2
         DEF Items!CloseOrReopen, Items!BeginPayment, Items!BeginNote,
             Items!BeginWriteOff, Items!Abandon, Items!vars
    <3>2. CASE \E d \in Doc, r \in Caller, a \in Amount :
                 q = [op |-> "pay", doc |-> d, ref |-> r, amount |-> a]
      BY <3>2 DEF Items!PayRequest
    <3>3. CASE \E d \in Doc, k \in Items!Kind, r \in NoteRef, a \in Amount :
                 q = [op |-> k, doc |-> d, ref |-> r, amount |-> a]
      BY <3>3 DEF Items!NoteRequest, Items!Kind
    <3>4. CASE \E d \in Doc :
                 /\ Items!Live(d) /\ Items!Owed(d) > 0
                 /\ q = [op |-> "writeoff", doc |-> d, amount |-> Items!Owed(d)]
      <4>1. PICK d \in Doc :
              /\ Items!Live(d) /\ Items!Owed(d) > 0
              /\ q = [op |-> "writeoff", doc |-> d, amount |-> Items!Owed(d)]
        BY <3>4
      <4>2. Items!Owed(d) \in Nat
        BY <4>1, ItemRow
      <4>3. q \in Items!WriteOffRequest
        BY <4>1, <4>2 DEF Items!WriteOffRequest
      <4>4. item[q.doc].status # "none" /\ q.amount > 0
        BY <4>1 DEF Items!Live
      <4>5. QED
        BY <4>3, <4>4
    <3>5. QED
      BY <3>1, <3>2, <3>3, <3>4
  <2>3. QED
    BY <2>1, <2>2
<1>4. ItemsTypeOK' /\ WriteOffsOK'
  <2>1. requests' \subseteq Items!PayRequest \cup Items!NoteRequest
                              \cup Items!WriteOffRequest
    BY <1>3
  <2>2. WriteOffsOK'
    BY <1>1, <1>3 DEF WriteOffsOK
  <2>3. QED
    BY <1>1, <2>1, <2>2 DEF ItemsTypeOK
<1>5. QED
  BY <1>2, <1>4

-----------------------------------------------------------------------------
(* The transactions. *)

\* What a request past its reads is about.
LEMMA RequestRow ==
  ASSUME Items!AmountsAssumption, ItemsTypeOK, NEW q \in requests
  PROVE  /\ q.doc \in Doc /\ q.amount \in Nat
         /\ q.op = "pay" => q.ref \in Caller /\ q.amount > 0
         /\ q.op \in Items!Kind => q \in Items!NoteRequest /\ q.amount > 0
<1>1. \/ q \in Items!PayRequest
      \/ q \in Items!NoteRequest
      \/ q \in Items!WriteOffRequest
  BY DEF ItemsTypeOK
<1>2. \A b \in Amount : b \in Nat /\ b > 0
  BY DEF Items!AmountsAssumption
<1>3. CASE q \in Items!PayRequest
  BY <1>2, <1>3 DEF Items!PayRequest, Items!Kind
<1>4. CASE q \in Items!NoteRequest
  BY <1>2, <1>4 DEF Items!NoteRequest, Items!Kind
<1>5. CASE q \in Items!WriteOffRequest
  BY <1>5 DEF Items!WriteOffRequest, Items!Kind
<1>6. QED
  BY <1>1, <1>3, <1>4, <1>5

LEMMA CommitPaymentKeeps ==
  ASSUME Items!AmountsAssumption, ItemsInv, NEW q \in requests,
         Items!CommitPayment(q)
  PROVE  ItemsInv'
<1> USE DEF ItemsInv
<1> DEFINE d == q.doc
           a == q.amount
<1>1. /\ q.op = "pay" /\ payment[d][q.ref] = 0
      /\ item[d].paid + a <= item[d].amount
      /\ payment' = [payment EXCEPT ![d][q.ref] = a]
      /\ control' = [control EXCEPT ![d] = @ - a]
      /\ requests' \subseteq requests
      /\ UNCHANGED << announced, booked, recreated, notes, reversed, writtenOff >>
  BY DEF Items!CommitPayment
<1>2. d \in Doc /\ q.ref \in Caller /\ a \in Nat /\ a > 0
  BY <1>1, RequestRow
<1>3. /\ item[d].status \in Items!Status
      /\ item[d].amount \in Nat /\ item[d].paid \in Nat
      /\ control[d] \in Int /\ payment[d] \in [Caller -> Nat]
  BY <1>2, ItemRow
<1>4. item' = [item EXCEPT ![d] =
                 [status |-> Items!StatusPaid(@.paid + a, @.amount),
                  amount |-> @.amount, paid |-> @.paid + a]]
  BY DEF Items!CommitPayment
<1>5. /\ item'[d].amount = item[d].amount
      /\ item'[d].paid = item[d].paid + a
      /\ item'[d].status = Items!StatusPaid(item[d].paid + a, item[d].amount)
      /\ \A e \in Doc \ {d} : item'[e] = item[e]
  BY <1>2, <1>4 DEF ItemsTypeOK
<1>6. item' \in [Doc -> Items!Item]
  <2>1. item[d].paid + a \in Nat
    BY <1>2, <1>3
  <2>2. Items!StatusPaid(item[d].paid + a, item[d].amount) \in Items!Status
    BY DEF Items!StatusPaid, Items!Status
  <2>3. [status |-> Items!StatusPaid(item[d].paid + a, item[d].amount),
         amount |-> item[d].amount, paid |-> item[d].paid + a] \in Items!Item
    BY <1>3, <2>1, <2>2 DEF Items!Item
  <2>4. QED
    BY <1>4, <2>3 DEF ItemsTypeOK
<1>7. /\ control'[d] = control[d] - a
      /\ \A e \in Doc \ {d} : control'[e] = control[e]
      /\ control' \in [Doc -> Int]
  BY <1>1, <1>2, <1>3 DEF ItemsTypeOK
<1>8. /\ payment'[d] = [payment[d] EXCEPT ![q.ref] = a]
      /\ \A e \in Doc \ {d} : payment'[e] = payment[e]
      /\ payment' \in [Doc -> [Caller -> Nat]]
  BY <1>1, <1>2 DEF ItemsTypeOK
<1>9. Items!Live(d)
  BY <1>1, <1>2, <1>3 DEF DocumentOK, PaidRight
<1>10. ItemsTypeOK'
  BY <1>1, <1>6, <1>7, <1>8 DEF ItemsTypeOK
<1>11. WriteOffsOK'
  <2>1. \A p \in requests : p.doc \in Doc
    BY RequestRow
  <2>2. item'[d].status # "none"
    BY <1>5 DEF Items!StatusPaid
  <2>3. QED
    BY <1>1, <1>5, <2>1, <2>2 DEF WriteOffsOK
<1>12. \A e \in Doc \ {d} : SameDocument(e)
  BY <1>1, <1>5, <1>7, <1>8 DEF SameDocument
<1>13. DocumentOK(d)'
  <2>1. Items!Received(d)' = Items!Received(d) + a
    <3>1. IsFiniteSet(Caller)
      BY DEF Items!AmountsAssumption, Items!IsFiniteSet, IsFiniteSet
    <3>2. /\ payment[d] \in [Caller -> Int] /\ payment'[d] \in [Caller -> Int]
          /\ \A r \in Caller \ {q.ref} : payment'[d][r] = payment[d][r]
          /\ payment'[d][q.ref] = a
      BY <1>2, <1>3, <1>8
    <3>3. SumFunction(payment'[d])
            = SumFunction(payment[d]) - payment[d][q.ref] + payment'[d][q.ref]
      BY <1>2, <3>1, <3>2, SumChange
    <3>4. SumFunction(payment[d]) \in Int
      BY <3>1, <3>2, SumType
    <3>5. /\ Items!Received(d) = SumFunction(payment[d])
          /\ Items!Received(d)' = SumFunction(payment'[d])
      BY ItemsSum DEF Items!Received
    <3>6. QED
      BY <1>1, <1>2, <3>2, <3>3, <3>4, <3>5
  <2>2. Items!Live(d)'
    BY <1>5 DEF Items!Live, Items!StatusPaid
  <2>3. PaidRight(d)'
    <3>1. item[d].paid = Items!Received(d)
      BY <1>2 DEF DocumentOK, PaidRight
    <3>2. QED
      BY <1>1, <1>2, <1>5, <2>1, <2>2, <3>1 DEF PaidRight
  <2>4. Untouched(d)'
    BY <2>2 DEF Untouched, Items!Live
  <2>5. ClosedRight(d)'
    BY <1>2, <1>3, <1>5 DEF ClosedRight, Items!Owed, Items!StatusPaid
  <2>6. ControlRight(d)'
    <3>1. /\ Items!Unbooked(d)' = Items!Unbooked(d)
          /\ Items!Undone(d)' = Items!Undone(d)
      BY <1>1 DEF Items!Unbooked, Items!Undone
    <3>2. Items!Owed(d)' = Items!Owed(d) - a
      BY <1>2, <1>3, <1>5 DEF Items!Owed
    <3>3. QED
      BY <1>1, <1>2, <1>7, <1>9, <3>1, <3>2, ItemRow DEF DocumentOK, ControlRight
  <2>7. QED
    BY <2>3, <2>4, <2>5, <2>6 DEF DocumentOK
<1>14. QED
  BY <1>2, <1>10, <1>11, <1>12, <1>13, OneDocument

LEMMA CommitNoteKeeps ==
  ASSUME Items!AmountsAssumption, ItemsInv, NEW q \in requests,
         Items!CommitNote(q)
  PROVE  ItemsInv'
<1> USE DEF ItemsInv
<1> DEFINE d == q.doc
           b == item[d].amount + Items!Delta(q)
<1>1. /\ q.op \in Items!Kind /\ item[d].status \in {"open", "partial"}
      /\ b >= item[d].paid /\ b > 0
      /\ notes' = notes \cup {q}
      /\ control' = [control EXCEPT ![d] = @ + Items!Delta(q)]
      /\ requests' \subseteq requests
      /\ UNCHANGED << announced, booked, recreated, payment, reversed, writtenOff >>
  BY DEF Items!CommitNote
<1>2. d \in Doc /\ Items!Delta(q) \in Int /\ q \in Items!NoteRequest
  BY <1>1, RequestRow DEF Items!Delta
<1>3. /\ item[d].amount \in Nat /\ item[d].paid \in Nat /\ control[d] \in Int
  BY <1>2, ItemRow
<1>4. b \in Nat
  BY <1>1, <1>2, <1>3
<1>5. item' = [item EXCEPT ![d] =
                 [status |-> Items!StatusAdjusted(@.paid, b), amount |-> b,
                  paid |-> @.paid]]
  BY DEF Items!CommitNote
<1>6. /\ item'[d].amount = b /\ item'[d].paid = item[d].paid
      /\ item'[d].status = Items!StatusAdjusted(item[d].paid, b)
      /\ \A e \in Doc \ {d} : item'[e] = item[e]
  BY <1>2, <1>5 DEF ItemsTypeOK
<1>7. item' \in [Doc -> Items!Item]
  <2>1. Items!StatusAdjusted(item[d].paid, b) \in Items!Status
    BY DEF Items!StatusAdjusted, Items!Status
  <2> HIDE DEF b
  <2>2. [status |-> Items!StatusAdjusted(item[d].paid, b),
         amount |-> b, paid |-> item[d].paid] \in Items!Item
    BY <1>3, <1>4, <2>1 DEF Items!Item
  <2>3. QED
    BY <1>5, <2>2 DEF ItemsTypeOK
<1>8. /\ control'[d] = control[d] + Items!Delta(q)
      /\ \A e \in Doc \ {d} : control'[e] = control[e]
      /\ control' \in [Doc -> Int]
  BY <1>1, <1>2, <1>3 DEF ItemsTypeOK
<1>9. Items!Live(d) /\ Items!Live(d)'
  BY <1>1, <1>6 DEF Items!Live, Items!StatusAdjusted
<1>10. ItemsTypeOK'
  BY <1>1, <1>2, <1>7, <1>8 DEF ItemsTypeOK
<1>11. WriteOffsOK'
  <2>1. \A p \in requests : p.doc \in Doc
    BY RequestRow
  <2>2. item'[d].status # "none"
    BY <1>9 DEF Items!Live
  <2>3. QED
    BY <1>1, <1>6, <2>1, <2>2 DEF WriteOffsOK
<1>12. \A e \in Doc \ {d} : SameDocument(e)
  BY <1>1, <1>6, <1>8 DEF SameDocument
<1>13. DocumentOK(d)'
  <2>1. Untouched(d)'
    BY <1>9 DEF Untouched, Items!Live
  <2>2. PaidRight(d)'
    <3>1. item[d].paid = Items!Received(d) /\ Items!Received(d)' = Items!Received(d)
      BY <1>1, <1>2 DEF DocumentOK, PaidRight, Items!Received
    <3>2. QED
      BY <1>1, <1>3, <1>4, <1>6, <1>9, <3>1 DEF PaidRight
  <2>3. ClosedRight(d)'
    BY <1>3, <1>4, <1>6 DEF ClosedRight, Items!Owed, Items!StatusAdjusted
  <2>4. ControlRight(d)'
    <3>1. /\ Items!Unbooked(d)' = Items!Unbooked(d)
          /\ Items!Undone(d)' = Items!Undone(d)
      BY <1>1 DEF Items!Unbooked, Items!Undone
    <3>2. Items!Owed(d)' = Items!Owed(d) + Items!Delta(q)
      BY <1>2, <1>3, <1>6 DEF Items!Owed
    <3>3. QED
      BY <1>1, <1>2, <1>8, <1>9, <3>1, <3>2, ItemRow DEF DocumentOK, ControlRight
  <2>5. QED
    BY <2>1, <2>2, <2>3, <2>4 DEF DocumentOK
<1>14. QED
  BY <1>2, <1>10, <1>11, <1>12, <1>13, OneDocument

LEMMA CommitWriteOffKeeps ==
  ASSUME Items!AmountsAssumption, ItemsInv, NEW q \in requests,
         Items!CommitWriteOff(q)
  PROVE  ItemsInv'
<1> USE DEF ItemsInv
<1> DEFINE d == q.doc
<1>1. /\ q.op = "writeoff"
      /\ writtenOff' = [writtenOff EXCEPT ![d] = q.amount]
      /\ control' = [control EXCEPT ![d] = @ - q.amount]
      /\ item' = IF Items!Live(d) THEN [item EXCEPT ![d].status = "closed"]
                                  ELSE item
      /\ requests' \subseteq requests
      /\ UNCHANGED << announced, booked, recreated, payment, notes, reversed >>
  BY DEF Items!CommitWriteOff
<1>2. d \in Doc /\ q.amount \in Nat
  BY RequestRow
<1>3. item[d].status # "none" /\ q.amount > 0
  BY <1>1 DEF WriteOffsOK
<1>4. /\ item'[d].amount = item[d].amount /\ item'[d].paid = item[d].paid
      /\ item'[d].status = IF Items!Live(d) THEN "closed" ELSE item[d].status
      /\ \A e \in Doc \ {d} : item'[e] = item[e]
      /\ item' \in [Doc -> Items!Item]
  BY <1>1, <1>2 DEF ItemsTypeOK, Items!Item, Items!Status
<1>5. /\ \A e \in Doc \ {d} : control'[e] = control[e]
      /\ control' \in [Doc -> Int]
  <2>1. control[d] \in Int
    BY <1>2 DEF ItemsTypeOK
  <2>2. QED
    BY <1>1, <1>2, <2>1 DEF ItemsTypeOK
<1>6. /\ writtenOff'[d] # 0
      /\ \A e \in Doc \ {d} : writtenOff'[e] = writtenOff[e]
      /\ writtenOff' \in [Doc -> Nat]
  BY <1>1, <1>2, <1>3 DEF ItemsTypeOK
<1>7. Items!Live(d)' <=> Items!Live(d)
  BY <1>4 DEF Items!Live
<1>8. ItemsTypeOK'
  BY <1>1, <1>4, <1>5, <1>6 DEF ItemsTypeOK
<1>9. WriteOffsOK'
  <2>1. \A p \in requests : p.doc \in Doc
    BY RequestRow
  <2>2. item'[d].status # "none"
    BY <1>3, <1>4
  <2>3. QED
    BY <1>1, <1>4, <2>1, <2>2 DEF WriteOffsOK
<1>10. \A e \in Doc \ {d} : SameDocument(e)
  BY <1>1, <1>4, <1>5, <1>6 DEF SameDocument
<1>11. DocumentOK(d)'
  <2>1. Untouched(d)'
    BY <1>3, <1>4 DEF Untouched
  <2>2. PaidRight(d)'
    BY <1>1, <1>2, <1>4, <1>7 DEF DocumentOK, PaidRight, Items!Received
  <2>3. ClosedRight(d)'
    BY <1>4, <1>7 DEF ClosedRight
  <2>4. ControlRight(d)'
    BY <1>6 DEF ControlRight
  <2>5. QED
    BY <2>1, <2>2, <2>3, <2>4 DEF DocumentOK
<1>12. QED
  BY <1>2, <1>8, <1>9, <1>10, <1>11, OneDocument

\* The entry that is reversed was posted for a document that has an item, and
\* what it moved is added to what was undone.
LEMMA ReverseEntryKeeps ==
  ASSUME Items!AmountsAssumption, ItemsInv, NEW x \in Items!Postings,
         Items!ReverseEntry(x)
  PROVE  ItemsInv'
<1> USE DEF ItemsInv
<1> DEFINE d == x.doc
           m == x.moved
<1>1. /\ x \notin reversed /\ m # 0
      /\ reversed' = reversed \cup {x}
      /\ control' = [control EXCEPT ![d] = @ - m]
      /\ UNCHANGED << item, announced, booked, recreated, payment, notes,
                      writtenOff, requests >>
  BY DEF Items!ReverseEntry
<1>2. \/ \E e \in booked : x = Items!Posting(e, "sale", e, announced[e])
      \/ \E e \in Doc, r \in Caller : x = Items!Posting(e, "pay", r, - payment[e][r])
      \/ \E n \in notes : x = Items!Posting(n.doc, n.op, n.ref, Items!Delta(n))
  BY DEF Items!Postings
<1>3. d \in Doc /\ m \in Int /\ item[d].status # "none"
  <2>1. CASE \E e \in booked : x = Items!Posting(e, "sale", e, announced[e])
    <3>1. PICK e \in booked : x = Items!Posting(e, "sale", e, announced[e])
      BY <2>1
    <3>2. d = e /\ m = announced[e] /\ e \in Doc
      BY <3>1 DEF Items!Posting, ItemsTypeOK
    <3>3. QED
      BY <3>2, ItemRow DEF DocumentOK, Untouched
  <2>2. CASE \E e \in Doc, r \in Caller : x = Items!Posting(e, "pay", r, - payment[e][r])
    <3>1. PICK e \in Doc, r \in Caller : x = Items!Posting(e, "pay", r, - payment[e][r])
      BY <2>2
    <3>2. d = e /\ m = - payment[e][r] /\ payment[e][r] \in Nat
      BY <3>1 DEF Items!Posting, ItemsTypeOK
    <3>3. payment[e][r] # 0
      BY <1>1, <3>2
    <3>4. QED
      BY <3>2, <3>3 DEF DocumentOK, Untouched
  <2>3. CASE \E n \in notes : x = Items!Posting(n.doc, n.op, n.ref, Items!Delta(n))
    <3>1. PICK n \in notes : x = Items!Posting(n.doc, n.op, n.ref, Items!Delta(n))
      BY <2>3
    <3>2. n.doc \in Doc /\ n.amount \in Nat
      BY DEF ItemsTypeOK, Items!NoteRequest, Items!AmountsAssumption
    <3>3. d = n.doc /\ m = Items!Delta(n) /\ Items!Delta(n) \in Int
      BY <3>1, <3>2 DEF Items!Posting, Items!Delta
    <3>4. QED
      BY <3>2, <3>3 DEF DocumentOK, Untouched
  <2>4. QED
    BY <1>2, <2>1, <2>2, <2>3
<1>4. control[d] \in Int
  BY <1>3 DEF ItemsTypeOK
<1>5. /\ control'[d] = control[d] - m
      /\ \A e \in Doc \ {d} : control'[e] = control[e]
      /\ control' \in [Doc -> Int]
  BY <1>1, <1>3, <1>4 DEF ItemsTypeOK
<1>6. IsFiniteSet(reversed') /\ \A y \in reversed' : y.doc \in Doc /\ y.moved \in Int
  BY <1>1, <1>3, FS_AddElement DEF ItemsTypeOK
<1>7. ItemsTypeOK' /\ WriteOffsOK'
  BY <1>1, <1>5, <1>6 DEF ItemsTypeOK, WriteOffsOK
<1>8. \A e \in Doc \ {d} : SameDocument(e)
  BY <1>1, <1>5 DEF SameDocument
<1>9. Items!Undone(d)' = Items!Undone(d) + m
  <2> DEFINE T == { y \in reversed : y.doc = d }
             U == { y \in reversed' : y.doc = d }
             f == [y \in T |-> y.moved]
             g == [y \in U |-> y.moved]
  <2>1. /\ U \ {x} = T /\ x \in U /\ IsFiniteSet(U)
        /\ g \in [U -> Int] /\ g[x] = m
        /\ [y \in U \ {x} |-> g[y]] = f
    <3>1. U = T \cup {x} /\ x \notin T
      BY <1>1
    <3>2. IsFiniteSet(U)
      BY <1>6, FS_Subset
    <3>3. \A y \in U : y.moved \in Int
      BY <1>6
    <3>4. QED
      BY <3>1, <3>2, <3>3
  <2>2. f \in [T -> Int] /\ IsFiniteSet(T)
    BY FS_Subset DEF ItemsTypeOK
  <2>3. SumFunction(g) = m + SumFunction(f) /\ SumFunction(f) \in Int
    <3> HIDE DEF T, U, f, g
    <3>1. SumFunction(g) = g[x] + SumFunction([y \in U \ {x} |-> g[y]])
      BY <2>1, SumRemove
    <3>2. SumFunction(f) \in Int
      BY <2>2, SumType
    <3>3. QED
      BY <2>1, <3>1, <3>2
  <2>4. Items!Undone(d) = SumFunction(f)
    BY ItemsSum DEF Items!Undone
  <2>5. Items!Undone(d)' = SumFunction(g)
    BY <1>1, ItemsSum DEF Items!Undone
  <2>6. QED
    BY <1>3, <2>3, <2>4, <2>5
<1>10. DocumentOK(d)'
  <2>1. Untouched(d)' /\ PaidRight(d)' /\ ClosedRight(d)'
    BY <1>1, <1>3 DEF DocumentOK, Untouched, PaidRight, ClosedRight,
                      Items!Received, Items!Live, Items!Owed
  <2>2. /\ Items!Unbooked(d)' = Items!Unbooked(d)
        /\ Items!Owed(d)' = Items!Owed(d)
        /\ Items!Live(d)' <=> Items!Live(d)
    BY <1>1 DEF Items!Unbooked, Items!Owed, Items!Live
  <2>3. ControlRight(d)'
    BY <1>1, <1>3, <1>5, <1>9, <2>2, ItemRow DEF DocumentOK, ControlRight
  <2>4. QED
    BY <2>1, <2>3 DEF DocumentOK
<1>11. QED
  BY <1>3, <1>7, <1>8, <1>10, OneDocument

-----------------------------------------------------------------------------
LEMMA ItemsInitially ==
  ASSUME Items!AmountsAssumption, Items!Init
  PROVE  ItemsInv
<1> USE DEF Items!Init
<1>1. IsFiniteSet(reversed)
  BY FS_EmptySet
<1>2. ItemsTypeOK
  BY <1>1 DEF ItemsTypeOK, Items!NoItem, Items!Item, Items!Status
<1>3. ASSUME NEW d \in Doc
      PROVE  DocumentOK(d)
  <2>1. item[d] = [status |-> "none", amount |-> 0, paid |-> 0]
    BY DEF Items!NoItem
  <2>2. ~ Items!Live(d)
    BY <2>1 DEF Items!Live
  <2>3. Items!Received(d) = 0
    <3> DEFINE f == payment[d]
    <3>1. f = [r \in Caller |-> 0] /\ f \in [Caller -> Int] /\ IsFiniteSet(Caller)
      BY DEF Items!AmountsAssumption, Items!IsFiniteSet, IsFiniteSet
    <3>2. SumFunction(f) = 0
      BY <3>1, SumZero
    <3>3. QED
      BY <3>2, ItemsSum DEF Items!Received
  <2>4. QED
    BY <2>1, <2>2, <2>3
       DEF DocumentOK, Untouched, PaidRight, ClosedRight, ControlRight
<1>4. QED
  BY <1>2, <1>3 DEF ItemsInv, WriteOffsOK

LEMMA ItemsKept ==
  ASSUME Items!AmountsAssumption, ItemsInv, [Items!Next]_Items!vars
  PROVE  ItemsInv'
<1>1. CASE UNCHANGED Items!vars \/ Items!CloseOrReopen
  BY <1>1, RequestsKeep
<1>2. CASE \E x \in Items!Postings : Items!ReverseEntry(x)
  BY <1>2, ReverseEntryKeeps
<1>3. ASSUME NEW d \in Doc, Items!ItemNext(d)
      PROVE  ItemsInv'
  <2>1. CASE \E a \in Amount : Items!CreateItem(d, a)
    BY <2>1, CreateItemKeeps
  <2>2. CASE Items!BookSale(d)
    BY <2>2, BookSaleKeeps
  <2>3. CASE \E s \in {"open", "partial", "closed"} : Items!PatchStatus(d, s)
    BY <2>3, PatchStatusKeeps
  <2>4. CASE Items!DeleteItem(d)
    BY <2>4, DeleteItemKeeps
  <2>5. CASE \E r \in Caller, a \in Amount : Items!BeginPayment(d, r, a)
    BY <2>5, RequestsKeep
  <2>6. CASE \E k \in Items!Kind, r \in NoteRef, a \in Amount :
               Items!BeginNote(d, k, r, a)
    BY <2>6, RequestsKeep
  <2>7. CASE Items!BeginWriteOff(d)
    BY <2>7, RequestsKeep
  <2>8. QED
    BY <1>3, <2>1, <2>2, <2>3, <2>4, <2>5, <2>6, <2>7 DEF Items!ItemNext
<1>4. ASSUME NEW q \in requests, Items!RequestNext(q)
      PROVE  ItemsInv'
  BY <1>4, CommitPaymentKeeps, CommitNoteKeeps, CommitWriteOffKeeps,
     RequestsKeep DEF Items!RequestNext
<1>5. QED
  BY <1>1, <1>2, <1>3, <1>4 DEF Items!Next

\* Payments, notes, write-offs, late bookings and reversals of any number of
\* documents, however they interleave, leave item, payment rows and control
\* account in agreement (ApplyPaymentWithJournal, BookAdjustment,
\* WriteOffReceivable, ReverseEntry).
THEOREM SubledgerIsSound ==
  ASSUME Items!AmountsAssumption
  PROVE  Items!Spec => []Items!ItemsTie
<1>1. ItemsInv => Items!ItemsTie
  <2>1. SUFFICES ASSUME ItemsInv
                 PROVE  \A d \in Doc : PaidRight(d) /\ ClosedRight(d) /\ ControlRight(d)
    BY DEF Items!ItemsTie, Items!PaidIsReceived, Items!PaidWithinAmount,
           Items!PaidIsWhatWasReceived, Items!SubledgerTies,
           Items!NothingOwedIsClosed, Items!ControlTiesToSubledger,
           PaidRight, ClosedRight, ControlRight
  <2>2. QED
    BY <2>1 DEF ItemsInv, DocumentOK
<1>2. QED
  BY <1>1, ItemsInitially, ItemsKept, PTL DEF Items!Spec

-----------------------------------------------------------------------------
(* Bank statements. *)

BankTypeOK ==
  /\ status \in [StatementLine -> {"absent", "unmatched", "proposed", "matched"}]
  /\ doc \in [StatementLine -> BankDoc \cup {Nobody}]
  /\ settled \in [StatementLine -> SUBSET BankDoc] /\ byHand \in [StatementLine -> SUBSET BankDoc]
  /\ DOMAIN bank = StatementLine
  /\ requests \subseteq Bank!Request

\* A line has a document exactly when it is a draft or matched, what is matched
\* or about to be has paid, and a row that names a document is of a match.
LineOK(l) ==
  /\ status[l] \in {"absent", "unmatched"} => doc[l] = Nobody
  /\ status[l] = "proposed" => doc[l] \in BankDoc
  /\ status[l] = "matched" => settled[l] # {}
  /\ bank[l] \in BankDoc => status[l] = "matched" /\ doc[l] = bank[l]

FlipsArePaid == \A q \in requests : q.stage = "flip" => settled[q.line] # {}

BankInv ==
  /\ BankTypeOK /\ Bank!NotOverpaid /\ FlipsArePaid
  /\ \A l \in StatementLine : LineOK(l)

\* What the lines of a statement paid to a document.
PaidTo(d, bySettlement, byDesk) ==
  [l \in StatementLine |-> (IF d \in bySettlement[l] THEN Worth[l] ELSE 0)
                             + (IF d \in byDesk[l] THEN Worth[l] ELSE 0)]

LEMMA BankSum ==
  ASSUME NEW d
  PROVE  Bank!Paid(d) = SumFunction(PaidTo(d, settled, byHand))
BY DEF Bank!Paid, PaidTo, SumFunction, SumFunctionOnSet, FoldFunctionOnSet,
       MapThenFoldSet, Bank!SumFunction, Bank!SumFunctionOnSet,
       Bank!FoldFunctionOnSet, Bank!MapThenFoldSet

LEMMA PaidToType ==
  ASSUME Bank!StatementAssumption, NEW d, NEW s, NEW h
  PROVE  PaidTo(d, s, h) \in [StatementLine -> Int]
<1>1. \A l \in StatementLine : Worth[l] \in Nat
  BY DEF Bank!StatementAssumption
<1>2. \A l \in StatementLine : (IF d \in s[l] THEN Worth[l] ELSE 0)
                                 + (IF d \in h[l] THEN Worth[l] ELSE 0) \in Int
  BY <1>1
<1>3. QED
  BY <1>2 DEF PaidTo

LEMMA LinesFinite == Bank!StatementAssumption => IsFiniteSet(StatementLine)
BY DEF Bank!StatementAssumption, Bank!IsFiniteSet, IsFiniteSet

\* One more payment of a line to a document it fits leaves none overpaid.
LEMMA PaymentFits ==
  ASSUME Bank!StatementAssumption, BankTypeOK, Bank!NotOverpaid,
         NEW l \in StatementLine, NEW d \in BankDoc, Bank!Fits(l, d),
         \/ /\ d \notin settled[l] /\ byHand' = byHand
            /\ settled' = [settled EXCEPT ![l] = @ \cup {d}]
         \/ /\ d \notin byHand[l] /\ settled' = settled
            /\ byHand' = [byHand EXCEPT ![l] = @ \cup {d}]
  PROVE  Bank!NotOverpaid'
<1>1. ASSUME NEW e \in BankDoc
      PROVE  Bank!Paid(e)' <= BankOwed[e]
  <2> DEFINE f == PaidTo(e, settled, byHand)
             g == PaidTo(e, settled', byHand')
  <2>1. f \in [StatementLine -> Int] /\ g \in [StatementLine -> Int] /\ IsFiniteSet(StatementLine)
    BY PaidToType, LinesFinite
  <2>2. \A k \in StatementLine \ {l} : g[k] = f[k]
    BY DEF BankTypeOK, PaidTo
  <2>3. Worth[l] \in Nat
    BY DEF Bank!StatementAssumption
  <2>4. g[l] = IF e = d THEN f[l] + Worth[l] ELSE f[l]
    <3>1. f[l] = (IF e \in settled[l] THEN Worth[l] ELSE 0)
                   + (IF e \in byHand[l] THEN Worth[l] ELSE 0)
      BY DEF PaidTo
    <3>2. g[l] = (IF e \in settled'[l] THEN Worth[l] ELSE 0)
                   + (IF e \in byHand'[l] THEN Worth[l] ELSE 0)
      BY DEF PaidTo
    <3>3. \/ /\ d \notin settled[l] /\ byHand'[l] = byHand[l]
             /\ settled'[l] = settled[l] \cup {d}
          \/ /\ d \notin byHand[l] /\ settled'[l] = settled[l]
             /\ byHand'[l] = byHand[l] \cup {d}
      BY DEF BankTypeOK
    <3> HIDE DEF f, g
    <3>4. QED
      BY <2>3, <3>1, <3>2, <3>3
  <2>5. Bank!Paid(e) = SumFunction(f) /\ Bank!Paid(e)' = SumFunction(g)
    <3>1. Bank!Paid(e) = SumFunction(f)
      BY BankSum
    <3>2. Bank!Paid(e)' = SumFunction(g)
      BY DEF Bank!Paid, PaidTo, SumFunction, SumFunctionOnSet, FoldFunctionOnSet,
             MapThenFoldSet, Bank!SumFunction, Bank!SumFunctionOnSet,
             Bank!FoldFunctionOnSet, Bank!MapThenFoldSet
    <3>3. QED
      BY <3>1, <3>2
  <2>6. Bank!Paid(e) <= BankOwed[e] /\ Bank!Paid(d) + Worth[l] <= BankOwed[d]
    BY DEF Bank!NotOverpaid, Bank!Fits
  <2>7. SumFunction(g) = SumFunction(f) - f[l] + g[l] /\ SumFunction(f) \in Int
    <3> HIDE DEF f, g
    <3>1. QED
      BY <2>1, <2>2, SumChange, SumType
  <2>8. f[l] \in Int
    BY <2>1
  <2> HIDE DEF f, g
  <2>9. QED
    BY <2>3, <2>4, <2>5, <2>6, <2>7, <2>8
<1>2. QED
  BY <1>1 DEF Bank!NotOverpaid

LEMMA BankInitially ==
  ASSUME Bank!StatementAssumption, Bank!Init
  PROVE  BankInv
<1> USE DEF Bank!Init
<1>1. BankTypeOK
  BY DEF BankTypeOK
<1>2. Bank!NotOverpaid
  <2>1. ASSUME NEW d \in BankDoc
        PROVE  Bank!Paid(d) <= BankOwed[d]
    <3> DEFINE f == PaidTo(d, settled, byHand)
    <3>1. f \in [StatementLine -> Int] /\ IsFiniteSet(StatementLine) /\ \A l \in StatementLine : f[l] = 0
      BY PaidToType, LinesFinite DEF PaidTo
    <3>2. SumFunction(f) = 0
      <4> HIDE DEF f
      <4>1. QED
        BY <3>1, SumZero
    <3>3. BankOwed[d] \in Nat
      BY DEF Bank!StatementAssumption
    <3>4. Bank!Paid(d) = SumFunction(f)
      BY BankSum
    <3> HIDE DEF f
    <3>5. QED
      BY <3>2, <3>3, <3>4
  <2>2. QED
    BY <2>1 DEF Bank!NotOverpaid
<1>3. \A l \in StatementLine : LineOK(l)
  BY DEF LineOK, Bank!StatementAssumption
<1>4. QED
  BY <1>1, <1>2, <1>3 DEF BankInv, FlipsArePaid

\* What the lines that a step does not touch keep.
SameLine(l) ==
  /\ status'[l] = status[l] /\ doc'[l] = doc[l]
  /\ settled[l] \subseteq settled'[l]
  /\ bank'[l] = bank[l]

LEMMA SameLineKept ==
  ASSUME NEW l \in StatementLine, LineOK(l), SameLine(l)
  PROVE  LineOK(l)'
BY DEF LineOK, SameLine

\* Rows are made for lines that are no drafts.
LEMMA RowsMade ==
  ASSUME Bank!StatementAssumption, BankInv, NEW finished, Bank!Materialize(finished),
         UNCHANGED << status, doc, settled >>
  PROVE  \A l \in StatementLine : LineOK(l)'
<1>1. ASSUME NEW l \in StatementLine
      PROVE  LineOK(l)'
  <2>1. LineOK(l) /\ status[l] \in {"absent", "unmatched", "proposed", "matched"}
    BY DEF BankInv, BankTypeOK
  <2>2. bank'[l] = IF l \in finished /\ bank[l] = Bank!NoRow
                        /\ status[l] \notin {"absent", "proposed"}
                   THEN doc[l] ELSE bank[l]
    BY DEF Bank!Materialize
  <2>3. CASE l \in finished /\ bank[l] = Bank!NoRow /\ status[l] \notin {"absent", "proposed"}
    BY <2>1, <2>2, <2>3 DEF LineOK, Bank!StatementAssumption
  <2>4. CASE ~ (l \in finished /\ bank[l] = Bank!NoRow /\ status[l] \notin {"absent", "proposed"})
    BY <2>1, <2>2, <2>4 DEF LineOK
  <2>5. QED
    BY <2>3, <2>4
<1>2. QED
  BY <1>1

LEMMA BankKept ==
  ASSUME Bank!StatementAssumption, BankInv, [Bank!Next]_Bank!vars
  PROVE  BankInv'
<1> USE DEF BankInv
<1>1. CASE UNCHANGED Bank!vars
  BY <1>1 DEF Bank!vars, BankTypeOK, Bank!NotOverpaid, Bank!Paid, FlipsArePaid, LineOK
<1>2. CASE Bank!Import
  <2>1. PICK finished : Bank!Materialize(finished)
    BY <1>2 DEF Bank!Import
  <2>2. /\ \A l \in StatementLine : status[l] = "absent"
        /\ status' = [l \in StatementLine |-> "unmatched"]
        /\ UNCHANGED << doc, settled, byHand, requests >>
    BY <1>2 DEF Bank!Import
  <2>3. BankTypeOK' /\ Bank!NotOverpaid' /\ FlipsArePaid'
    BY <2>1, <2>2 DEF BankTypeOK, Bank!NotOverpaid, Bank!Paid, FlipsArePaid,
                      Bank!Materialize
  <2>4. \A l \in StatementLine : LineOK(l)'
    BY <2>1, <2>2 DEF LineOK, Bank!Materialize, Bank!StatementAssumption
  <2>5. QED
    BY <2>3, <2>4
<1>3. ASSUME NEW l \in StatementLine, NEW d \in BankDoc, Bank!PayByHand(l, d)
      PROVE  BankInv'
  <2>1. /\ d \notin byHand[l] /\ Bank!Fits(l, d)
        /\ byHand' = [byHand EXCEPT ![l] = @ \cup {d}]
        /\ UNCHANGED << status, doc, settled, bank, requests >>
    BY <1>3 DEF Bank!PayByHand
  <2>2. Bank!NotOverpaid'
    BY <2>1, PaymentFits
  <2>3. BankTypeOK'
    BY <2>1 DEF BankTypeOK
  <2>4. QED
    BY <2>1, <2>2, <2>3 DEF FlipsArePaid, LineOK
<1>4. ASSUME NEW l \in StatementLine,
             \/ \E d \in BankDoc : Bank!Propose(l, d)
             \/ Bank!Reject(l)
      PROVE  BankInv'
  <2>1. PICK s \in {"proposed", "unmatched"}, d \in BankDoc \cup {Nobody} :
          /\ status[l] # "matched"
          /\ s = "proposed" <=> d \in BankDoc
          /\ status' = [status EXCEPT ![l] = s] /\ doc' = [doc EXCEPT ![l] = d]
    BY <1>4 DEF Bank!Propose, Bank!Reject, Bank!StatementAssumption
  <2>2. UNCHANGED << settled, byHand, bank, requests >>
    BY <1>4 DEF Bank!Propose, Bank!Reject
  <2>3. /\ status'[l] = s /\ doc'[l] = d
        /\ \A k \in StatementLine \ {l} : SameLine(k)
    BY <2>1, <2>2 DEF SameLine, BankTypeOK
  <2>4. BankTypeOK' /\ Bank!NotOverpaid' /\ FlipsArePaid'
    BY <2>1, <2>2 DEF BankTypeOK, Bank!NotOverpaid, Bank!Paid, FlipsArePaid
  <2>5. LineOK(l)'
    BY <2>1, <2>2, <2>3 DEF LineOK
  <2>6. QED
    BY <2>3, <2>4, <2>5, SameLineKept
<1>5. ASSUME NEW l \in StatementLine, NEW d \in BankDoc, NEW op \in {"confirm", "match"},
             Bank!Begin(op, l, d)
      PROVE  BankInv'
  <2> DEFINE q == [op |-> op, line |-> l, doc |-> d, stage |-> "settle"]
  <2>1. /\ requests' = requests \cup {q}
        /\ UNCHANGED << status, doc, settled, byHand, bank >>
    BY <1>5 DEF Bank!Begin
  <2>2. q \in Bank!Request /\ q.stage = "settle"
    BY DEF Bank!Request, Bank!Stage
  <2> HIDE DEF q
  <2>3. BankTypeOK' /\ FlipsArePaid'
    BY <2>1, <2>2 DEF BankTypeOK, FlipsArePaid
  <2>4. QED
    BY <2>1, <2>3 DEF Bank!NotOverpaid, Bank!Paid, LineOK
<1>6. ASSUME NEW l \in StatementLine, Bank!BeginConfirm(l)
      PROVE  BankInv'
  <2>1. doc[l] \in BankDoc /\ Bank!Begin("confirm", l, doc[l])
    BY <1>6 DEF Bank!BeginConfirm, LineOK
  <2>2. QED
    BY <1>5, <2>1
<1>7. ASSUME NEW q \in requests, Bank!Settle(q)
      PROVE  BankInv'
  <2> DEFINE l == q.line
             d == q.doc
             p == [q EXCEPT !.stage = "flip"]
  <2>1. /\ d \in settled[l] \/ Bank!Fits(l, d)
        /\ settled' = [settled EXCEPT ![l] = @ \cup {d}]
        /\ requests' = (requests \ {q}) \cup {p}
        /\ UNCHANGED << status, doc, byHand, bank >>
    BY <1>7 DEF Bank!Settle, Bank!Advance
  <2>2. q \in Bank!Request /\ l \in StatementLine /\ d \in BankDoc
    BY DEF BankTypeOK, Bank!Request
  <2>3. p \in Bank!Request /\ p.line = l
    BY <2>2 DEF Bank!Request, Bank!Stage
  <2>4. /\ settled' \in [StatementLine -> SUBSET BankDoc] /\ settled'[l] = settled[l] \cup {d}
        /\ \A k \in StatementLine : settled[k] \subseteq settled'[k]
    BY <2>1, <2>2 DEF BankTypeOK
  <2>5. Bank!NotOverpaid'
    <3>1. CASE d \in settled[l]
      <4>1. settled' = settled
        BY <2>1, <2>2, <2>4, <3>1 DEF BankTypeOK
      <4>2. QED
        BY <2>1, <4>1 DEF Bank!NotOverpaid, Bank!Paid
    <3>2. CASE d \notin settled[l]
      BY <2>1, <2>2, <3>2, PaymentFits
    <3>3. QED
      BY <3>1, <3>2
  <2> HIDE DEF p
  <2>6. BankTypeOK'
    BY <2>1, <2>3, <2>4 DEF BankTypeOK
  <2>7. FlipsArePaid'
    <3>1. \A r \in requests : r.line \in StatementLine
      BY DEF BankTypeOK, Bank!Request
    <3>2. QED
      BY <2>1, <2>3, <2>4, <3>1 DEF FlipsArePaid
  <2>8. \A k \in StatementLine : LineOK(k)'
    BY <2>1, <2>4, SameLineKept DEF SameLine
  <2>9. QED
    BY <2>5, <2>6, <2>7, <2>8
<1>8. ASSUME NEW q \in requests, Bank!Flip(q)
      PROVE  BankInv'
  <2> DEFINE l == q.line
             p == [q EXCEPT !.stage = "record"]
  <2>1. /\ q.stage = "flip"
        /\ status[l] = IF q.op = "match" THEN "unmatched" ELSE "proposed"
        /\ status' = [status EXCEPT ![l] = "matched"]
        /\ doc' = IF q.op = "match" THEN [doc EXCEPT ![l] = q.doc] ELSE doc
        /\ requests' = (requests \ {q}) \cup {p}
        /\ UNCHANGED << settled, byHand, bank >>
    BY <1>8 DEF Bank!Flip, Bank!Advance
  <2>2. q \in Bank!Request /\ l \in StatementLine /\ q.doc \in BankDoc
    BY DEF BankTypeOK, Bank!Request
  <2>3. p \in Bank!Request /\ p.stage = "record"
    BY <2>2 DEF Bank!Request, Bank!Stage
  <2>4. /\ status'[l] = "matched"
        /\ status[l] # "matched"
        /\ \A k \in StatementLine \ {l} : SameLine(k)
    BY <2>1, <2>2 DEF SameLine, BankTypeOK
  <2> HIDE DEF p
  <2>5. BankTypeOK'
    BY <2>1, <2>2, <2>3 DEF BankTypeOK
  <2>6. Bank!NotOverpaid' /\ FlipsArePaid'
    BY <2>1, <2>3 DEF Bank!NotOverpaid, Bank!Paid, FlipsArePaid
  <2>7. LineOK(l)'
    <3>1. settled'[l] # {} /\ bank'[l] \notin BankDoc
      BY <2>1, <2>2, <2>4 DEF FlipsArePaid, LineOK
    <3>2. QED
      BY <2>4, <3>1 DEF LineOK
  <2>8. QED
    BY <2>2, <2>4, <2>5, <2>6, <2>7, SameLineKept
<1>9. ASSUME NEW q \in requests, Bank!Record(q)
      PROVE  BankInv'
  <2>1. PICK finished : Bank!Materialize(finished)
    BY <1>9 DEF Bank!Record
  <2>2. requests' = requests \ {q} /\ UNCHANGED << status, doc, settled, byHand >>
    BY <1>9 DEF Bank!Record
  <2>3. \A l \in StatementLine : LineOK(l)'
    BY <2>1, <2>2, RowsMade
  <2>4. DOMAIN bank' = StatementLine
    BY <2>1 DEF Bank!Materialize
  <2>5. QED
    BY <2>2, <2>3, <2>4 DEF BankTypeOK, Bank!NotOverpaid, Bank!Paid, FlipsArePaid
<1>10. ASSUME NEW q \in requests, Bank!Fail(q)
       PROVE  BankInv'
  BY <1>10 DEF Bank!Fail, BankTypeOK, Bank!NotOverpaid, Bank!Paid, FlipsArePaid, LineOK
<1>11. QED
  BY <1>1, <1>2, <1>3, <1>4, <1>5, <1>6, <1>7, <1>8, <1>9, <1>10
     DEF Bank!Next, Bank!BeginMatch

\* However confirmations, matches by hand and payments at the desk interleave
\* and fail between their transactions, no document receives more than it is
\* owed, a matched line has paid, and a row of the bank ledger that names a
\* document is of a match (ConfirmStatementLine, MatchStatementLine).
THEOREM StatementIsSound ==
  ASSUME Bank!StatementAssumption
  PROVE  Bank!Spec => []Bank!MatchedIsPaid
<1>1. BankInv => Bank!MatchedIsPaid
  BY DEF BankInv, LineOK, Bank!MatchedIsPaid, Bank!MatchedMovedMoney,
         Bank!RowIsConfirmed
<1>2. QED
  BY <1>1, BankInitially, BankKept, PTL DEF Bank!Spec

\* No second reviewer, retry or import moves a matched line to another document
\* (the conditional UPDATE of Flip).
THEOREM MatchesStay ==
  ASSUME Bank!StatementAssumption
  PROVE  Bank!Spec => Bank!MatchedStays
<1>1. ASSUME BankInv, [Bank!Next]_Bank!vars
      PROVE  [Bank!KeepsMatch]_Bank!vars
  <2>1. ASSUME NEW l \in StatementLine, status[l] = "matched", ~ UNCHANGED Bank!vars
        PROVE  status'[l] = "matched" /\ doc'[l] = doc[l]
    <3>1. DOMAIN status = StatementLine /\ DOMAIN doc = StatementLine
      BY <1>1 DEF BankInv, BankTypeOK
    <3>2. Bank!Next
      BY <1>1, <2>1
    <3>3. CASE Bank!Import
      BY <2>1, <3>3 DEF Bank!Import
    <3>4. CASE \E k \in StatementLine, d \in BankDoc :
                 Bank!PayByHand(k, d) \/ Bank!Propose(k, d) \/ Bank!BeginMatch(k, d)
      BY <2>1, <3>1, <3>4 DEF Bank!PayByHand, Bank!Propose, Bank!BeginMatch, Bank!Begin
    <3>5. CASE \E k \in StatementLine : Bank!Reject(k) \/ Bank!BeginConfirm(k)
      BY <2>1, <3>1, <3>5 DEF Bank!Reject, Bank!BeginConfirm, Bank!Begin
    <3>6. CASE \E q \in requests :
                 Bank!Settle(q) \/ Bank!Flip(q) \/ Bank!Record(q) \/ Bank!Fail(q)
      BY <2>1, <3>1, <3>6 DEF Bank!Settle, Bank!Flip, Bank!Record, Bank!Fail
    <3>7. QED
      BY <3>2, <3>3, <3>4, <3>5, <3>6 DEF Bank!Next
  <2>2. QED
    BY <2>1 DEF Bank!KeepsMatch
<1>2. QED
  BY <1>1, BankInitially, BankKept, PTL DEF Bank!Spec, Bank!MatchedStays

-----------------------------------------------------------------------------
(* Payment intents. *)

Confirming == [at: {"idle", "look up", "pay", "succeed", "fail"},
               intent: Intent \cup {Intents!Idle.intent}]

IntentsTypeOK == DOMAIN status = Intent /\ request \in [Caller -> Confirming]

AtWork(r, i) == request[r].at # "idle" /\ request[r].intent = i

\* What is booked is shown, or is about to be, unless it is named a ghost's; and
\* an intent that is in no ghost is confirmed by one request at a time.
ShownIsBooked(i) ==
  (status[i] = "succeeded" => i \in paid) /\ (i \in paid => status[i] # "none")

BookedIsShown(i) ==
  i \in paid /\ i \notin disturbed \cup unmarked =>
    \/ status[i] = "succeeded"
    \/ \E r \in Caller : request[r].at = "succeed" /\ request[r].intent = i

OneAtWork(i) ==
  i \notin disturbed => \A r, q \in Caller : AtWork(r, i) /\ AtWork(q, i) => r = q

IntentOK(i) == ShownIsBooked(i) /\ BookedIsShown(i) /\ OneAtWork(i)

RequestOK(r) ==
  request[r].at # "idle" =>
    /\ request[r].intent \in Intent /\ status[request[r].intent] # "none"
    /\ request[r].at = "succeed" => request[r].intent \in paid
    /\ request[r].at \in {"pay", "fail"} /\ request[r].intent \notin disturbed =>
         request[r].intent \notin paid

IntentsInv ==
  /\ IntentsTypeOK /\ Intents!CollectedWithinOwed
  /\ \A i \in Intent : IntentOK(i)
  /\ \A r \in Caller : RequestOK(r)

CollectedOf(finished) == [i \in Intent |-> IF i \in finished THEN IntentAmount[i] ELSE 0]

LEMMA IntentsSum == Intents!Collected = SumFunction(CollectedOf(paid))
BY DEF Intents!Collected, CollectedOf, SumFunction, SumFunctionOnSet,
       FoldFunctionOnSet, MapThenFoldSet, Intents!SumFunction,
       Intents!SumFunctionOnSet, Intents!FoldFunctionOnSet, Intents!MapThenFoldSet

LEMMA CollectedOfType ==
  ASSUME Intents!IntentAssumption, NEW finished
  PROVE  /\ IsFiniteSet(Intent) /\ \A i \in Intent : IntentAmount[i] \in Nat
         /\ CollectedOf(finished) \in [Intent -> Int] /\ IntentOwed \in Nat
<1>1. IsFiniteSet(Intent)
  BY DEF Intents!IntentAssumption, Intents!IsFiniteSet, IsFiniteSet
<1>2. \A i \in Intent : IntentAmount[i] \in Nat
  BY DEF Intents!IntentAssumption
<1>3. QED
  BY <1>1, <1>2 DEF CollectedOf, Intents!IntentAssumption

\* What is not refused fits.
LEMMA PaidFits ==
  ASSUME Intents!IntentAssumption, NEW i \in Intent, ~ Intents!Refused(i),
         paid' = paid \cup {i}
  PROVE  Intents!CollectedWithinOwed'
<1> DEFINE f == CollectedOf(paid)
           g == CollectedOf(paid')
<1>1. i \notin paid /\ ~ (Intents!Collected + IntentAmount[i] > IntentOwed)
  BY DEF Intents!Refused
<1>2. /\ f \in [Intent -> Int] /\ g \in [Intent -> Int] /\ IsFiniteSet(Intent)
      /\ IntentAmount[i] \in Nat /\ IntentOwed \in Nat
  BY CollectedOfType
<1>3. f[i] = 0 /\ g[i] = IntentAmount[i] /\ \A j \in Intent \ {i} : g[j] = f[j]
  BY <1>1 DEF CollectedOf
<1>4. Intents!Collected = SumFunction(f)
  BY IntentsSum
<1>5. Intents!Collected' = SumFunction(g)
  BY DEF Intents!Collected, CollectedOf, SumFunction, SumFunctionOnSet,
         FoldFunctionOnSet, MapThenFoldSet, Intents!SumFunction,
         Intents!SumFunctionOnSet, Intents!FoldFunctionOnSet, Intents!MapThenFoldSet
<1> HIDE DEF f, g
<1>6. SumFunction(g) = SumFunction(f) - f[i] + g[i] /\ SumFunction(f) \in Int
  BY <1>2, <1>3, SumChange, SumType
<1>7. QED
  BY <1>1, <1>2, <1>3, <1>4, <1>5, <1>6 DEF Intents!CollectedWithinOwed

LEMMA IntentsInitially ==
  ASSUME Intents!IntentAssumption, Intents!Init
  PROVE  IntentsInv
<1> USE DEF Intents!Init
<1>1. IntentsTypeOK
  <2>1. Intents!Idle \in Confirming
    BY DEF Intents!Idle, Confirming
  <2>2. QED
    BY <2>1 DEF IntentsTypeOK
<1>2. \A r \in Caller : request[r].at = "idle"
  BY DEF Intents!Idle
<1>3. Intents!CollectedWithinOwed
  <2> DEFINE f == CollectedOf(paid)
  <2>1. /\ f \in [Intent -> Int] /\ IsFiniteSet(Intent) /\ IntentOwed \in Nat
        /\ \A i \in Intent : f[i] = 0
    BY CollectedOfType DEF CollectedOf
  <2>2. Intents!Collected = SumFunction(f)
    BY IntentsSum
  <2> HIDE DEF f
  <2>3. SumFunction(f) = 0
    BY <2>1, SumZero
  <2>4. QED
    BY <2>1, <2>2, <2>3 DEF Intents!CollectedWithinOwed
<1>4. QED
  BY <1>1, <1>2, <1>3 
     DEF IntentsInv, IntentOK, ShownIsBooked, BookedIsShown, OneAtWork,
         RequestOK, AtWork

\* What a step of one request changes of it.
RequestMoves(r, n) ==
  /\ request' \in [Caller -> Confirming]
  /\ request'[r] = n /\ \A q \in Caller \ {r} : request'[q] = request[q]

LEMMA Moves ==
  ASSUME IntentsTypeOK, NEW r \in Caller, NEW n \in Confirming,
         request' = [request EXCEPT ![r] = n]
  PROVE  RequestMoves(r, n)
BY DEF IntentsTypeOK, RequestMoves

LEMMA GoesTo ==
  ASSUME IntentsTypeOK, NEW r \in Caller,
         NEW step \in {"look up", "pay", "succeed", "fail"}, Intents!Goto(r, step)
  PROVE  \E n : /\ RequestMoves(r, n)
                /\ n.at = step /\ n.intent = request[r].intent
<1> DEFINE n == [request[r] EXCEPT !.at = step]
<1>1. request[r] \in Confirming
  BY DEF IntentsTypeOK
<1>2. n \in Confirming /\ n.at = step /\ n.intent = request[r].intent
  BY <1>1 DEF Confirming
<1>3. request' = [request EXCEPT ![r] = n]
  BY DEF Intents!Goto
<1> HIDE DEF n
<1>4. RequestMoves(r, n)
  BY <1>2, <1>3, Moves
<1>5. QED
  BY <1>2, <1>4

\* The request that moves on is the only one that takes an intent's work up or
\* leaves it.
LEMMA WorkKept ==
  ASSUME NEW r \in Caller, NEW n, RequestMoves(r, n), request[r].at # "idle",
         n.at = "idle" \/ n.intent = request[r].intent,
         disturbed \subseteq disturbed', NEW j, OneAtWork(j)
  PROVE  OneAtWork(j)'
<1>1. \A q \in Caller : AtWork(q, j)' => AtWork(q, j)
  BY DEF RequestMoves, AtWork
<1>2. QED
  BY <1>1 DEF OneAtWork

LEMMA BookedKept ==
  ASSUME NEW r \in Caller, NEW n, RequestMoves(r, n), NEW j, BookedIsShown(j),
         ~ (request[r].at = "succeed" /\ request[r].intent = j),
         j \in paid' => j \in paid, status'[j] = status[j],
         j \in disturbed \cup unmarked => j \in disturbed' \cup unmarked'
  PROVE  BookedIsShown(j)'
<1>1. ASSUME NEW q \in Caller, request[q].at = "succeed", request[q].intent = j
      PROVE  request'[q].at = "succeed" /\ request'[q].intent = j
  BY <1>1 DEF RequestMoves
<1>2. QED
  BY <1>1 DEF BookedIsShown

LEMMA IntentsKept ==
  ASSUME Intents!IntentAssumption, IntentsInv, [Intents!Next]_Intents!vars
  PROVE  IntentsInv'
<1> USE DEF IntentsInv
<1>1. CASE UNCHANGED Intents!vars
  BY <1>1 DEF Intents!vars, IntentsTypeOK, Intents!CollectedWithinOwed,
              Intents!Collected, IntentOK, ShownIsBooked,
              BookedIsShown, OneAtWork, RequestOK, AtWork
<1>2. ASSUME NEW i \in Intent, Intents!Create(i)
      PROVE  IntentsInv'
  <2>1. /\ status[i] = "none" /\ status' = [status EXCEPT ![i] = "pending"]
        /\ UNCHANGED << paid, request, unmarked, disturbed >>
    BY <1>2 DEF Intents!Create
  <2>2. /\ IntentsTypeOK' /\ Intents!CollectedWithinOwed'
        /\ status'[i] = "pending" /\ \A j \in Intent \ {i} : status'[j] = status[j]
    BY <2>1 DEF IntentsTypeOK, Intents!CollectedWithinOwed, Intents!Collected
  <2>3. \A j \in Intent : IntentOK(j)'
    BY <2>1, <2>2 DEF IntentOK, ShownIsBooked, BookedIsShown, OneAtWork, AtWork
  <2>4. \A r \in Caller : RequestOK(r)'
    BY <2>1, <2>2 DEF RequestOK
  <2>5. QED
    BY <2>2, <2>3, <2>4
<1>3. ASSUME NEW r \in Caller, NEW i \in Intent, Intents!Confirm(r, i)
      PROVE  IntentsInv'
  <2> DEFINE n == [at |-> "look up", intent |-> i]
  <2>1. /\ request[r].at = "idle" /\ status[i] \in {"pending", "failed"}
        /\ request' = [request EXCEPT ![r] = n]
        /\ disturbed' = IF \E q \in Caller : AtWork(q, i) THEN disturbed \cup {i}
                                                           ELSE disturbed
        /\ UNCHANGED << status, paid, unmarked >>
    BY <1>3 DEF Intents!Confirm, AtWork
  <2>2. n \in Confirming /\ n.at = "look up" /\ n.intent = i
    BY DEF Confirming
  <2> HIDE DEF n
  <2>3. RequestMoves(r, n)
    BY <2>1, <2>2, Moves
  <2>4. IntentsTypeOK' /\ Intents!CollectedWithinOwed'
    BY <2>1, <2>3 DEF RequestMoves, IntentsTypeOK, Intents!CollectedWithinOwed,
                      Intents!Collected
  <2>5. \A j \in Intent : IntentOK(j)'
    <3>1. \A j \in Intent : ShownIsBooked(j)'
      BY <2>1, <2>2, <2>3 DEF RequestMoves, IntentOK, ShownIsBooked
    <3>2. \A j \in Intent : BookedIsShown(j)'
      BY <2>1, <2>2, <2>3 DEF RequestMoves, IntentOK, BookedIsShown
    <3>3. \A j \in Intent : OneAtWork(j)'
      BY <2>1, <2>2, <2>3 DEF RequestMoves, IntentOK, OneAtWork, AtWork
    <3>4. QED
      BY <3>1, <3>2, <3>3 DEF IntentOK
  <2>6. \A q \in Caller : RequestOK(q)'
    BY <2>1, <2>2, <2>3 DEF RequestMoves, RequestOK
  <2>7. QED
    BY <2>4, <2>5, <2>6
<1>4. ASSUME NEW r \in Caller, Intents!LookUp(r)
      PROVE  IntentsInv'
  <2> DEFINE step == IF request[r].intent \in paid THEN "succeed" ELSE "pay"
  <2>1. /\ request[r].at = "look up" /\ Intents!Goto(r, step)
        /\ UNCHANGED << status, paid, unmarked, disturbed >>
    BY <1>4 DEF Intents!LookUp
  <2>2. PICK n : RequestMoves(r, n) /\ n.at = step /\ n.intent = request[r].intent
    BY <2>1, GoesTo
  <2>3. IntentsTypeOK' /\ Intents!CollectedWithinOwed'
    BY <2>1, <2>2 DEF RequestMoves, IntentsTypeOK, Intents!CollectedWithinOwed,
                      Intents!Collected
  <2>4. \A j \in Intent : IntentOK(j)'
    <3>1. \A j \in Intent : ShownIsBooked(j)'
      BY <2>1, <2>2 DEF RequestMoves, IntentOK, ShownIsBooked
    <3>2. \A j \in Intent : BookedIsShown(j)'
      BY <2>1, <2>2, BookedKept DEF IntentOK
    <3>3. \A j \in Intent : OneAtWork(j)'
      BY <2>1, <2>2, WorkKept DEF IntentOK
    <3>4. QED
      BY <3>1, <3>2, <3>3 DEF IntentOK
  <2>5. \A q \in Caller : RequestOK(q)'
    BY <2>1, <2>2 DEF RequestMoves, RequestOK
  <2>6. QED
    BY <2>3, <2>4, <2>5
<1>5. ASSUME NEW r \in Caller, Intents!Pay(r)
      PROVE  IntentsInv'
  <2>0. PICK i : i = request[r].intent
    OBVIOUS
  <2> DEFINE step == IF Intents!Refused(i) THEN "fail" ELSE "succeed"
  <2>1. /\ request[r].at = "pay" /\ Intents!Goto(r, step)
        /\ paid' = IF Intents!Refused(i) THEN paid ELSE paid \cup {i}
        /\ UNCHANGED << status, unmarked, disturbed >>
    BY <1>5, <2>0 DEF Intents!Pay
  <2>2. PICK n : RequestMoves(r, n) /\ n.at = step /\ n.intent = i
    BY <2>0, <2>1, GoesTo
  <2>3. i \in Intent /\ status[i] # "none"
    BY <2>0, <2>1 DEF RequestOK
  <2>4. IntentsTypeOK' /\ Intents!CollectedWithinOwed'
    <3>1. CASE Intents!Refused(i)
      BY <2>0, <2>1, <2>2, <3>1 DEF RequestMoves, IntentsTypeOK,
                              Intents!CollectedWithinOwed, Intents!Collected
    <3>2. CASE ~ Intents!Refused(i)
      BY <2>0, <2>1, <2>2, <2>3, <3>2, PaidFits DEF RequestMoves, IntentsTypeOK
    <3>3. QED
      BY <3>1, <3>2
  <2>5. \A j \in Intent : IntentOK(j)'
    <3>1. \A j \in Intent : ShownIsBooked(j)'
      BY <2>0, <2>1, <2>2, <2>3 DEF RequestMoves, IntentOK, ShownIsBooked
    <3>2. \A j \in Intent : BookedIsShown(j)'
      <4>1. ASSUME NEW j \in Intent, j # i \/ paid' = paid
            PROVE  BookedIsShown(j)'
        BY <2>0, <2>1, <2>2, <4>1, BookedKept DEF IntentOK
      <4>2. CASE paid' # paid
        <5>1. request'[r].at = "succeed" /\ request'[r].intent = i
          BY <2>1, <2>2, <4>2 DEF RequestMoves
        <5>2. BookedIsShown(i)'
          BY <5>1 DEF BookedIsShown
        <5>3. QED
          BY <4>1, <5>2
      <4>3. QED
        BY <4>1, <4>2
    <3>3. \A j \in Intent : OneAtWork(j)'
      BY <2>0, <2>1, <2>2, <2>3, WorkKept DEF IntentOK
    <3>4. QED
      BY <3>1, <3>2, <3>3 DEF IntentOK
  <2>6. i \notin disturbed => \A q \in Caller \ {r} : ~ AtWork(q, i)
    BY <2>0, <2>1, <2>3 DEF IntentOK, ShownIsBooked, BookedIsShown, OneAtWork, AtWork
  <2>7. \A q \in Caller : RequestOK(q)'
    BY <2>0, <2>1, <2>2, <2>3, <2>6 DEF RequestMoves, RequestOK, AtWork
  <2>8. QED
    BY <2>4, <2>5, <2>7
<1>6. ASSUME NEW r \in Caller, Intents!DatabaseFails(r)
      PROVE  IntentsInv'
  <2>0. PICK i : i = request[r].intent
    OBVIOUS
  <2>1. /\ request[r].at \in {"look up", "pay"} /\ Intents!Goto(r, "fail")
        /\ paid' = paid \/ (~ Intents!Refused(i) /\ paid' = paid \cup {i})
        /\ disturbed' = IF i \in paid' THEN disturbed \cup {i} ELSE disturbed
        /\ UNCHANGED << status, unmarked >>
    <3>1. /\ request[r].at \in {"look up", "pay"} /\ Intents!Goto(r, "fail")
          /\ paid' \in {paid} \cup (IF request[r].at = "pay" /\ ~ Intents!Refused(i)
                                    THEN {paid \cup {i}} ELSE {})
          /\ disturbed' = IF i \in paid' THEN disturbed \cup {i} ELSE disturbed
          /\ UNCHANGED << status, unmarked >>
      BY <1>6, <2>0 DEF Intents!DatabaseFails
    <3>2. paid' = paid \/ (~ Intents!Refused(i) /\ paid' = paid \cup {i})
      BY <3>1
    <3>3. QED
      BY <3>1, <3>2
  <2>2. PICK n : RequestMoves(r, n) /\ n.at = "fail" /\ n.intent = i
    BY <2>0, <2>1, GoesTo
  <2>3. i \in Intent /\ status[i] # "none"
    BY <2>0, <2>1 DEF RequestOK
  <2>4. IntentsTypeOK' /\ Intents!CollectedWithinOwed'
    <3>1. CASE paid' = paid
      BY <2>0, <2>1, <2>2, <3>1 DEF RequestMoves, IntentsTypeOK,
                              Intents!CollectedWithinOwed, Intents!Collected
    <3>2. CASE ~ Intents!Refused(i) /\ paid' = paid \cup {i}
      BY <2>0, <2>1, <2>2, <2>3, <3>2, PaidFits DEF RequestMoves, IntentsTypeOK
    <3>3. QED
      BY <2>0, <2>1, <3>1, <3>2
  <2>5. \A j \in Intent : IntentOK(j)'
    <3>1. \A j \in Intent : ShownIsBooked(j)'
      BY <2>0, <2>1, <2>2, <2>3 DEF RequestMoves, IntentOK, ShownIsBooked
    <3>2. \A j \in Intent : BookedIsShown(j)'
      <4>1. ASSUME NEW j \in Intent, j # i \/ paid' = paid
            PROVE  BookedIsShown(j)'
        BY <2>0, <2>1, <2>2, <4>1, BookedKept DEF IntentOK
      <4>2. paid' # paid => BookedIsShown(i)'
        BY <2>1 DEF BookedIsShown
      <4>3. QED
        BY <4>1, <4>2
    <3>3. \A j \in Intent : OneAtWork(j)'
      BY <2>0, <2>1, <2>2, <2>3, WorkKept DEF IntentOK
    <3>4. QED
      BY <3>1, <3>2, <3>3 DEF IntentOK
  <2>6. \A q \in Caller : RequestOK(q)'
    BY <2>0, <2>1, <2>2, <2>3 DEF RequestMoves, RequestOK
  <2>7. QED
    BY <2>4, <2>5, <2>6
<1>7. ASSUME NEW r \in Caller, Intents!Mark(r)
      PROVE  IntentsInv'
  <2>0. PICK i : i = request[r].intent
    OBVIOUS
  <2> DEFINE s == IF request[r].at = "succeed" THEN "succeeded" ELSE "failed"
  <2>1. /\ request[r].at \in {"succeed", "fail"}
        /\ status' = [status EXCEPT ![i] = s]
        /\ unmarked' = unmarked \ {i}
        /\ request' = [request EXCEPT ![r] = Intents!Idle]
        /\ UNCHANGED << paid, disturbed >>
    BY <1>7, <2>0 DEF Intents!Mark, Intents!Stop
  <2>2. Intents!Idle \in Confirming /\ Intents!Idle.at = "idle"
    BY DEF Intents!Idle, Confirming
  <2>3. RequestMoves(r, Intents!Idle)
    BY <2>0, <2>1, <2>2, Moves
  <2>4. i \in Intent /\ status[i] # "none"
    BY <2>0, <2>1 DEF RequestOK
  <2>5. status'[i] = s /\ \A j \in Intent \ {i} : status'[j] = status[j]
    BY <2>0, <2>1, <2>4 DEF IntentsTypeOK
  <2>6. IntentsTypeOK' /\ Intents!CollectedWithinOwed'
    BY <2>0, <2>1, <2>3 DEF RequestMoves, IntentsTypeOK, Intents!CollectedWithinOwed,
                      Intents!Collected
  <2>7. \A j \in Intent \ {i} : IntentOK(j)'
    <3>1. \A j \in Intent \ {i} : ShownIsBooked(j)'
      BY <2>0, <2>1, <2>2, <2>3, <2>5 DEF RequestMoves, IntentOK, ShownIsBooked
    <3>2. \A j \in Intent \ {i} : BookedIsShown(j)'
      BY <2>0, <2>1, <2>2, <2>3, <2>5, BookedKept DEF IntentOK
    <3>3. \A j \in Intent \ {i} : OneAtWork(j)'
      BY <2>0, <2>1, <2>2, <2>3, <2>5, WorkKept DEF IntentOK
    <3>4. QED
      BY <3>1, <3>2, <3>3 DEF IntentOK
  <2>8. IntentOK(i)'
    BY <2>0, <2>1, <2>2, <2>3, <2>4, <2>5 DEF RequestMoves, IntentOK, ShownIsBooked, BookedIsShown, OneAtWork, RequestOK, AtWork
  <2>9. \A q \in Caller : RequestOK(q)'
    BY <2>0, <2>1, <2>2, <2>3, <2>5 DEF RequestMoves, RequestOK
  <2>10. QED
    BY <2>6, <2>7, <2>8, <2>9
<1>8. ASSUME NEW r \in Caller, Intents!GiveUp(r)
      PROVE  IntentsInv'
  <2>0. PICK i : i = request[r].intent
    OBVIOUS
  <2>1. /\ request[r].at # "idle"
        /\ request' = [request EXCEPT ![r] = Intents!Idle]
        /\ unmarked' = IF request[r].at = "succeed" THEN unmarked \cup {i} ELSE unmarked
        /\ UNCHANGED << status, paid, disturbed >>
    BY <1>8, <2>0 DEF Intents!GiveUp, Intents!Stop
  <2>2. Intents!Idle \in Confirming /\ Intents!Idle.at = "idle"
    BY DEF Intents!Idle, Confirming
  <2>3. RequestMoves(r, Intents!Idle)
    BY <2>0, <2>1, <2>2, Moves
  <2>4. IntentsTypeOK' /\ Intents!CollectedWithinOwed'
    BY <2>0, <2>1, <2>3 DEF RequestMoves, IntentsTypeOK, Intents!CollectedWithinOwed,
                      Intents!Collected
  <2>5. \A j \in Intent : IntentOK(j)'
    <3>1. \A j \in Intent : ShownIsBooked(j)'
      BY <2>0, <2>1, <2>2, <2>3 DEF RequestMoves, IntentOK, ShownIsBooked
    <3>2. \A j \in Intent : BookedIsShown(j)'
      <4>1. ASSUME NEW j \in Intent, j # i \/ request[r].at # "succeed"
            PROVE  BookedIsShown(j)'
        BY <2>0, <2>1, <2>2, <2>3, <4>1, BookedKept DEF IntentOK
      <4>2. request[r].at = "succeed" => BookedIsShown(i)'
        BY <2>1 DEF BookedIsShown
      <4>3. QED
        BY <4>1, <4>2
    <3>3. \A j \in Intent : OneAtWork(j)'
      BY <2>0, <2>1, <2>2, <2>3, WorkKept DEF IntentOK
    <3>4. QED
      BY <3>1, <3>2, <3>3 DEF IntentOK
  <2>6. \A q \in Caller : RequestOK(q)'
    BY <2>0, <2>1, <2>2, <2>3 DEF RequestMoves, RequestOK
  <2>7. QED
    BY <2>4, <2>5, <2>6
<1>9. QED
  BY <1>1, <1>2, <1>3, <1>4, <1>5, <1>6, <1>7, <1>8 DEF Intents!Next

\* However confirmations of intents on one item race, fail, crash and are tried
\* again, they collect no more than is owed, and an intent is shown as collected
\* only with its money and as failed only without, but for the cases it names
\* (ConfirmPaymentIntent).
THEOREM IntentsAreSound ==
  ASSUME Intents!IntentAssumption
  PROVE  Intents!Spec => []Intents!IntentsTie
<1>1. IntentsInv => Intents!IntentsTie
  <2>1. SUFFICES ASSUME IntentsInv, NEW i \in Intent
                 PROVE  /\ status[i] = "succeeded" => i \in paid
                        /\ status[i] = "failed" /\ i \notin unmarked \cup disturbed
                             /\ (\A r \in Caller :
                                   request[r].intent = i => request[r].at = "idle") =>
                               i \notin paid
    BY DEF IntentsInv, Intents!IntentsTie, Intents!IntentTellsPayment
  <2>2. ShownIsBooked(i) /\ BookedIsShown(i)
    BY <2>1 DEF IntentsInv, IntentOK
  <2>3. QED
    BY <2>2 DEF ShownIsBooked, BookedIsShown
<1>2. QED
  BY <1>1, IntentsInitially, IntentsKept, PTL DEF Intents!Spec

-----------------------------------------------------------------------------
(* Payment links. *)

\* A link that was answered and not beaten is the one stored, which stays.
LinksInv == made \in Nat /\ Links!LinkLeads /\ (token = 0 => answered \subseteq beaten)

\* However many requests make a link at once, one that a customer was answered
\* leads to the receivable for good, but for those beaten in the race
\* (EnsurePaymentLinkToken).
THEOREM LinksLead == Links!Spec => []Links!LinkLeads
<1>1. Links!Init => LinksInv
  BY DEF Links!Init, LinksInv, Links!LinkLeads
<1>2. LinksInv /\ [Links!Next]_Links!vars => LinksInv'
  <2> SUFFICES ASSUME LinksInv, [Links!Next]_Links!vars PROVE LinksInv'
    OBVIOUS
  <2> USE DEF LinksInv, Links!LinkLeads
  <2>1. CASE UNCHANGED Links!vars
    BY <2>1 DEF Links!vars
  <2>2. ASSUME NEW r \in Caller, Links!Find(r)
        PROVE  LinksInv'
    BY <2>2 DEF Links!Find
  <2>3. ASSUME NEW r \in Caller, Links!Make(r)
        PROVE  LinksInv'
    BY <2>3 DEF Links!Make
  <2>4. ASSUME NEW r \in Caller, Links!Store(r)
        PROVE  LinksInv'
    <3>1. CASE token = 0
      BY <2>4, <3>1 DEF Links!Store, Links!Missing
    <3>2. CASE token # 0
      BY <2>4, <3>2 DEF Links!Store, Links!Missing
    <3>3. QED
      BY <3>1, <3>2
  <2>5. ASSUME NEW r \in Caller, Links!Fail(r)
        PROVE  LinksInv'
    BY <2>5 DEF Links!Fail
  <2>6. QED
    BY <2>1, <2>2, <2>3, <2>4, <2>5 DEF Links!Next
<1>3. LinksInv => Links!LinkLeads
  BY DEF LinksInv
<1>4. QED
  BY <1>1, <1>2, <1>3, PTL DEF Links!Spec

-----------------------------------------------------------------------------
(* Stock in the ledger. *)

Movement ==
  [n: Nat, value: Int,
   type: {"grn", "receipt", "issue", "return", "adjustment", "production_consume",
          "production_output", "transfer"},
   origin: {"order", "procurement_grn", "intake", "service", "warehouse"}]

\* What the booking of an event adds to an account.
Effect(a, e) ==
  IF a = "inventory"
  THEN IF \/ e.type = "grn" /\ e.origin = "order"
          \/ e.type = "receipt" /\ e.origin # "procurement_grn"
          \/ e.type \in {"return", "adjustment", "production_output"}
       THEN e.value
       ELSE IF e.type \in {"issue", "production_consume"} THEN - e.value ELSE 0
  ELSE IF a = "wip"
  THEN IF e.type = "production_consume" THEN e.value
       ELSE IF e.type = "production_output" THEN - e.value ELSE 0
  ELSE IF e.type = "grn" \/ (e.type = "receipt" /\ e.origin # "procurement_grn")
       THEN e.value ELSE 0

Owing(a, seen) == SumFunction([e \in seen |-> Effect(a, e)])

StockTypeOK ==
  /\ stock \in Nat /\ work \in Nat /\ bought \in Nat
  /\ told \subseteq Movement /\ IsFiniteSet(told)
  /\ \A e \in told : e.n <= Cardinality(told)
  /\ \A e \in told : e.value > 0 \/ e.type = "adjustment"
  /\ processed \subseteq told
  /\ account \in [Stock!Accounts -> Int]

\* The books, with the events on their way, are what there is.
BooksFollow ==
  LET open == told \ processed IN
  /\ account["inventory"] + Owing("inventory", open) = stock
  /\ account["wip"] + Owing("wip", open) = work
  /\ account["grir"] + Owing("grir", open) = bought

StockInv == StockTypeOK /\ BooksFollow

LEMMA EffectType == ASSUME NEW a, NEW e \in Movement PROVE Effect(a, e) \in Int
BY DEF Effect, Movement

\* One event more on its way.
LEMMA OwingMore ==
  ASSUME NEW a, NEW S, S \subseteq Movement, IsFiniteSet(S), NEW x \in Movement, x \notin S
  PROVE  /\ Owing(a, S \cup {x}) = Owing(a, S) + Effect(a, x)
         /\ Owing(a, S) \in Int
<1> DEFINE f == [e \in S |-> Effect(a, e)]
           g == [e \in S \cup {x} |-> Effect(a, e)]
<1>1. /\ f \in [S -> Int] /\ g \in [S \cup {x} -> Int] /\ g[x] = Effect(a, x)
      /\ \A y \in S : g[y] = f[y]
  BY EffectType
<1> HIDE DEF f, g
<1>2. SumFunction(g) = SumFunction(f) + g[x]
  BY <1>1, SumAdd
<1>3. SumFunction(f) \in Int
  BY <1>1, SumType
<1>4. QED
  BY <1>1, <1>2, <1>3 DEF Owing, f, g

LEMMA OwingNone == ASSUME NEW a PROVE Owing(a, {}) = 0
<1> DEFINE f == [e \in {} |-> Effect(a, e)]
<1>1. f \in [{} -> Int]
  OBVIOUS
<1> HIDE DEF f
<1>2. SumFunction(f) = 0
  BY <1>1, SumEmpty
<1>3. QED
  BY <1>2 DEF Owing, f

\* What one event, told of a change of stock, work and purchases, does.
LEMMA StockTold ==
  ASSUME StockInv, NEW x \in Movement,
         x.n = Cardinality(told) + 1, x.value > 0 \/ x.type = "adjustment",
         told' = told \cup {x}, processed' = processed, account' = account,
         stock' \in Nat, work' \in Nat, bought' \in Nat,
         stock' = stock + Effect("inventory", x),
         work' = work + Effect("wip", x),
         bought' = bought + Effect("grir", x)
  PROVE  StockInv'
<1>1. StockTypeOK /\ BooksFollow
  BY DEF StockInv
<1>2. Cardinality(told) \in Nat /\ x \notin told
  <2>1. Cardinality(told) \in Nat
    BY <1>1, FS_CardinalityType DEF StockTypeOK
  <2>2. QED
    BY <1>1, <2>1 DEF StockTypeOK
<1>3. IsFiniteSet(told') /\ Cardinality(told') = Cardinality(told) + 1
  BY <1>1, <1>2, FS_AddElement DEF StockTypeOK
<1>4. \A e \in told' : e.n <= Cardinality(told')
  <2>1. \A e \in told : e.n \in Nat
    BY <1>1 DEF StockTypeOK, Movement
  <2>2. QED
    BY <1>1, <1>2, <1>3, <2>1 DEF StockTypeOK
<1>5. StockTypeOK'
  BY <1>1, <1>3, <1>4 DEF StockTypeOK
<1>6. told' \ processed' = (told \ processed) \cup {x} /\ x \notin told \ processed
  BY <1>1, <1>2 DEF StockTypeOK
<1>7. IsFiniteSet(told \ processed) /\ told \ processed \subseteq Movement
  BY <1>1, FS_Subset DEF StockTypeOK
<1>8. /\ Owing("inventory", told' \ processed') = Owing("inventory", told \ processed) + Effect("inventory", x)
      /\ Owing("wip", told' \ processed') = Owing("wip", told \ processed) + Effect("wip", x)
      /\ Owing("grir", told' \ processed') = Owing("grir", told \ processed) + Effect("grir", x)
      /\ Owing("inventory", told \ processed) \in Int
      /\ Owing("wip", told \ processed) \in Int
      /\ Owing("grir", told \ processed) \in Int
  BY <1>6, <1>7, OwingMore
<1>9. /\ account["inventory"] \in Int /\ account["wip"] \in Int /\ account["grir"] \in Int
      /\ \A a : Effect(a, x) \in Int
  BY <1>1, EffectType DEF StockTypeOK, Stock!Accounts
<1>10. BooksFollow'
  BY <1>1, <1>8, <1>9 DEF BooksFollow
<1>11. QED
  BY <1>5, <1>10 DEF StockInv

\* What the lines of an entry add to inventory, work in progress and GR/IR.
Adds(books, i, w, g) ==
  /\ books \in [Stock!Accounts -> Int]
  /\ books["inventory"] = account["inventory"] + i
  /\ books["wip"] = account["wip"] + w
  /\ books["grir"] = account["grir"] + g

LEMMA MoveAdds ==
  ASSUME account \in [Stock!Accounts -> Int], NEW v \in Int
  PROVE  /\ Adds(Stock!Move("inventory", "grir", v), v, 0, v)
         /\ Adds(Stock!Move("cost", "grir", v), 0, 0, v)
         /\ Adds(Stock!Move("inventory", "cost", v), v, 0, 0)
         /\ Adds(Stock!Move("cost", "inventory", v), - v, 0, 0)
         /\ Adds(Stock!Move("wip", "inventory", v), - v, v, 0)
         /\ Adds(Stock!Move("inventory", "wip", v), v, - v, 0)
         /\ Adds(account, 0, 0, 0)
<1> USE DEF Adds, Stock!Accounts, Stock!Move
<1>1. Adds(Stock!Move("inventory", "grir", v), v, 0, v)
  OBVIOUS
<1>2. Adds(Stock!Move("cost", "grir", v), 0, 0, v)
  OBVIOUS
<1>3. Adds(Stock!Move("inventory", "cost", v), v, 0, 0)
  OBVIOUS
<1>4. Adds(Stock!Move("cost", "inventory", v), - v, 0, 0)
  OBVIOUS
<1>5. Adds(Stock!Move("wip", "inventory", v), - v, v, 0)
  OBVIOUS
<1>6. Adds(Stock!Move("inventory", "wip", v), v, - v, 0)
  OBVIOUS
<1>7. Adds(account, 0, 0, 0)
  OBVIOUS
<1> HIDE DEF Adds, Stock!Accounts, Stock!Move
<1>8. QED
  BY <1>1, <1>2, <1>3, <1>4, <1>5, <1>6, <1>7

\* A booking adds what the event says, whichever accounts its lines are on.
LEMMA BookedEffect ==
  ASSUME StockInv, NEW e \in told
  PROVE  Adds(Stock!Booked(e), Effect("inventory", e), Effect("wip", e), Effect("grir", e))
<1>1. /\ account \in [Stock!Accounts -> Int] /\ e \in Movement
      /\ e.value > 0 \/ e.type = "adjustment"
  BY DEF StockInv, StockTypeOK
<1>2. e.value \in Int /\ - e.value \in Int /\ - (- e.value) = e.value
  BY <1>1 DEF Movement
<1>3. CASE e.type = "grn"
  <2>1. CASE e.origin = "order"
    <3>1. Stock!Booked(e) = Stock!Move("inventory", "grir", e.value)
      BY <1>2, <1>3, <2>1 DEF Stock!Booked
    <3>2. /\ Effect("inventory", e) = e.value /\ Effect("wip", e) = 0
         /\ Effect("grir", e) = e.value
      BY <1>2, <1>3, <2>1 DEF Effect
    <3>3. QED
      BY <1>1, <1>2, <3>1, <3>2, MoveAdds
  <2>2. CASE e.origin # "order"
    <3>1. Stock!Booked(e) = Stock!Move("cost", "grir", e.value)
      BY <1>2, <1>3, <2>2 DEF Stock!Booked
    <3>2. /\ Effect("inventory", e) = 0 /\ Effect("wip", e) = 0
         /\ Effect("grir", e) = e.value
      BY <1>2, <1>3, <2>2 DEF Effect
    <3>3. QED
      BY <1>1, <1>2, <3>1, <3>2, MoveAdds
  <2>3. QED
    BY <2>1, <2>2
<1>4. CASE e.type = "receipt"
  <2>1. CASE e.origin # "procurement_grn"
    <3>1. Stock!Booked(e) = Stock!Move("inventory", "grir", e.value)
      BY <1>2, <1>4, <2>1 DEF Stock!Booked, Stock!Accrued
    <3>2. /\ Effect("inventory", e) = e.value /\ Effect("wip", e) = 0
         /\ Effect("grir", e) = e.value
      BY <1>2, <1>4, <2>1 DEF Effect
    <3>3. QED
      BY <1>1, <1>2, <3>1, <3>2, MoveAdds
  <2>2. CASE e.origin = "procurement_grn"
    <3>1. Stock!Booked(e) = account
      BY <1>2, <1>4, <2>2 DEF Stock!Booked, Stock!Accrued
    <3>2. /\ Effect("inventory", e) = 0 /\ Effect("wip", e) = 0
         /\ Effect("grir", e) = 0
      BY <1>2, <1>4, <2>2 DEF Effect
    <3>3. QED
      BY <1>1, <1>2, <3>1, <3>2, MoveAdds
  <2>3. QED
    BY <2>1, <2>2
<1>5. CASE e.type = "issue"
  <2>1. Stock!Booked(e) = Stock!Move("cost", "inventory", e.value)
    BY <1>2, <1>5 DEF Stock!Booked
  <2>2. /\ Effect("inventory", e) = - e.value /\ Effect("wip", e) = 0
       /\ Effect("grir", e) = 0
    BY <1>2, <1>5 DEF Effect
  <2>3. QED
    BY <1>1, <1>2, <2>1, <2>2, MoveAdds
<1>6. CASE e.type = "return"
  <2>1. Stock!Booked(e) = Stock!Move("inventory", "cost", e.value)
    BY <1>2, <1>6 DEF Stock!Booked
  <2>2. /\ Effect("inventory", e) = e.value /\ Effect("wip", e) = 0
       /\ Effect("grir", e) = 0
    BY <1>2, <1>6 DEF Effect
  <2>3. QED
    BY <1>1, <1>2, <2>1, <2>2, MoveAdds
<1>7. CASE e.type = "production_consume"
  <2>1. Stock!Booked(e) = Stock!Move("wip", "inventory", e.value)
    BY <1>2, <1>7 DEF Stock!Booked
  <2>2. /\ Effect("inventory", e) = - e.value /\ Effect("wip", e) = e.value
       /\ Effect("grir", e) = 0
    BY <1>2, <1>7 DEF Effect
  <2>3. QED
    BY <1>1, <1>2, <2>1, <2>2, MoveAdds
<1>8. CASE e.type = "production_output"
  <2>1. Stock!Booked(e) = Stock!Move("inventory", "wip", e.value)
    BY <1>2, <1>8 DEF Stock!Booked
  <2>2. /\ Effect("inventory", e) = e.value /\ Effect("wip", e) = - e.value
       /\ Effect("grir", e) = 0
    BY <1>2, <1>8 DEF Effect
  <2>3. QED
    BY <1>1, <1>2, <2>1, <2>2, MoveAdds
<1>9. CASE e.type = "adjustment"
  <2>1. CASE e.value > 0
    <3>1. Stock!Booked(e) = Stock!Move("inventory", "cost", e.value)
      BY <1>2, <1>9, <2>1 DEF Stock!Booked, Stock!Increase, Stock!Abs
    <3>2. /\ Effect("inventory", e) = e.value /\ Effect("wip", e) = 0
         /\ Effect("grir", e) = 0
      BY <1>2, <1>9, <2>1 DEF Effect
    <3>3. QED
      BY <1>1, <1>2, <3>1, <3>2, MoveAdds
  <2>2. CASE ~ e.value > 0
    <3>1. Stock!Booked(e) = Stock!Move("cost", "inventory", - e.value)
      BY <1>2, <1>9, <2>2 DEF Stock!Booked, Stock!Increase, Stock!Abs
    <3>2. /\ Effect("inventory", e) = - (- e.value) /\ Effect("wip", e) = 0
         /\ Effect("grir", e) = 0
      BY <1>2, <1>9, <2>2 DEF Effect
    <3>3. QED
      BY <1>1, <1>2, <3>1, <3>2, MoveAdds
  <2>3. QED
    BY <2>1, <2>2
<1>10. CASE e.type = "transfer"
  <2>1. Stock!Booked(e) = account
    BY <1>2, <1>10 DEF Stock!Booked
  <2>2. /\ Effect("inventory", e) = 0 /\ Effect("wip", e) = 0
       /\ Effect("grir", e) = 0
    BY <1>2, <1>10 DEF Effect
  <2>3. QED
    BY <1>1, <1>2, <2>1, <2>2, MoveAdds
<1>11. QED
  BY <1>1, <1>3, <1>4, <1>5, <1>6, <1>7, <1>8, <1>9, <1>10 DEF Movement

LEMMA StockInitially == Stock!Init => StockInv
<1> SUFFICES ASSUME Stock!Init PROVE StockInv
  OBVIOUS
<1>1. /\ stock = 0 /\ work = 0 /\ bought = 0 /\ told = {} /\ processed = {}
      /\ account = [a \in Stock!Accounts |-> 0]
  BY DEF Stock!Init
<1>2. IsFiniteSet(told)
  BY <1>1, FS_EmptySet
<1>3. StockTypeOK
  BY <1>1, <1>2 DEF StockTypeOK
<1>4. told \ processed = {}
  BY <1>1
<1>5. BooksFollow
  BY <1>1, <1>4, OwingNone DEF BooksFollow, Stock!Accounts
<1>6. QED
  BY <1>3, <1>5 DEF StockInv

MovementTypes ==
  {"grn", "receipt", "issue", "return", "adjustment", "production_consume",
   "production_output", "transfer"}
Origins == {"order", "procurement_grn", "intake", "service", "warehouse"}

Numbered(n, type, value, origin) ==
  [n |-> Cardinality(told) + n, type |-> type, value |-> value, origin |-> origin]

LEMMA NumberedType ==
  ASSUME StockInv, NEW n \in {1, 2}, NEW type \in MovementTypes, NEW value \in Int,
         NEW origin \in Origins
  PROVE  /\ Numbered(n, type, value, origin) \in Movement
         /\ Numbered(n, type, value, origin).n = Cardinality(told) + n
         /\ Numbered(n, type, value, origin).type = type
         /\ Numbered(n, type, value, origin).value = value
         /\ Numbered(n, type, value, origin).origin = origin
         /\ Stock!Event(n, type, value, origin) = Numbered(n, type, value, origin)
<1>1. Cardinality(told) \in Nat
  BY FS_CardinalityType DEF StockInv, StockTypeOK
<1>2. Stock!Cardinality(told) = Cardinality(told)
  BY DEF Stock!Cardinality, Cardinality
<1>3. Cardinality(told) + n \in Nat
  BY <1>1
<1>4. QED
  BY <1>2, <1>3 DEF Numbered, Movement, MovementTypes, Origins, Stock!Event

LEMMA OneTold ==
  ASSUME StockInv, NEW type \in MovementTypes, NEW value \in Int, NEW origin \in Origins,
         value > 0 \/ type = "adjustment",
         Stock!Tell({Stock!Event(1, type, value, origin)}),
         NEW i, NEW w, NEW g,
         Effect("inventory", Numbered(1, type, value, origin)) = i,
         Effect("wip", Numbered(1, type, value, origin)) = w,
         Effect("grir", Numbered(1, type, value, origin)) = g,
         stock' \in Nat, work' \in Nat, bought' \in Nat,
         stock' = stock + i, work' = work + w, bought' = bought + g
  PROVE  StockInv'
<1> DEFINE x == Numbered(1, type, value, origin)
<1>1. /\ x \in Movement /\ x.n = Cardinality(told) + 1 /\ x.type = type /\ x.value = value
      /\ Stock!Event(1, type, value, origin) = x
  BY NumberedType
<1>2. told' = told \cup {x} /\ processed' = processed /\ account' = account
  BY <1>1 DEF Stock!Tell
<1>3. /\ stock' = stock + Effect("inventory", x)
      /\ work' = work + Effect("wip", x)
      /\ bought' = bought + Effect("grir", x)
  OBVIOUS
<1> HIDE DEF x
<1>4. QED
  BY <1>1, <1>2, <1>3, StockTold

\* What happens and is told of by one event.
LEMMA StockHappens ==
  ASSUME Stock!ValueAssumption, StockInv, NEW v \in Value,
         \/ Stock!Intake(v) \/ Stock!DeliverService(v) \/ Stock!Issue(v)
         \/ Stock!Return(v) \/ Stock!Consume(v) \/ Stock!Transfer(v)
         \/ Stock!Adjust(v) \/ Stock!Adjust(- v)
  PROVE  StockInv'
<1>1. /\ v \in Int /\ - v \in Int /\ v > 0
      /\ stock \in Nat /\ work \in Nat /\ bought \in Nat
  BY DEF StockInv, StockTypeOK, Stock!ValueAssumption
<1> USE DEF MovementTypes, Origins
<1>2. CASE Stock!Intake(v)
  <2>1. /\ Numbered(1, "receipt", v, "intake").type = "receipt"
        /\ Numbered(1, "receipt", v, "intake").value = v
        /\ Numbered(1, "receipt", v, "intake").origin = "intake"
    BY <1>1, NumberedType
  <2>2. /\ Effect("inventory", Numbered(1, "receipt", v, "intake")) = v
        /\ Effect("wip", Numbered(1, "receipt", v, "intake")) = 0
        /\ Effect("grir", Numbered(1, "receipt", v, "intake")) = v
    BY <2>1 DEF Effect
  <2>3. /\ stock' = stock + v /\ stock' \in Nat
        /\ work' = work + 0 /\ work' \in Nat
        /\ bought' = bought + v /\ bought' \in Nat
        /\ v \in Int /\ (v > 0 \/ "receipt" = "adjustment")
        /\ Stock!Tell({Stock!Event(1, "receipt", v, "intake")})
    BY <1>1, <1>2 DEF Stock!Intake
  <2>4. QED
    BY <2>2, <2>3, OneTold
<1>3. CASE Stock!DeliverService(v)
  <2>1. /\ Numbered(1, "grn", v, "service").type = "grn"
        /\ Numbered(1, "grn", v, "service").value = v
        /\ Numbered(1, "grn", v, "service").origin = "service"
    BY <1>1, NumberedType
  <2>2. /\ Effect("inventory", Numbered(1, "grn", v, "service")) = 0
        /\ Effect("wip", Numbered(1, "grn", v, "service")) = 0
        /\ Effect("grir", Numbered(1, "grn", v, "service")) = v
    BY <2>1 DEF Effect
  <2>3. /\ stock' = stock + 0 /\ stock' \in Nat
        /\ work' = work + 0 /\ work' \in Nat
        /\ bought' = bought + v /\ bought' \in Nat
        /\ v \in Int /\ (v > 0 \/ "grn" = "adjustment")
        /\ Stock!Tell({Stock!Event(1, "grn", v, "service")})
    BY <1>1, <1>3 DEF Stock!DeliverService
  <2>4. QED
    BY <2>2, <2>3, OneTold
<1>4. CASE Stock!Issue(v)
  <2>1. /\ Numbered(1, "issue", v, "warehouse").type = "issue"
        /\ Numbered(1, "issue", v, "warehouse").value = v
        /\ Numbered(1, "issue", v, "warehouse").origin = "warehouse"
    BY <1>1, NumberedType
  <2>2. /\ Effect("inventory", Numbered(1, "issue", v, "warehouse")) = - v
        /\ Effect("wip", Numbered(1, "issue", v, "warehouse")) = 0
        /\ Effect("grir", Numbered(1, "issue", v, "warehouse")) = 0
    BY <2>1 DEF Effect
  <2>3. /\ stock' = stock + (- v) /\ stock' \in Nat
        /\ work' = work + 0 /\ work' \in Nat
        /\ bought' = bought + 0 /\ bought' \in Nat
        /\ v \in Int /\ (v > 0 \/ "issue" = "adjustment")
        /\ Stock!Tell({Stock!Event(1, "issue", v, "warehouse")})
    BY <1>1, <1>4 DEF Stock!Issue
  <2>4. QED
    BY <2>2, <2>3, OneTold
<1>5. CASE Stock!Return(v)
  <2>1. /\ Numbered(1, "return", v, "warehouse").type = "return"
        /\ Numbered(1, "return", v, "warehouse").value = v
        /\ Numbered(1, "return", v, "warehouse").origin = "warehouse"
    BY <1>1, NumberedType
  <2>2. /\ Effect("inventory", Numbered(1, "return", v, "warehouse")) = v
        /\ Effect("wip", Numbered(1, "return", v, "warehouse")) = 0
        /\ Effect("grir", Numbered(1, "return", v, "warehouse")) = 0
    BY <2>1 DEF Effect
  <2>3. /\ stock' = stock + v /\ stock' \in Nat
        /\ work' = work + 0 /\ work' \in Nat
        /\ bought' = bought + 0 /\ bought' \in Nat
        /\ v \in Int /\ (v > 0 \/ "return" = "adjustment")
        /\ Stock!Tell({Stock!Event(1, "return", v, "warehouse")})
    BY <1>1, <1>5 DEF Stock!Return
  <2>4. QED
    BY <2>2, <2>3, OneTold
<1>6. CASE Stock!Consume(v)
  <2>1. /\ Numbered(1, "production_consume", v, "warehouse").type = "production_consume"
        /\ Numbered(1, "production_consume", v, "warehouse").value = v
        /\ Numbered(1, "production_consume", v, "warehouse").origin = "warehouse"
    BY <1>1, NumberedType
  <2>2. /\ Effect("inventory", Numbered(1, "production_consume", v, "warehouse")) = - v
        /\ Effect("wip", Numbered(1, "production_consume", v, "warehouse")) = v
        /\ Effect("grir", Numbered(1, "production_consume", v, "warehouse")) = 0
    BY <2>1 DEF Effect
  <2>3. /\ stock' = stock + (- v) /\ stock' \in Nat
        /\ work' = work + v /\ work' \in Nat
        /\ bought' = bought + 0 /\ bought' \in Nat
        /\ v \in Int /\ (v > 0 \/ "production_consume" = "adjustment")
        /\ Stock!Tell({Stock!Event(1, "production_consume", v, "warehouse")})
    BY <1>1, <1>6 DEF Stock!Consume
  <2>4. QED
    BY <2>2, <2>3, OneTold
<1>7. CASE Stock!Transfer(v)
  <2>1. /\ Numbered(1, "transfer", v, "warehouse").type = "transfer"
        /\ Numbered(1, "transfer", v, "warehouse").value = v
        /\ Numbered(1, "transfer", v, "warehouse").origin = "warehouse"
    BY <1>1, NumberedType
  <2>2. /\ Effect("inventory", Numbered(1, "transfer", v, "warehouse")) = 0
        /\ Effect("wip", Numbered(1, "transfer", v, "warehouse")) = 0
        /\ Effect("grir", Numbered(1, "transfer", v, "warehouse")) = 0
    BY <2>1 DEF Effect
  <2>3. /\ stock' = stock + 0 /\ stock' \in Nat
        /\ work' = work + 0 /\ work' \in Nat
        /\ bought' = bought + 0 /\ bought' \in Nat
        /\ v \in Int /\ (v > 0 \/ "transfer" = "adjustment")
        /\ Stock!Tell({Stock!Event(1, "transfer", v, "warehouse")})
    BY <1>1, <1>7 DEF Stock!Transfer
  <2>4. QED
    BY <2>2, <2>3, OneTold
<1>8. CASE Stock!Adjust(v)
  <2>1. /\ Numbered(1, "adjustment", v, "warehouse").type = "adjustment"
        /\ Numbered(1, "adjustment", v, "warehouse").value = v
        /\ Numbered(1, "adjustment", v, "warehouse").origin = "warehouse"
    BY <1>1, NumberedType
  <2>2. /\ Effect("inventory", Numbered(1, "adjustment", v, "warehouse")) = v
        /\ Effect("wip", Numbered(1, "adjustment", v, "warehouse")) = 0
        /\ Effect("grir", Numbered(1, "adjustment", v, "warehouse")) = 0
    BY <2>1 DEF Effect
  <2>3. /\ stock' = stock + v /\ stock' \in Nat
        /\ work' = work + 0 /\ work' \in Nat
        /\ bought' = bought + 0 /\ bought' \in Nat
        /\ v \in Int /\ (v > 0 \/ "adjustment" = "adjustment")
        /\ Stock!Tell({Stock!Event(1, "adjustment", v, "warehouse")})
    BY <1>1, <1>8 DEF Stock!Adjust
  <2>4. QED
    BY <2>2, <2>3, OneTold
<1>9. CASE Stock!Adjust(- v)
  <2>1. /\ Numbered(1, "adjustment", - v, "warehouse").type = "adjustment"
        /\ Numbered(1, "adjustment", - v, "warehouse").value = - v
        /\ Numbered(1, "adjustment", - v, "warehouse").origin = "warehouse"
    BY <1>1, NumberedType
  <2>2. /\ Effect("inventory", Numbered(1, "adjustment", - v, "warehouse")) = - v
        /\ Effect("wip", Numbered(1, "adjustment", - v, "warehouse")) = 0
        /\ Effect("grir", Numbered(1, "adjustment", - v, "warehouse")) = 0
    BY <2>1 DEF Effect
  <2>3. /\ stock' = stock + (- v) /\ stock' \in Nat
        /\ work' = work + 0 /\ work' \in Nat
        /\ bought' = bought + 0 /\ bought' \in Nat
        /\ - v \in Int /\ (- v > 0 \/ "adjustment" = "adjustment")
        /\ Stock!Tell({Stock!Event(1, "adjustment", - v, "warehouse")})
    BY <1>1, <1>9 DEF Stock!Adjust
  <2>4. QED
    BY <2>2, <2>3, OneTold
<1>10. QED
  BY <1>2, <1>3, <1>4, <1>5, <1>6, <1>7, <1>8, <1>9

LEMMA StockOutput ==
  ASSUME StockInv, Stock!Output
  PROVE  StockInv'
<1>1. /\ work \in Int /\ - work \in Int /\ work > 0
      /\ stock \in Nat /\ work \in Nat /\ bought \in Nat
  BY DEF StockInv, StockTypeOK, Stock!Output
<1> USE DEF MovementTypes, Origins
<1>2. /\ Numbered(1, "production_output", work, "warehouse").type = "production_output"
      /\ Numbered(1, "production_output", work, "warehouse").value = work
      /\ Numbered(1, "production_output", work, "warehouse").origin = "warehouse"
  BY <1>1, NumberedType
<1>3. /\ Effect("inventory", Numbered(1, "production_output", work, "warehouse")) = work
      /\ Effect("wip", Numbered(1, "production_output", work, "warehouse")) = - work
      /\ Effect("grir", Numbered(1, "production_output", work, "warehouse")) = 0
  BY <1>2 DEF Effect
<1>4. /\ stock' = stock + work /\ stock' \in Nat
      /\ work' = work + (- work) /\ work' \in Nat
      /\ bought' = bought + 0 /\ bought' \in Nat
      /\ work \in Int /\ (work > 0 \/ "production_output" = "adjustment")
      /\ Stock!Tell({Stock!Event(1, "production_output", work, "warehouse")})
  BY <1>1 DEF Stock!Output
<1>5. QED
  BY <1>3, <1>4, OneTold

\* A delivery against an order is told twice: the receipt moves the books, the
\* movement that was accrued with it moves nothing.
LEMMA StockDelivered ==
  ASSUME Stock!ValueAssumption, StockInv, NEW v \in Value, Stock!Deliver(v)
  PROVE  StockInv'
<1> DEFINE x == Numbered(1, "grn", v, "order")
           y == Numbered(2, "receipt", v, "procurement_grn")
           P == told \ processed
           Q == told' \ processed'
<1>1. /\ StockTypeOK /\ BooksFollow /\ v \in Int /\ v \in Nat /\ v > 0
      /\ stock \in Nat /\ work \in Nat /\ bought \in Nat
  BY DEF StockInv, StockTypeOK, Stock!ValueAssumption
<1>2. /\ x \in Movement /\ x.n = Cardinality(told) + 1 /\ x.type = "grn" /\ x.value = v
      /\ x.origin = "order" /\ Stock!Event(1, "grn", v, "order") = x
  BY <1>1, NumberedType DEF MovementTypes, Origins
<1>3. /\ y \in Movement /\ y.n = Cardinality(told) + 2 /\ y.type = "receipt" /\ y.value = v
      /\ y.origin = "procurement_grn"
      /\ Stock!Event(2, "receipt", v, "procurement_grn") = y
  BY <1>1, NumberedType DEF MovementTypes, Origins
<1>4. /\ told' = told \cup {x, y} /\ processed' = processed /\ account' = account
      /\ stock' = stock + v /\ bought' = bought + v /\ work' = work
  BY <1>2, <1>3 DEF Stock!Deliver, Stock!Tell
<1>5. /\ Effect("inventory", x) = v /\ Effect("wip", x) = 0 /\ Effect("grir", x) = v
      /\ Effect("inventory", y) = 0 /\ Effect("wip", y) = 0 /\ Effect("grir", y) = 0
  BY <1>2, <1>3 DEF Effect
<1> HIDE DEF x, y
<1>6. /\ Cardinality(told) \in Nat /\ IsFiniteSet(told)
      /\ \A e \in told : e.n \in Nat /\ e.n <= Cardinality(told)
  BY <1>1, FS_CardinalityType DEF StockTypeOK, Movement
<1>7. x \notin told /\ y \notin told \cup {x}
  BY <1>2, <1>3, <1>6
<1>8. IsFiniteSet(told \cup {x}) /\ Cardinality(told \cup {x}) = Cardinality(told) + 1
  BY <1>6, <1>7, FS_AddElement
<1>9. ASSUME NEW T, IsFiniteSet(T), Cardinality(T) = Cardinality(told) + 1, y \notin T
      PROVE  IsFiniteSet(T \cup {y}) /\ Cardinality(T \cup {y}) = Cardinality(told) + 2
  <2>1. IsFiniteSet(T \cup {y}) /\ Cardinality(T \cup {y}) = Cardinality(T) + 1
    BY <1>9, FS_AddElement
  <2>2. QED
    BY <1>6, <1>9, <2>1
<1>10. told' = (told \cup {x}) \cup {y}
  BY <1>4
<1>11. IsFiniteSet(told') /\ Cardinality(told') = Cardinality(told) + 2
  BY <1>7, <1>8, <1>9, <1>10
<1>12. \A e \in told' : e.n <= Cardinality(told')
  BY <1>2, <1>3, <1>4, <1>6, <1>11
<1>13. StockTypeOK'
  <2>1. told' \subseteq Movement /\ processed' \subseteq told'
    BY <1>1, <1>2, <1>3, <1>4 DEF StockTypeOK
  <2>2. \A e \in told' : e.value > 0 \/ e.type = "adjustment"
    BY <1>1, <1>2, <1>3, <1>4 DEF StockTypeOK
  <2>3. stock' \in Nat /\ work' \in Nat /\ bought' \in Nat
    BY <1>1, <1>4
  <2>4. account' \in [Stock!Accounts -> Int]
    BY <1>1, <1>4 DEF StockTypeOK
  <2>5. QED
    BY <1>11, <1>12, <2>1, <2>2, <2>3, <2>4 DEF StockTypeOK
<1>14. /\ Q = (P \cup {x}) \cup {y} /\ x \notin P /\ y \notin P \cup {x}
       /\ P \subseteq Movement /\ P \cup {x} \subseteq Movement
  BY <1>1, <1>2, <1>4, <1>7 DEF StockTypeOK
<1>15. IsFiniteSet(P)
  BY <1>6, FS_Subset
<1> HIDE DEF P, Q
<1>16. IsFiniteSet(P \cup {x})
  BY <1>15, FS_AddElement
<1>17. ASSUME NEW a
       PROVE  /\ Owing(a, Q) = Owing(a, P) + Effect(a, x) + Effect(a, y)
              /\ Owing(a, P) \in Int
  <2>1. Owing(a, P \cup {x}) = Owing(a, P) + Effect(a, x) /\ Owing(a, P) \in Int
    BY <1>2, <1>14, <1>15, OwingMore
  <2>2. Owing(a, (P \cup {x}) \cup {y}) = Owing(a, P \cup {x}) + Effect(a, y)
    BY <1>3, <1>14, <1>16, OwingMore
  <2>3. QED
    BY <1>14, <2>1, <2>2
<1>18. /\ account["inventory"] \in Int /\ account["wip"] \in Int /\ account["grir"] \in Int
       /\ account["inventory"] + Owing("inventory", P) = stock
       /\ account["wip"] + Owing("wip", P) = work
       /\ account["grir"] + Owing("grir", P) = bought
  BY <1>1 DEF StockTypeOK, Stock!Accounts, BooksFollow, P
<1>19. /\ Owing("inventory", Q) = Owing("inventory", P) + v /\ Owing("inventory", P) \in Int
       /\ Owing("wip", Q) = Owing("wip", P) /\ Owing("wip", P) \in Int
       /\ Owing("grir", Q) = Owing("grir", P) + v /\ Owing("grir", P) \in Int
  BY <1>1, <1>5, <1>17
<1>20. BooksFollow'
  <2>1. /\ account'["inventory"] + Owing("inventory", Q) = stock'
        /\ account'["wip"] + Owing("wip", Q) = work'
        /\ account'["grir"] + Owing("grir", Q) = bought'
    BY <1>1, <1>4, <1>18, <1>19
  <2>2. QED
    BY <2>1 DEF BooksFollow, Q
<1>21. QED
  BY <1>13, <1>20 DEF StockInv

\* A delivery of an event books it once and takes it from what is on its way.
LEMMA StockBooked ==
  ASSUME StockInv, NEW e \in told, Stock!Deliveries(e)
  PROVE  StockInv'
<1> DEFINE P == told \ processed
           Q == told' \ processed'
<1>1. /\ StockTypeOK /\ BooksFollow /\ e \in Movement
      /\ account \in [Stock!Accounts -> Int]
  BY DEF StockInv, StockTypeOK
<1>2. /\ stock' = stock /\ work' = work /\ bought' = bought /\ told' = told
      /\ processed' = processed \cup {e}
      /\ account' = IF e \notin processed THEN Stock!Booked(e) ELSE account
  BY DEF Stock!Deliveries, Stock!New
<1>3. CASE e \in processed
  <2>1. processed' = processed /\ account' = account
    BY <1>2, <1>3
  <2>2. QED
    BY <1>1, <1>2, <2>1 DEF StockInv, StockTypeOK, BooksFollow
<1>4. CASE e \notin processed
  <2>1. /\ account' \in [Stock!Accounts -> Int]
        /\ account'["inventory"] = account["inventory"] + Effect("inventory", e)
        /\ account'["wip"] = account["wip"] + Effect("wip", e)
        /\ account'["grir"] = account["grir"] + Effect("grir", e)
    BY <1>2, <1>4, BookedEffect DEF Adds
  <2>2. StockTypeOK'
    BY <1>1, <1>2, <2>1 DEF StockTypeOK
  <2>3. P = Q \cup {e} /\ e \notin Q /\ Q \subseteq Movement /\ Q \subseteq told
    BY <1>1, <1>2, <1>4 DEF StockTypeOK
  <2>4. IsFiniteSet(Q)
    BY <1>1, <2>3, FS_Subset DEF StockTypeOK
  <2> HIDE DEF P, Q
  <2>5. ASSUME NEW a
        PROVE  /\ Owing(a, P) = Owing(a, Q) + Effect(a, e) /\ Owing(a, Q) \in Int
               /\ Effect(a, e) \in Int
    BY <1>1, <2>3, <2>4, OwingMore, EffectType
  <2>6. /\ account["inventory"] \in Int /\ account["wip"] \in Int /\ account["grir"] \in Int
        /\ account["inventory"] + Owing("inventory", P) = stock
        /\ account["wip"] + Owing("wip", P) = work
        /\ account["grir"] + Owing("grir", P) = bought
    BY <1>1 DEF Stock!Accounts, BooksFollow, P
  <2>7. /\ account'["inventory"] + Owing("inventory", Q) = stock'
        /\ account'["wip"] + Owing("wip", Q) = work'
        /\ account'["grir"] + Owing("grir", Q) = bought'
    BY <1>2, <2>1, <2>5, <2>6
  <2>8. BooksFollow'
    BY <2>7 DEF BooksFollow, Q
  <2>9. QED
    BY <2>2, <2>8 DEF StockInv
<1>5. QED
  BY <1>3, <1>4

LEMMA StockBilled ==
  ASSUME StockInv, Stock!Bill
  PROVE  StockInv'
<1>1. StockTypeOK /\ BooksFollow
  BY DEF StockInv
<1>2. /\ bought > 0 /\ processed = told /\ bought' = 0
      /\ account' = [account EXCEPT !["grir"] = @ - bought]
      /\ stock' = stock /\ work' = work /\ told' = told /\ processed' = processed
  BY DEF Stock!Bill
<1>3. /\ account' \in [Stock!Accounts -> Int] /\ account["grir"] \in Int /\ bought \in Nat
      /\ account'["inventory"] = account["inventory"] /\ account'["wip"] = account["wip"]
      /\ account'["grir"] = account["grir"] - bought
  BY <1>1, <1>2 DEF StockTypeOK, Stock!Accounts
<1>4. StockTypeOK'
  BY <1>1, <1>2, <1>3 DEF StockTypeOK
<1>5. told \ processed = {} /\ Owing("grir", {}) = 0
  BY <1>2, OwingNone
<1>6. BooksFollow'
  BY <1>1, <1>2, <1>3, <1>5 DEF BooksFollow
<1>7. QED
  BY <1>4, <1>6 DEF StockInv

\* When every event has been booked, in whatever order and however often each
\* was delivered, inventory and work in progress are worth what there is and the
\* clearing account is what was received and not billed (BookInventoryMovement,
\* ledger/inventory.go).
THEOREM StockIsSound ==
  ASSUME Stock!ValueAssumption
  PROVE  Stock!Spec => []Stock!StockTies
<1>1. Stock!Init => StockInv
  BY StockInitially
<1>2. StockInv /\ [Stock!Next]_Stock!vars => StockInv'
  <2> SUFFICES ASSUME StockInv, [Stock!Next]_Stock!vars PROVE StockInv'
    OBVIOUS
  <2>1. CASE UNCHANGED Stock!vars
    BY <2>1 DEF Stock!vars, StockInv, StockTypeOK, BooksFollow
  <2>2. ASSUME NEW v \in Value,
               \/ Stock!Intake(v) \/ Stock!DeliverService(v) \/ Stock!Issue(v)
               \/ Stock!Return(v) \/ Stock!Consume(v) \/ Stock!Transfer(v)
               \/ Stock!Adjust(v) \/ Stock!Adjust(- v)
        PROVE  StockInv'
    BY <2>2, StockHappens
  <2>3. ASSUME NEW v \in Value, Stock!Deliver(v)
        PROVE  StockInv'
    BY <2>3, StockDelivered
  <2>4. ASSUME NEW e \in told, Stock!Deliveries(e)
        PROVE  StockInv'
    BY <2>4, StockBooked
  <2>5. CASE Stock!Output \/ Stock!Bill
    BY <2>5, StockOutput, StockBilled
  <2>6. QED
    BY <2>1, <2>2, <2>3, <2>4, <2>5 DEF Stock!Next
<1>3. StockInv => Stock!StockTies
  <2> SUFFICES ASSUME StockInv, processed = told
               PROVE  /\ account["inventory"] = stock
                      /\ account["wip"] = work
                      /\ account["grir"] = bought
    BY DEF Stock!StockTies
  <2>1. /\ told \ processed = {} /\ account["inventory"] \in Int
        /\ account["wip"] \in Int /\ account["grir"] \in Int
    BY DEF StockInv, StockTypeOK, Stock!Accounts
  <2>2. /\ account["inventory"] + Owing("inventory", {}) = stock
        /\ account["wip"] + Owing("wip", {}) = work
        /\ account["grir"] + Owing("grir", {}) = bought
    BY <2>1 DEF StockInv, BooksFollow
  <2>3. /\ Owing("inventory", {}) = 0 /\ Owing("wip", {}) = 0 /\ Owing("grir", {}) = 0
    BY OwingNone
  <2>4. QED
    BY <2>1, <2>2, <2>3
<1>4. QED
  BY <1>1, <1>2, <1>3, PTL DEF Stock!Spec

-----------------------------------------------------------------------------
(* Approvals. *)

ApprovalAssumption == Sign!TierAssumption /\ Sign!ActorAssumption /\ Sign!TargetAssumption

StatusValue == {"none", "pending", "approved", "rejected", "executed"}

\* Who stands on an approval, and what a request is doing with it: targets and
\* requesters are set once, a request executes only what is fully signed and
\* has done its part before it marks it.
ApprovalTypeOK ==
  /\ approval \in [Caller -> [status : StatusValue,
                                target : Sign!Target \cup {Nobody},
                                by : Actor \cup {Nobody}]]
  /\ signed \in [Caller -> [Tier -> Actor \cup {Nobody}]]
  /\ executing \in [Caller -> {"no", "execute", "mark"}]
  /\ done \in [Sign!Target -> Nat]
  /\ deleted \subseteq Journal /\ unread \subseteq Journal
  /\ faults \in Nat

SignaturesOK(a) ==
  /\ Sign!Status(a) = "none" =>
       approval[a] = Sign!Unsubmitted /\ \A k \in Tier : signed[a][k] = Nobody
  /\ Sign!Status(a) # "none" => approval[a].target \in Sign!Target /\ approval[a].by \in Actor
  /\ \A k \in Tier : signed[a][k] # Nobody =>
       signed[a][k] # approval[a].by /\ k \in MayApprove[signed[a][k]]
  /\ \A k, l \in Tier :
       signed[a][k] = signed[a][l] /\ signed[a][k] # Nobody => k = l
  /\ Sign!Status(a) \in {"approved", "executed"} => Sign!Unsigned(a) = {}

ExecutionOK(a) ==
  /\ executing[a] # "no" => Sign!Status(a) = "approved"
  /\ executing[a] = "mark" \/ Sign!Status(a) = "executed" =>
       done[approval[a].target] > 0

ApprovalInv ==
  /\ ApprovalTypeOK
  /\ \A a \in Caller : SignaturesOK(a) /\ ExecutionOK(a)
  /\ Sign!DoneOnce
  /\ Sign!DualControl

-----------------------------------------------------------------------------
(* Type correctness. *)

LEMMA ApprovalTypeInit ==
  ASSUME ApprovalAssumption, Sign!Init PROVE ApprovalTypeOK
BY DEF ApprovalAssumption, Sign!TierAssumption, Sign!ActorAssumption, Sign!Init,
       ApprovalTypeOK, Sign!Unsubmitted, StatusValue, Sign!Target

\* A status change leaves the target and the requester.
LEMMA StatusChange ==
  ASSUME ApprovalTypeOK, NEW a \in Caller, NEW s \in StatusValue,
         approval' = [approval EXCEPT ![a].status = s]
  PROVE  /\ approval' \in [Caller -> [status : StatusValue,
                                         target : Sign!Target \cup {Nobody},
                                         by : Actor \cup {Nobody}]]
         /\ Sign!Status(a)' = s
         /\ \A b \in Caller : /\ approval'[b].target = approval[b].target
                              /\ approval'[b].by = approval[b].by
                              /\ b # a => approval'[b] = approval[b]
<1> USE DEF ApprovalTypeOK, Sign!Status
<1>1. approval'[a] = [approval[a] EXCEPT !.status = s]
  OBVIOUS
<1>2. \A b \in Caller : b # a => approval'[b] = approval[b]
  OBVIOUS
<1>3. QED
  BY <1>1, <1>2

\* Counting one more post or payment.
LEMMA DoneCounts ==
  ASSUME ApprovalTypeOK, NEW t \in Sign!Target,
         \/ done' = [done EXCEPT ![t] = @ + 1] /\ done[t] = 0
         \/ done' = Sign!Paid(t)
  PROVE  /\ done' \in [Sign!Target -> Nat]
         /\ done'[t] > 0
         /\ Sign!DoneOnce => done'[t] <= 1
         /\ \A u \in Sign!Target \ {t} : done'[u] = done[u]
BY DEF ApprovalTypeOK, Sign!Paid, Sign!DoneOnce

LEMMA ApprovalTypeStep ==
  ASSUME ApprovalAssumption, ApprovalTypeOK, Sign!Next
  PROVE  ApprovalTypeOK'
<1> USE DEF StatusValue, Sign!Target
<1>1. ASSUME NEW x \in Actor, NEW a \in Caller, NEW t \in Sign!Target,
             Sign!Submit(x, a, t)
      PROVE  ApprovalTypeOK'
  BY <1>1 DEF Sign!Submit, ApprovalTypeOK
<1>2. ASSUME NEW x \in Actor, NEW a \in Caller, Sign!Approve(x, a)
      PROVE  ApprovalTypeOK'
  <2>1. PICK k \in Sign!Unsigned(a) :
          /\ signed' = [signed EXCEPT ![a][k] = x]
          /\ \/ /\ approval' = [approval EXCEPT ![a].status = "approved"]
                /\ executing' = [executing EXCEPT ![a] = "execute"]
             \/ UNCHANGED << approval, executing >>
    BY <1>2 DEF Sign!Approve
  <2>2. k \in Tier
    BY DEF Sign!Unsigned, Sign!Required
  <2>3. signed' \in [Caller -> [Tier -> Actor \cup {Nobody}]]
    BY <2>1, <2>2 DEF ApprovalTypeOK
  <2>4. executing' \in [Caller -> {"no", "execute", "mark"}]
    BY <2>1 DEF ApprovalTypeOK
  <2>5. approval' \in [Caller -> [status : StatusValue,
                                    target : Sign!Target \cup {Nobody},
                                    by : Actor \cup {Nobody}]]
    BY <2>1, StatusChange DEF ApprovalTypeOK
  <2>6. QED
    BY <1>2, <2>3, <2>4, <2>5 DEF Sign!Approve, ApprovalTypeOK
<1>3. ASSUME NEW x \in Actor, NEW a \in Caller, Sign!Reject(x, a)
      PROVE  ApprovalTypeOK'
  BY <1>3, StatusChange DEF Sign!Reject, ApprovalTypeOK
<1>4. ASSUME NEW a \in Caller, Sign!ExecuteJournal(a)
      PROVE  ApprovalTypeOK'
  BY <1>4, DoneCounts DEF Sign!ExecuteJournal, Sign!Postable, ApprovalTypeOK
<1>5. ASSUME NEW a \in Caller, Sign!ExecutePayment(a)
      PROVE  ApprovalTypeOK'
  BY <1>5, DoneCounts DEF Sign!ExecutePayment, ApprovalTypeOK
<1>6. ASSUME NEW a \in Caller, Sign!MarkApprovalExecuted(a)
      PROVE  ApprovalTypeOK'
  BY <1>6, StatusChange DEF Sign!MarkApprovalExecuted, ApprovalTypeOK
<1>7. ASSUME NEW a \in Caller, Sign!ExecutionFails(a)
      PROVE  ApprovalTypeOK'
  BY <1>7 DEF Sign!ExecutionFails, ApprovalTypeOK
<1>8. ASSUME NEW j \in Journal, Sign!PostDirect(j) \/ Sign!PostUnread(j)
      PROVE  ApprovalTypeOK'
  BY <1>8, DoneCounts DEF Sign!PostDirect, Sign!PostUnread, Sign!Postable, ApprovalTypeOK
<1>9. ASSUME NEW j \in Journal, Sign!DeleteDraft(j)
      PROVE  ApprovalTypeOK'
  BY <1>9 DEF Sign!DeleteDraft, ApprovalTypeOK
<1>10. ASSUME NEW p \in Payment, Sign!PayDirect(p)
       PROVE  ApprovalTypeOK'
  BY <1>10, DoneCounts DEF Sign!PayDirect, ApprovalTypeOK
<1>11. QED
  BY <1>1, <1>2, <1>3, <1>4, <1>5, <1>6, <1>7, <1>8, <1>9, <1>10
     DEF Sign!Next, Sign!Decision, Sign!Execution

-----------------------------------------------------------------------------
(* Sign-off. *)

\* An approval nothing is missing from is fully signed.
LEMMA SignedOff ==
  ASSUME ApprovalTypeOK, NEW a \in Caller, SignaturesOK(a),
         Sign!Status(a) \in {"approved", "executed"}
  PROVE  approval[a].target \in Sign!Target /\ Sign!FullySigned(a)
<1>1. approval[a].target \in Sign!Target
  BY DEF SignaturesOK
<1>2. \A k \in Sign!Required(approval[a].target) : k \in Tier /\ signed[a][k] # Nobody
  BY DEF SignaturesOK, Sign!Unsigned, Sign!Required
<1>3. QED
  BY <1>1, <1>2 DEF SignaturesOK, Sign!FullySigned, ApprovalTypeOK

\* What a sign-off rests on stays: an approval that keeps its target and its
\* signatures keeps being fully signed.
Keeps(a) == /\ approval'[a].target = approval[a].target
            /\ approval'[a].by = approval[a].by
            /\ signed'[a] = signed[a]

LEMMA KeepsSignedOff ==
  ASSUME NEW a \in Caller, Keeps(a), Sign!FullySigned(a)
  PROVE  Sign!FullySigned(a)'
BY DEF Keeps, Sign!FullySigned

\* A step under which sign-offs stay and every target it posts or pays is
\* signed off, below the first band or unguarded keeps DualControl.
LEMMA DualControlKept ==
  ASSUME Sign!DualControl,
         \A a \in Caller : approval[a].target \in Sign!Target /\ Sign!FullySigned(a) =>
           approval'[a].target = approval[a].target /\ Sign!FullySigned(a)',
         RequireApproval =>
           \A t \in Sign!Target :
             done'[t] > 0 /\ Sign!Required(t) # {} /\ t \notin unread' =>
               \/ done[t] > 0 /\ t \notin unread
               \/ \E a \in Caller : approval[a].target = t /\ Sign!FullySigned(a)
  PROVE  Sign!DualControl'
<1> SUFFICES ASSUME RequireApproval, NEW t \in Sign!Target,
                    done'[t] > 0, Sign!Required(t) # {}, t \notin unread'
             PROVE  \E a \in Caller :
                      approval'[a].target = t /\ Sign!FullySigned(a)'
  BY DEF Sign!DualControl, Sign!Required
<1>1. PICK a \in Caller : approval[a].target = t /\ Sign!FullySigned(a)
  BY DEF Sign!DualControl
<1>2. QED
  BY <1>1

\* An approval keeps its part of the invariant when nothing of it changes and
\* no count goes down.
LEMMA OthersKept ==
  ASSUME ApprovalTypeOK, NEW b \in Caller, SignaturesOK(b), ExecutionOK(b),
         approval'[b] = approval[b], signed'[b] = signed[b],
         executing'[b] = executing[b] \/ executing'[b] = "no",
         \A t \in Sign!Target : done'[t] >= done[t], done' \in [Sign!Target -> Nat]
  PROVE  SignaturesOK(b)' /\ ExecutionOK(b)'
<1>1. SignaturesOK(b)'
  BY DEF SignaturesOK, Sign!Status, Sign!Unsigned
<1>2. Sign!Status(b) = "executed" \/ executing[b] = "mark" =>
        approval[b].target \in Sign!Target
  BY DEF SignaturesOK, ExecutionOK, Sign!Status
<1>3. ExecutionOK(b)'
  BY <1>2 DEF ExecutionOK, Sign!Status, ApprovalTypeOK
<1>4. QED
  BY <1>1, <1>3

-----------------------------------------------------------------------------
(* One lemma for each operation. *)

Approved == \A a \in Caller : SignaturesOK(a) /\ ExecutionOK(a)

LEMMA SubmitKeeps ==
  ASSUME ApprovalAssumption, ApprovalInv, ApprovalTypeOK',
         NEW x \in Actor, NEW a \in Caller, NEW t \in Sign!Target, Sign!Submit(x, a, t)
  PROVE  Approved' /\ Sign!DoneOnce' /\ Sign!DualControl'
<1> USE DEF ApprovalInv
<1>1. /\ approval'[a] = [status |-> "pending", target |-> t, by |-> x]
      /\ \A b \in Caller \ {a} : approval'[b] = approval[b]
  BY DEF Sign!Submit, ApprovalTypeOK
<1>2. /\ UNCHANGED << signed, executing, done, unread >>
      /\ Sign!Status(a) = "none"
  BY DEF Sign!Submit
<1>3. /\ approval[a].target = Nobody
      /\ \A k \in Tier : signed[a][k] = Nobody
  BY <1>2 DEF SignaturesOK, Sign!Unsubmitted
<1>4. SignaturesOK(a)' /\ ExecutionOK(a)'
  BY <1>1, <1>2, <1>3 DEF SignaturesOK, ExecutionOK, Sign!Status
<1>5. \A b \in Caller \ {a} : SignaturesOK(b)' /\ ExecutionOK(b)'
  BY <1>1, <1>2, OthersKept DEF ApprovalTypeOK
<1>6. \A b \in Caller : approval[b].target \in Sign!Target => b # a
  BY <1>3 DEF ApprovalAssumption, Sign!TargetAssumption
<1>7. \A b \in Caller : approval[b].target \in Sign!Target /\ Sign!FullySigned(b) =>
        approval'[b].target = approval[b].target /\ Sign!FullySigned(b)'
  BY <1>1, <1>2, <1>6, KeepsSignedOff DEF Keeps
<1>8. Sign!DualControl'
  BY <1>2, <1>7, DualControlKept
<1>9. QED
  BY <1>2, <1>4, <1>5, <1>8 DEF Approved, Sign!DoneOnce

LEMMA ApproveKeeps ==
  ASSUME ApprovalAssumption, ApprovalInv, ApprovalTypeOK',
         NEW x \in Actor, NEW a \in Caller, Sign!Approve(x, a)
  PROVE  Approved' /\ Sign!DoneOnce' /\ Sign!DualControl'
<1> USE DEF ApprovalInv
<1>1. PICK k \in Sign!Unsigned(a) :
        /\ k \in MayApprove[x]
        /\ signed' = [signed EXCEPT ![a][k] = x]
        /\ \/ /\ Sign!Unsigned(a) = {k}
              /\ approval' = [approval EXCEPT ![a].status = "approved"]
              /\ executing' = [executing EXCEPT ![a] = "execute"]
           \/ UNCHANGED << approval, executing >>
  BY DEF Sign!Approve
<1>2. /\ Sign!Status(a) = "pending" /\ x # approval[a].by
      /\ \A l \in Tier : signed[a][l] # x
      /\ UNCHANGED << done, unread >>
  BY DEF Sign!Approve, Sign!HasSigned
<1>3. /\ k \in Tier /\ signed[a][k] = Nobody
      /\ k \in Sign!Required(approval[a].target)
      /\ x # Nobody
  BY DEF Sign!Unsigned, Sign!Required, ApprovalAssumption, Sign!ActorAssumption
<1>4. /\ signed'[a][k] = x
      /\ \A l \in Tier \ {k} : signed'[a][l] = signed[a][l]
      /\ \A b \in Caller \ {a} : signed'[b] = signed[b]
  BY <1>1, <1>3 DEF ApprovalTypeOK
<1>5. /\ approval'[a].target = approval[a].target
      /\ approval'[a].by = approval[a].by
      /\ \A b \in Caller \ {a} : approval'[b] = approval[b]
  BY <1>1, StatusChange DEF StatusValue
<1>6. /\ \/ Sign!Status(a)' = "pending" /\ executing'[a] = executing[a]
         \/ Sign!Status(a)' = "approved" /\ executing'[a] = "execute" /\ Sign!Unsigned(a) = {k}
      /\ \A b \in Caller \ {a} : executing'[b] = executing[b]
  <2>1. CASE UNCHANGED << approval, executing >>
    BY <1>2, <2>1 DEF Sign!Status
  <2>2. CASE ~ UNCHANGED << approval, executing >>
    <3>1. /\ Sign!Unsigned(a) = {k}
          /\ approval' = [approval EXCEPT ![a].status = "approved"]
          /\ executing' = [executing EXCEPT ![a] = "execute"]
      BY <1>1, <2>2
    <3>2. Sign!Status(a)' = "approved"
      BY <3>1, StatusChange DEF StatusValue
    <3>3. QED
      BY <3>1, <3>2 DEF ApprovalTypeOK
  <2>3. QED
    BY <2>1, <2>2
<1>7. SignaturesOK(a)'
  <2>1. approval[a].target \in Sign!Target /\ approval[a].by \in Actor
    BY <1>2 DEF SignaturesOK
  <2>2. \A l \in Tier : signed'[a][l] # Nobody =>
          signed'[a][l] # approval[a].by /\ l \in MayApprove[signed'[a][l]]
    BY <1>1, <1>2, <1>4 DEF SignaturesOK
  <2>3. \A l, m \in Tier :
          signed'[a][l] = signed'[a][m] /\ signed'[a][l] # Nobody => l = m
    BY <1>2, <1>4 DEF SignaturesOK
  <2>4. Sign!Status(a)' \in {"approved", "executed"} => Sign!Unsigned(a)' = {}
    <3> SUFFICES ASSUME Sign!Unsigned(a) = {k}
                 PROVE  Sign!Unsigned(a)' = {}
      BY <1>6
    <3>1. Sign!Required(approval'[a].target) = Sign!Required(approval[a].target)
      BY <1>5
    <3>2. \A l \in Sign!Required(approval[a].target) : signed'[a][l] # Nobody
      BY <1>3, <1>4 DEF Sign!Unsigned, Sign!Required
    <3>3. QED
      BY <3>1, <3>2 DEF Sign!Unsigned
  <2>5. QED
    BY <1>5, <1>6, <2>1, <2>2, <2>3, <2>4 DEF SignaturesOK
<1>8. ExecutionOK(a)'
  BY <1>2, <1>6 DEF ExecutionOK
<1>9. \A b \in Caller \ {a} : SignaturesOK(b)' /\ ExecutionOK(b)'
  <2>1. done' \in [Sign!Target -> Nat] /\ \A t \in Sign!Target : done'[t] >= done[t]
    BY <1>2 DEF ApprovalTypeOK
  <2>2. QED
    BY <1>4, <1>5, <1>6, <2>1, OthersKept
<1>10. ~ Sign!FullySigned(a)
  <2>1. signed[a][k] \notin Actor
    BY <1>3 DEF ApprovalAssumption, Sign!ActorAssumption
  <2>2. QED
    BY <1>3, <2>1 DEF Sign!FullySigned
<1>11. \A b \in Caller : approval[b].target \in Sign!Target /\ Sign!FullySigned(b) =>
         approval'[b].target = approval[b].target /\ Sign!FullySigned(b)'
  BY <1>4, <1>5, <1>10, KeepsSignedOff DEF Keeps
<1>12. Sign!DualControl'
  BY <1>2, <1>11, DualControlKept
<1>13. QED
  BY <1>2, <1>7, <1>8, <1>9, <1>12 DEF Approved, Sign!DoneOnce

LEMMA RejectKeeps ==
  ASSUME ApprovalAssumption, ApprovalInv, ApprovalTypeOK',
         NEW x \in Actor, NEW a \in Caller, Sign!Reject(x, a)
  PROVE  Approved' /\ Sign!DoneOnce' /\ Sign!DualControl'
<1> USE DEF ApprovalInv
<1>1. /\ approval' = [approval EXCEPT ![a].status = "rejected"]
      /\ Sign!Status(a) = "pending"
      /\ UNCHANGED << signed, executing, done, unread >>
  BY DEF Sign!Reject
<1>2. /\ Sign!Status(a)' = "rejected"
      /\ \A b \in Caller : /\ approval'[b].target = approval[b].target
                           /\ approval'[b].by = approval[b].by
                           /\ b # a => approval'[b] = approval[b]
  BY <1>1, StatusChange DEF StatusValue
<1>3. SignaturesOK(a)' /\ ExecutionOK(a)'
  BY <1>1, <1>2 DEF SignaturesOK, ExecutionOK, Sign!Status
<1>4. \A b \in Caller \ {a} : SignaturesOK(b)' /\ ExecutionOK(b)'
  BY <1>1, <1>2, OthersKept DEF ApprovalTypeOK
<1>5. \A b \in Caller : Sign!FullySigned(b) => Sign!FullySigned(b)'
  BY <1>1, <1>2, KeepsSignedOff DEF Keeps
<1>6. Sign!DualControl'
  BY <1>1, <1>2, <1>5, DualControlKept
<1>7. QED
  BY <1>1, <1>3, <1>4, <1>6 DEF Approved, Sign!DoneOnce

\* Posting or paying a target that is signed off, below the first band or not
\* guarded: the approvals stay as they are, but for one that goes on.
LEMMA DoingKeeps ==
  ASSUME ApprovalInv, ApprovalTypeOK', NEW t \in Sign!Target,
         \/ done' = [done EXCEPT ![t] = @ + 1] /\ done[t] = 0
         \/ done' = Sign!Paid(t),
         approval' = approval, signed' = signed, unread \subseteq unread',
         \A a \in Caller : \/ executing'[a] \in {executing[a], "no"}
                           \/ /\ executing'[a] = "mark"
                              /\ executing[a] = "execute"
                              /\ approval[a].target = t,
         \/ ~ RequireApproval \/ Sign!Required(t) = {} \/ t \in unread'
         \/ \E a \in Caller : approval[a].target = t /\ Sign!FullySigned(a)
  PROVE  Approved' /\ Sign!DoneOnce' /\ Sign!DualControl'
<1> USE DEF ApprovalInv
<1>1. /\ done' \in [Sign!Target -> Nat] /\ done'[t] > 0 /\ done'[t] <= 1
      /\ \A u \in Sign!Target \ {t} : done'[u] = done[u]
  BY DoneCounts
<1>2. \A u \in Sign!Target : done'[u] >= done[u]
  <2>1. done \in [Sign!Target -> Nat]
    BY DEF ApprovalTypeOK
  <2>2. done[t] <= 1
    BY DEF Sign!DoneOnce
  <2>3. done'[t] >= done[t]
    BY <1>1, <2>1, <2>2
  <2>4. QED
    BY <1>1, <2>1, <2>3
<1>3. ASSUME NEW a \in Caller
      PROVE  SignaturesOK(a)' /\ ExecutionOK(a)'
  <2>1. CASE executing'[a] \in {executing[a], "no"}
    BY <1>1, <1>2, <2>1, OthersKept
  <2>2. CASE executing'[a] = "mark" /\ executing[a] = "execute"
             /\ approval[a].target = t
    <3>1. SignaturesOK(a)'
      BY DEF SignaturesOK, Sign!Status, Sign!Unsigned
    <3>2. QED
      BY <1>1, <2>2, <3>1 DEF ExecutionOK, Sign!Status
  <2>3. QED
    BY <2>1, <2>2
<1>4. Sign!DoneOnce'
  BY <1>1 DEF Sign!DoneOnce
<1>5. \A a \in Caller : Sign!FullySigned(a) => Sign!FullySigned(a)'
  BY KeepsSignedOff DEF Keeps
<1>6. Sign!DualControl'
  BY <1>1, <1>5, DualControlKept
<1>7. QED
  BY <1>3, <1>4, <1>6 DEF Approved

LEMMA ExecuteKeeps ==
  ASSUME ApprovalAssumption, ApprovalInv, ApprovalTypeOK',
         NEW a \in Caller, Sign!ExecuteJournal(a) \/ Sign!ExecutePayment(a)
  PROVE  Approved' /\ Sign!DoneOnce' /\ Sign!DualControl'
<1> USE DEF ApprovalInv
<1>1. approval[a].target \in Sign!Target /\ Sign!FullySigned(a)
  <2>1. Sign!Status(a) = "approved"
    BY DEF Sign!ExecuteJournal, Sign!ExecutePayment, ExecutionOK
  <2>2. QED
    BY <2>1, SignedOff
<1>2. /\ UNCHANGED << approval, signed, unread >>
      /\ executing[a] = "execute"
      /\ \A b \in Caller \ {a} : executing'[b] = executing[b]
      /\ executing'[a] \in {"mark", "no"}
  BY DEF Sign!ExecuteJournal, Sign!ExecutePayment, ApprovalTypeOK
<1>3. CASE \/ /\ done' = [done EXCEPT ![approval[a].target] = @ + 1]
              /\ done[approval[a].target] = 0
           \/ done' = Sign!Paid(approval[a].target)
  BY <1>1, <1>2, <1>3, DoingKeeps
<1>4. CASE UNCHANGED done /\ executing'[a] = "no"
  <2>1. \A b \in Caller : SignaturesOK(b)' /\ ExecutionOK(b)'
    BY <1>2, <1>4, OthersKept DEF ApprovalTypeOK
  <2>2. \A b \in Caller : Sign!FullySigned(b) => Sign!FullySigned(b)'
    BY <1>2, KeepsSignedOff DEF Keeps
  <2>3. Sign!DualControl'
    BY <1>2, <1>4, <2>2, DualControlKept
  <2>4. QED
    BY <1>4, <2>1, <2>3 DEF Approved, Sign!DoneOnce
<1>5. QED
  BY <1>3, <1>4 DEF Sign!ExecuteJournal, Sign!ExecutePayment, Sign!Postable, ApprovalTypeOK

LEMMA MarkKeeps ==
  ASSUME ApprovalAssumption, ApprovalInv, ApprovalTypeOK',
         NEW a \in Caller, Sign!MarkApprovalExecuted(a)
  PROVE  Approved' /\ Sign!DoneOnce' /\ Sign!DualControl'
<1> USE DEF ApprovalInv
<1>1. /\ approval' = [approval EXCEPT ![a].status = "executed"]
      /\ executing[a] = "mark" /\ executing'[a] = "no"
      /\ \A b \in Caller \ {a} : executing'[b] = executing[b]
      /\ UNCHANGED << signed, done, unread >>
  BY DEF Sign!MarkApprovalExecuted, ApprovalTypeOK
<1>2. /\ Sign!Status(a)' = "executed"
      /\ \A b \in Caller : /\ approval'[b].target = approval[b].target
                           /\ approval'[b].by = approval[b].by
                           /\ b # a => approval'[b] = approval[b]
  BY <1>1, StatusChange DEF StatusValue
<1>3. Sign!Status(a) = "approved" /\ done[approval[a].target] > 0
  BY <1>1 DEF ExecutionOK
<1>4. SignaturesOK(a)' /\ ExecutionOK(a)'
  <2>1. Sign!Unsigned(a)' = {}
    BY <1>1, <1>2, <1>3 DEF SignaturesOK, Sign!Unsigned
  <2>2. SignaturesOK(a)'
    BY <1>1, <1>2, <1>3, <2>1 DEF SignaturesOK
  <2>3. QED
    BY <1>1, <1>2, <1>3, <2>2 DEF ExecutionOK
<1>5. \A b \in Caller \ {a} : SignaturesOK(b)' /\ ExecutionOK(b)'
  BY <1>1, <1>2, OthersKept DEF ApprovalTypeOK
<1>6. \A b \in Caller : Sign!FullySigned(b) => Sign!FullySigned(b)'
  BY <1>1, <1>2, KeepsSignedOff DEF Keeps
<1>7. Sign!DualControl'
  BY <1>1, <1>2, <1>6, DualControlKept
<1>8. QED
  BY <1>1, <1>4, <1>5, <1>7 DEF Approved, Sign!DoneOnce

LEMMA FailureOrDeletionKeeps ==
  ASSUME ApprovalAssumption, ApprovalInv, ApprovalTypeOK',
         \/ \E a \in Caller : Sign!ExecutionFails(a)
         \/ \E j \in Journal : Sign!DeleteDraft(j)
         \/ UNCHANGED Sign!vars
  PROVE  Approved' /\ Sign!DoneOnce' /\ Sign!DualControl'
<1> USE DEF ApprovalInv
<1>1. /\ UNCHANGED << approval, signed, done, unread >>
      /\ \A b \in Caller : executing'[b] \in {executing[b], "no"}
  BY DEF Sign!ExecutionFails, Sign!DeleteDraft, Sign!vars, ApprovalTypeOK
<1>2. \A b \in Caller : SignaturesOK(b)' /\ ExecutionOK(b)'
  BY <1>1, OthersKept DEF ApprovalTypeOK
<1>3. \A b \in Caller : Sign!FullySigned(b) => Sign!FullySigned(b)'
  BY <1>1, KeepsSignedOff DEF Keeps
<1>4. Sign!DualControl'
  BY <1>1, <1>3, DualControlKept
<1>5. QED
  BY <1>1, <1>2, <1>4 DEF Approved, Sign!DoneOnce

LEMMA DirectKeeps ==
  ASSUME ApprovalAssumption, ApprovalInv, ApprovalTypeOK',
         \/ \E j \in Journal : Sign!PostDirect(j) \/ Sign!PostUnread(j)
         \/ \E p \in Payment : Sign!PayDirect(p)
  PROVE  Approved' /\ Sign!DoneOnce' /\ Sign!DualControl'
<1>1. ASSUME NEW j \in Journal, Sign!PostDirect(j) \/ Sign!PostUnread(j)
      PROVE  Approved' /\ Sign!DoneOnce' /\ Sign!DualControl'
  <2>1. /\ done' = [done EXCEPT ![j] = @ + 1] /\ done[j] = 0
        /\ UNCHANGED << approval, signed, executing >>
        /\ unread \subseteq unread'
        /\ \/ ~ RequireApproval \/ Sign!Required(j) = {} \/ j \in unread'
    BY <1>1 DEF Sign!PostDirect, Sign!PostUnread, Sign!Postable, Sign!Unguarded
  <2>2. j \in Sign!Target
    BY DEF Sign!Target
  <2>3. QED
    BY <2>1, <2>2, DoingKeeps
<1>2. ASSUME NEW p \in Payment, Sign!PayDirect(p)
      PROVE  Approved' /\ Sign!DoneOnce' /\ Sign!DualControl'
  <2>1. /\ done' = Sign!Paid(p)
        /\ UNCHANGED << approval, signed, executing, unread >>
        /\ ~ RequireApproval \/ Sign!Required(p) = {}
    BY <1>2 DEF Sign!PayDirect, Sign!Unguarded
  <2>2. p \in Sign!Target
    BY DEF Sign!Target
  <2>3. QED
    BY <2>1, <2>2, DoingKeeps
<1>3. QED
  BY <1>1, <1>2

-----------------------------------------------------------------------------
(* The theorems. *)

LEMMA ApprovalInvInit ==
  ASSUME ApprovalAssumption, Sign!Init PROVE ApprovalInv
<1>1. ApprovalTypeOK
  BY ApprovalTypeInit
<1>2. \A a \in Caller : SignaturesOK(a) /\ ExecutionOK(a)
  BY DEF Sign!Init, SignaturesOK, ExecutionOK, Sign!Status, Sign!Unsubmitted
<1>3. Sign!DoneOnce /\ Sign!DualControl
  BY DEF Sign!Init, Sign!DoneOnce, Sign!DualControl
<1>4. QED
  BY <1>1, <1>2, <1>3 DEF ApprovalInv

LEMMA ApprovalInvStep ==
  ASSUME ApprovalAssumption, ApprovalInv, [Sign!Next]_Sign!vars
  PROVE  ApprovalInv'
<1>1. ApprovalTypeOK'
  <2>1. CASE Sign!Next
    BY <2>1, ApprovalTypeStep DEF ApprovalInv
  <2>2. CASE UNCHANGED Sign!vars
    BY <2>2 DEF Sign!vars, ApprovalInv, ApprovalTypeOK
  <2>3. QED
    BY <2>1, <2>2
<1>2. Approved' /\ Sign!DoneOnce' /\ Sign!DualControl'
  BY <1>1, SubmitKeeps, ApproveKeeps, RejectKeeps, ExecuteKeeps, MarkKeeps,
     FailureOrDeletionKeeps, DirectKeeps
     DEF Sign!Next, Sign!Decision, Sign!Execution
<1>3. QED
  BY <1>1, <1>2 DEF ApprovalInv, Approved

\* The types of the approval state hold for every set of approvals, targets,
\* tiers and actors (repository/approvals.go).
THEOREM ApprovalTypeCorrect == ASSUME ApprovalAssumption
                               PROVE  Sign!Spec => []ApprovalTypeOK
<1>1. Sign!Init => ApprovalInv
  BY ApprovalInvInit
<1>2. ApprovalInv /\ [Sign!Next]_Sign!vars => ApprovalInv'
  BY ApprovalInvStep
<1>3. ApprovalInv => ApprovalTypeOK
  BY DEF ApprovalInv
<1>4. QED
  BY <1>1, <1>2, <1>3, PTL DEF Sign!Spec

\* With any number of approvers, tiers, approvals naming one target, retries
\* and lost requests, a target is posted or paid at most once, an approval
\* marked executed has done its part, and while approval is enforced no target
\* above the first band goes out without an approval of it on which every
\* required tier is signed by a holder of that tier, no two the same and none
\* the requester (ledger/approvals.go:82-125, repository/approvals.go:165-246).
THEOREM ApprovalsAreSound == ASSUME ApprovalAssumption
                             PROVE  Sign!Spec => []Sign!ApprovalsSound
<1>1. Sign!Init => ApprovalInv
  BY ApprovalInvInit
<1>2. ApprovalInv /\ [Sign!Next]_Sign!vars => ApprovalInv'
  BY ApprovalInvStep
<1>3. ApprovalInv => Sign!ApprovalsSound
  BY DEF ApprovalInv, Sign!ApprovalsSound, Sign!ApprovalActsOnce, ExecutionOK,
         Sign!ExecutedIsDone
<1>4. QED
  BY <1>1, <1>2, <1>3, PTL DEF Sign!Spec

\* A rejected approval stays rejected and is never executed, and an approved
\* one is never rejected, whoever answers when
\* (repository/approvals.go:250-300).
THEOREM DecisionsAreFinal == ASSUME ApprovalAssumption
                             PROVE  Sign!Spec => Sign!DecidedIsFinal
<1>1. ApprovalInv /\ [Sign!Next]_Sign!vars => Sign!KeepsDecision
  <2> SUFFICES ASSUME ApprovalInv, [Sign!Next]_Sign!vars, NEW a \in Caller
               PROVE  /\ Sign!Status(a) = "rejected" =>
                           Sign!Status(a)' = "rejected" /\ executing'[a] = "no"
                      /\ Sign!Status(a) \in {"approved", "executed"} =>
                           Sign!Status(a)' # "rejected"
    BY DEF Sign!KeepsDecision
  <2>1. executing[a] # "no" => Sign!Status(a) = "approved"
    BY DEF ApprovalInv, ExecutionOK
  <2>2. ASSUME NEW b \in Caller, NEW x \in Actor,
               \/ \E t \in Sign!Target : Sign!Submit(x, b, t)
               \/ Sign!Approve(x, b) \/ Sign!Reject(x, b)
        PROVE  /\ a # b => UNCHANGED << approval[a], executing[a] >>
               /\ a = b => Sign!Status(a) \in {"none", "pending"}
    BY <2>2 DEF Sign!Submit, Sign!Approve, Sign!Reject, ApprovalInv, ApprovalTypeOK
  <2>3. ASSUME NEW b \in Caller, Sign!ExecuteJournal(b) \/ Sign!ExecutePayment(b)
        PROVE  /\ UNCHANGED approval
               /\ executing[b] = "execute"
               /\ a # b => executing'[a] = executing[a]
    BY <2>3 DEF Sign!ExecuteJournal, Sign!ExecutePayment, ApprovalInv, ApprovalTypeOK
  <2>4. ASSUME NEW b \in Caller, Sign!MarkApprovalExecuted(b)
        PROVE  /\ executing[b] = "mark"
               /\ Sign!Status(b)' = "executed"
               /\ a # b => UNCHANGED << approval[a], executing[a] >>
    BY <2>4, StatusChange
       DEF Sign!MarkApprovalExecuted, ApprovalInv, ApprovalTypeOK, StatusValue
  <2>5. ASSUME NEW b \in Caller, Sign!ExecutionFails(b)
        PROVE  UNCHANGED approval /\ executing'[a] \in {executing[a], "no"}
    BY <2>5 DEF Sign!ExecutionFails, ApprovalInv, ApprovalTypeOK
  <2>6. ASSUME \/ \E j \in Journal :
                    Sign!PostDirect(j) \/ Sign!PostUnread(j) \/ Sign!DeleteDraft(j)
               \/ \E p \in Payment : Sign!PayDirect(p)
               \/ UNCHANGED Sign!vars
        PROVE  UNCHANGED << approval, executing >>
    BY <2>6 DEF Sign!PostDirect, Sign!PostUnread, Sign!DeleteDraft, Sign!PayDirect, Sign!vars
  <2>7. CASE UNCHANGED << approval[a], executing[a] >>
    BY <2>1, <2>7 DEF Sign!Status
  <2>8. CASE \E b \in Caller, x \in Actor :
               \/ \E t \in Sign!Target : Sign!Submit(x, b, t)
               \/ Sign!Approve(x, b) \/ Sign!Reject(x, b)
    BY <2>2, <2>7, <2>8 DEF Sign!Status
  <2>9. CASE \E b \in Caller :
               \/ Sign!ExecuteJournal(b) \/ Sign!ExecutePayment(b)
               \/ Sign!MarkApprovalExecuted(b) \/ Sign!ExecutionFails(b)
    BY <2>1, <2>3, <2>4, <2>5, <2>7, <2>9 DEF Sign!Status
  <2>10. QED
    BY <2>6, <2>7, <2>8, <2>9 DEF Sign!Next, Sign!Decision, Sign!Execution
<1>2. Sign!Init => ApprovalInv
  BY ApprovalInvInit
<1>3. ApprovalInv /\ [Sign!Next]_Sign!vars => ApprovalInv'
  BY ApprovalInvStep
<1>4. QED
  BY <1>1, <1>2, <1>3, PTL DEF Sign!Spec, Sign!DecidedIsFinal

-----------------------------------------------------------------------------
(* Fixed assets. *)

AssetRow == [status : {"none", "active", "disposed"}, cost : Int,
             accumulated : Int, capitalized : BOOLEAN,
             method : {"straight_line", "declining_balance"}]

AccountsRow == [cost : Int, accumulated : Int, surplus : Int, byHand : Int]

\* Which months an asset is charged for plays no part here.
AssetTypeOK ==
  /\ register \in [Asset -> AssetRow]
  /\ ledger \in [Asset -> AccountsRow]
  /\ surplus \in [Asset -> Int]
  /\ run \in [Caller -> [at : {"idle", "lock"}, period : Period \cup {InService},
                      due : SUBSET Asset]]

\* What RegisterSound says of one asset.
TiesToLedger(a) ==
  register[a].capitalized =>
    IF register[a].status = "disposed"
      THEN ledger[a].cost + ledger[a].byHand = 0 /\ ledger[a].accumulated = 0
      ELSE /\ ledger[a].cost + ledger[a].byHand = register[a].cost
           /\ ledger[a].accumulated = register[a].accumulated

InRange(a) ==
  0 <= register[a].accumulated /\ register[a].accumulated <= register[a].cost

\* 3100 holds at least what the asset's movements come to: a decrease beyond
\* them is an expense, and brings their sum below zero.
Covers(a) == ledger[a].surplus >= 0 /\ ledger[a].surplus >= surplus[a]

\* An asset not registered has nothing on the accounts but what an event took
\* off by hand.
Unregistered(a) ==
  register[a].status = "none" =>
    /\ ~ register[a].capitalized
    /\ register[a].cost = 0 /\ register[a].accumulated = 0
    /\ ledger[a].cost + ledger[a].byHand = 0 /\ ledger[a].accumulated = 0

AssetOK(a) == TiesToLedger(a) /\ InRange(a) /\ Covers(a) /\ Unregistered(a)

AssetInv == AssetTypeOK /\ \A a \in Asset : AssetOK(a)

-----------------------------------------------------------------------------
(* The arithmetic of a charge. *)

LEMMA RoundedIsInt ==
  ASSUME NEW n \in Int, NEW d \in Nat \ {0} PROVE Assets!Rounded(n, d) \in Int
<1>1. 2 * n + d \in Int /\ 2 * d \in Int /\ 2 * d > 0
  OBVIOUS
<1>2. QED
  BY <1>1 DEF Assets!Rounded

\* A charge that is made is positive and leaves the salvage value.
LEMMA ChargeInBase ==
  ASSUME Assets!RateAssumption, AssetTypeOK, NEW a \in Asset, Assets!Charge(a) > 0
  PROVE  /\ Assets!Charge(a) \in Int
         /\ register[a].accumulated + Assets!Charge(a)
              <= register[a].cost - Salvage
<1>1. register[a].cost \in Int /\ register[a].accumulated \in Int /\ Salvage \in Int
  BY DEF Assets!RateAssumption, AssetTypeOK, AssetRow
<1>2. Assets!Monthly(a) \in Int
  <2>1. Assets!NBV(a) * DecliningRate \in Int /\ Assets!AtLeastZero(register[a].cost - Salvage) \in Int
    BY <1>1 DEF Assets!NBV, Assets!AtLeastZero, Assets!RateAssumption
  <2>2. QED
    BY <2>1, RoundedIsInt DEF Assets!Monthly, Assets!RateAssumption
<1>3. /\ Assets!Remaining(a) \in Int
      /\ Assets!Remaining(a) > 0 => Assets!Remaining(a) = register[a].cost - Salvage
                                             - register[a].accumulated
  BY <1>1 DEF Assets!Remaining, Assets!AtLeastZero
<1>4. Assets!Charge(a) \in Int /\ Assets!Charge(a) <= Assets!Remaining(a)
  BY <1>2, <1>3 DEF Assets!Charge, Assets!Lesser
<1>5. QED
  BY <1>1, <1>3, <1>4

-----------------------------------------------------------------------------
(* One lemma for each operation, on the asset it is about. *)

LEMMA CommitKeeps ==
  ASSUME Assets!RateAssumption, AssetInv, NEW r \in Caller, Assets!CommitRun(r)
  PROVE  /\ AssetTypeOK' /\ \A a \in Asset : AssetOK(a)'
         /\ Assets!KeepsSalvage
<1> USE DEF AssetInv
<1>1. ASSUME NEW a \in Asset, a \notin Assets!Charged(r)
      PROVE  register'[a] = register[a] /\ ledger'[a] = ledger[a]
             /\ charges'[a] = charges[a]
  BY <1>1 DEF Assets!CommitRun
<1>2. ASSUME NEW a \in Asset, a \in Assets!Charged(r)
      PROVE  /\ register'[a] = [register[a] EXCEPT !.accumulated = @ + Assets!Charge(a)]
             /\ ledger'[a] = [ledger[a] EXCEPT !.accumulated = @ + Assets!Charge(a)]
             /\ register[a].status = "active" /\ Assets!Charge(a) > 0
             /\ Assets!Charge(a) \in Int
  BY <1>2, ChargeInBase DEF Assets!CommitRun, Assets!Charged, Assets!Active
<1>3. /\ surplus' = surplus
      /\ run' = [run EXCEPT ![r] = Assets!Idle]
      /\ register' = [a \in Asset |->
                        IF a \in Assets!Charged(r)
                          THEN [register[a] EXCEPT !.accumulated = @ + Assets!Charge(a)]
                          ELSE register[a]]
      /\ ledger' = [a \in Asset |->
                      IF a \in Assets!Charged(r)
                        THEN [ledger[a] EXCEPT !.accumulated = @ + Assets!Charge(a)]
                        ELSE ledger[a]]
  BY Zenon DEF Assets!CommitRun
<1>4. ASSUME NEW a \in Asset
      PROVE  register'[a] \in AssetRow /\ ledger'[a] \in AccountsRow
  <2>1. register[a] \in AssetRow /\ ledger[a] \in AccountsRow
    BY DEF AssetTypeOK
  <2>2. CASE a \in Assets!Charged(r)
    <3>1. /\ Assets!Charge(a) \in Int
          /\ register'[a] = [register[a] EXCEPT !.accumulated = @ + Assets!Charge(a)]
          /\ ledger'[a] = [ledger[a] EXCEPT !.accumulated = @ + Assets!Charge(a)]
      BY <1>2, <2>2
    <3>2. QED
      BY <2>1, <3>1 DEF AssetRow, AccountsRow
  <2>3. CASE a \notin Assets!Charged(r)
    BY <1>1, <2>1, <2>3
  <2>4. QED
    BY <2>2, <2>3
<1>5. AssetTypeOK'
  <2>1. run' \in [Caller -> [at : {"idle", "lock"}, period : Period \cup {InService},
                          due : SUBSET Asset]]
    BY <1>3 DEF AssetTypeOK, Assets!Idle
  <2>2. QED
    <3>1. surplus' \in [Asset -> Int]
      BY <1>3 DEF AssetTypeOK
    <3>2. register' \in [Asset -> AssetRow]
      BY <1>3, <1>4
    <3>3. ledger' \in [Asset -> AccountsRow]
      BY <1>3, <1>4
    <3>4. QED
      BY <2>1, <3>1, <3>2, <3>3 DEF AssetTypeOK
<1>6. ASSUME NEW a \in Asset, a \notin Assets!Charged(r)
      PROVE  AssetOK(a)'
  BY <1>1, <1>3, <1>6 DEF AssetOK, TiesToLedger, InRange, Covers, Unregistered
<1>7. ASSUME NEW a \in Asset, a \in Assets!Charged(r)
      PROVE  /\ AssetOK(a)'
             /\ register'[a].cost - register'[a].accumulated >= Salvage
  <2>1. /\ register'[a].accumulated = register[a].accumulated + Assets!Charge(a)
        /\ ledger'[a].accumulated = ledger[a].accumulated + Assets!Charge(a)
        /\ UNCHANGED << register[a].cost, register[a].capitalized,
                        register[a].status, ledger[a].cost,
                        ledger[a].byHand, ledger[a].surplus >>
    <3>1. register[a] \in AssetRow /\ ledger[a] \in AccountsRow
      BY DEF AssetTypeOK
    <3>2. /\ Assets!Charge(a) \in Int
          /\ register'[a] = [register[a] EXCEPT !.accumulated = @ + Assets!Charge(a)]
          /\ ledger'[a] = [ledger[a] EXCEPT !.accumulated = @ + Assets!Charge(a)]
      BY <1>2, <1>7
    <3>3. QED
      BY <3>1, <3>2 DEF AssetRow, AccountsRow
  <2>2. /\ register[a].cost \in Int /\ register[a].accumulated \in Int
        /\ ledger[a].accumulated \in Int /\ Salvage \in Nat
    BY DEF AssetTypeOK, AssetRow, AccountsRow, Assets!RateAssumption
  <2>3. register[a].accumulated + Assets!Charge(a) <= register[a].cost - Salvage
    BY <1>2, <1>7, ChargeInBase
  <2>4. AssetOK(a)
    OBVIOUS
  <2>5. TiesToLedger(a)'
    <3>1. register[a].status = "active"
      BY <1>2, <1>7
    <3>2. register[a].capitalized =>
            /\ ledger[a].cost + ledger[a].byHand = register[a].cost
            /\ ledger[a].accumulated = register[a].accumulated
      BY <2>4, <3>1 DEF AssetOK, TiesToLedger
    <3>3. register'[a].capitalized => register[a].capitalized
      BY <2>1
    <3>4. QED
      BY <2>1, <3>1, <3>2, <3>3 DEF TiesToLedger
  <2>6. InRange(a)' /\ register'[a].cost - register'[a].accumulated >= Salvage
    <3>1. 0 <= register[a].accumulated
      BY <2>4 DEF AssetOK, InRange
    <3>2. Assets!Charge(a) \in Int /\ Assets!Charge(a) > 0
      BY <1>2, <1>7
    <3>3. register'[a].cost = register[a].cost
      BY <2>1
    <3>4. register'[a].accumulated = register[a].accumulated + Assets!Charge(a)
      BY <2>1
    <3>5. QED
      BY <2>2, <2>3, <3>1, <3>2, <3>3, <3>4 DEF InRange
  <2>7. Covers(a)' /\ Unregistered(a)'
    BY <1>2, <1>3, <1>7, <2>1, <2>4 DEF AssetOK, Covers, Unregistered
  <2>8. QED
    BY <2>5, <2>6, <2>7 DEF AssetOK
<1>8. Assets!KeepsSalvage
  BY <1>1, <1>7 DEF Assets!KeepsSalvage
<1>9. QED
  BY <1>5, <1>6, <1>7, <1>8

\* An operation on one asset leaves the others, and the runs, as they are.
OnlyOn(a) ==
  /\ register' \in [Asset -> AssetRow] /\ ledger' \in [Asset -> AccountsRow]
  /\ surplus' \in [Asset -> Int]
  /\ run' = run /\ charges' = charges
  /\ \A b \in Asset \ {a} : /\ register'[b] = register[b]
                            /\ ledger'[b] = ledger[b]
                            /\ surplus'[b] = surplus[b]

LEMMA OnlyOnKeeps ==
  ASSUME AssetInv, NEW a \in Asset, OnlyOn(a), AssetOK(a)'
  PROVE  AssetTypeOK' /\ (\A b \in Asset : AssetOK(b)') /\ Assets!KeepsSalvage
<1>1. AssetTypeOK'
  BY DEF AssetInv, AssetTypeOK, OnlyOn
<1>2. ASSUME NEW b \in Asset, b # a
      PROVE  AssetOK(b)'
  <2>1. AssetOK(b)
    BY DEF AssetInv
  <2>2. /\ register'[b] = register[b] /\ ledger'[b] = ledger[b]
        /\ surplus'[b] = surplus[b]
    BY <1>2 DEF OnlyOn
  <2>3. QED
    BY <2>1, <2>2 DEF AssetOK, TiesToLedger, InRange, Covers, Unregistered
<1>3. Assets!KeepsSalvage
  BY DEF OnlyOn, Assets!KeepsSalvage
<1>4. QED
  BY <1>1, <1>2, <1>3

LEMMA RowTypes ==
  ASSUME AssetInv, NEW a \in Asset
  PROVE  /\ register[a] \in AssetRow /\ ledger[a] \in AccountsRow
         /\ surplus[a] \in Int
         /\ register[a].cost \in Int /\ register[a].accumulated \in Int
         /\ ledger[a].cost \in Int /\ ledger[a].accumulated \in Int
         /\ ledger[a].surplus \in Int /\ ledger[a].byHand \in Int
<1>1. /\ register[a] \in AssetRow /\ ledger[a] \in AccountsRow
      /\ surplus[a] \in Int
  BY DEF AssetInv, AssetTypeOK
<1>2. QED
  BY <1>1 DEF AssetRow, AccountsRow

LEMMA RegisterKeeps ==
  ASSUME Assets!RateAssumption, AssetInv, NEW a \in Asset,
         NEW capitalize \in BOOLEAN,
         NEW method \in {"straight_line", "declining_balance"},
         Assets!Register(a, capitalize, method)
  PROVE  OnlyOn(a) /\ AssetOK(a)'
<1>1. /\ register[a].status = "none"
      /\ register' = [register EXCEPT ![a] =
                        [status |-> "active", cost |-> Cost, accumulated |-> 0,
                         capitalized |-> capitalize, method |-> method]]
      /\ UNCHANGED << charges, surplus, run >>
  BY DEF Assets!Register
<1>2. register' \in [Asset -> AssetRow]
  BY <1>1 DEF AssetInv, AssetTypeOK, AssetRow, Assets!RateAssumption
<1>3. /\ register'[a].status = "active" /\ register'[a].cost = Cost
      /\ register'[a].accumulated = 0
      /\ register'[a].capitalized = capitalize
      /\ \A b \in Asset \ {a} : register'[b] = register[b]
  BY <1>1 DEF AssetInv, AssetTypeOK
<1>4. AssetOK(a)
  BY DEF AssetInv
<1>5. CASE capitalize
  <2>1. ledger' = [ledger EXCEPT ![a].cost = @ + Cost]
    BY <1>5 DEF Assets!Register
  <2>2. /\ ledger' \in [Asset -> AccountsRow]
        /\ \A b \in Asset \ {a} : ledger'[b] = ledger[b]
    BY <2>1 DEF AssetInv, AssetTypeOK, AccountsRow, Assets!RateAssumption
  <2>3. /\ ledger'[a].cost = ledger[a].cost + Cost
        /\ ledger'[a].accumulated = ledger[a].accumulated
        /\ ledger'[a].surplus = ledger[a].surplus
        /\ ledger'[a].byHand = ledger[a].byHand
    BY <2>1 DEF AssetInv, AssetTypeOK, AccountsRow
  <2>4. ledger[a].cost + ledger[a].byHand = 0 /\ ledger[a].accumulated = 0
    BY <1>1, <1>4 DEF AssetOK, Unregistered
  <2>5. Covers(a)'
    BY <1>1, <1>4, <2>3 DEF AssetOK, Covers
  <2>6. TiesToLedger(a)' /\ InRange(a)' /\ Unregistered(a)'
    BY <1>3, <2>3, <2>4, RowTypes DEF TiesToLedger, InRange, Unregistered, Assets!RateAssumption
  <2>7. QED
    BY <1>1, <1>2, <1>3, <2>2, <2>5, <2>6
       DEF OnlyOn, AssetOK, AssetInv, AssetTypeOK
<1>6. CASE ~ capitalize
  <2>1. ledger' = ledger
    BY <1>6 DEF Assets!Register
  <2>2. ~ register'[a].capitalized
    BY <1>3, <1>6
  <2>3. TiesToLedger(a)' /\ InRange(a)' /\ Unregistered(a)' /\ Covers(a)'
    BY <1>1, <1>3, <1>4, <2>1, <2>2
       DEF AssetOK, TiesToLedger, InRange, Unregistered, Covers, Assets!RateAssumption
  <2>4. QED
    BY <1>1, <1>2, <1>3, <2>1, <2>3 DEF OnlyOn, AssetOK, AssetInv, AssetTypeOK
<1>7. QED
  BY <1>5, <1>6

\* An impairment or its reversal, of an amount that leaves the range.
LEMMA WriteDownKeeps ==
  ASSUME AssetInv, NEW a \in Asset, NEW x \in Int, Assets!Active(a), Assets!WriteDown(a, x),
         0 <= register[a].accumulated + x,
         register[a].accumulated + x <= register[a].cost,
         UNCHANGED << charges, surplus, run >>
  PROVE  OnlyOn(a) /\ AssetOK(a)'
<1>1. /\ register' = [register EXCEPT ![a].accumulated = @ + x]
      /\ ledger' = [ledger EXCEPT ![a].accumulated = @ + x]
  BY DEF Assets!WriteDown
<1>2. register' \in [Asset -> AssetRow] /\ ledger' \in [Asset -> AccountsRow]
  <2>1. register' \in [Asset -> AssetRow]
    BY <1>1 DEF AssetInv, AssetTypeOK, AssetRow
  <2>2. ledger' \in [Asset -> AccountsRow]
    BY <1>1 DEF AssetInv, AssetTypeOK, AccountsRow
  <2>3. QED
    BY <2>1, <2>2
<1>3. \A b \in Asset \ {a} : register'[b] = register[b] /\ ledger'[b] = ledger[b]
  BY <1>1 DEF AssetInv, AssetTypeOK
<1>4. /\ register'[a].accumulated = register[a].accumulated + x
      /\ register'[a].cost = register[a].cost
      /\ register'[a].status = register[a].status
      /\ register'[a].capitalized = register[a].capitalized
  BY <1>1 DEF AssetInv, AssetTypeOK, AssetRow
<1>5. /\ ledger'[a].accumulated = ledger[a].accumulated + x
      /\ ledger'[a].cost = ledger[a].cost
      /\ ledger'[a].surplus = ledger[a].surplus
      /\ ledger'[a].byHand = ledger[a].byHand
  BY <1>1 DEF AssetInv, AssetTypeOK, AccountsRow
<1>6. AssetOK(a) /\ register[a].status = "active"
  BY DEF AssetInv, Assets!Active
<1>7. TiesToLedger(a)'
  <2>1. register'[a].capitalized => register[a].capitalized
    BY <1>4
  <2>2. register[a].capitalized =>
          /\ ledger[a].cost + ledger[a].byHand = register[a].cost
          /\ ledger[a].accumulated = register[a].accumulated
    BY <1>6 DEF AssetOK, TiesToLedger
  <2>3. QED
    BY <1>4, <1>5, <1>6, <2>1, <2>2 DEF TiesToLedger
<1>8. InRange(a)' /\ Covers(a)' /\ Unregistered(a)'
  <2>1. InRange(a)'
    BY <1>4 DEF InRange
  <2>2. surplus'[a] = surplus[a]
    OBVIOUS
  <2>3. Covers(a)'
    BY <1>5, <1>6, <2>2 DEF AssetOK, Covers
  <2>4. QED
    BY <1>4, <1>6, <2>1, <2>3 DEF Unregistered
<1>9. QED
  BY <1>2, <1>3, <1>7, <1>8 DEF OnlyOn, AssetOK, AssetInv, AssetTypeOK

LEMMA ImpairmentKeeps ==
  ASSUME Assets!RateAssumption, AssetInv, NEW a \in Asset, NEW x \in AssetAmount,
         NEW d \in Date, Assets!BookImpairment(a, x, d) \/ Assets!ReverseImpairment(a, x, d)
  PROVE  OnlyOn(a) /\ AssetOK(a)'
<1>1. x \in Nat
  BY DEF Assets!RateAssumption
<1>2. /\ 0 <= register[a].accumulated
      /\ register[a].accumulated <= register[a].cost
  BY DEF AssetInv, AssetOK, InRange
<1>3. CASE Assets!BookImpairment(a, x, d)
  <2>1. /\ Assets!WriteDown(a, Assets!NBV(a) - x) /\ Assets!Active(a) /\ Assets!NBV(a) > x
        /\ UNCHANGED << charges, surplus, run >>
    BY <1>3 DEF Assets!BookImpairment
  <2>2. /\ Assets!NBV(a) - x \in Int
        /\ 0 <= register[a].accumulated + (Assets!NBV(a) - x)
        /\ register[a].accumulated + (Assets!NBV(a) - x) <= register[a].cost
    BY <1>1, <1>2, <2>1, RowTypes DEF Assets!NBV
  <2>3. QED
    BY <2>1, <2>2, WriteDownKeeps
<1>4. CASE Assets!ReverseImpairment(a, x, d)
  <2> DEFINE capped == Assets!Lesser(x, register[a].accumulated)
  <2>1. /\ Assets!WriteDown(a, - capped) /\ Assets!Active(a) /\ capped > 0
        /\ UNCHANGED << charges, surplus, run >>
    BY <1>4 DEF Assets!ReverseImpairment
  <2>2. /\ - capped \in Int
        /\ 0 <= register[a].accumulated + (- capped)
        /\ register[a].accumulated + (- capped) <= register[a].cost
    BY <1>1, <1>2, <2>1, RowTypes DEF Assets!Lesser
  <2>3. QED
    BY <2>1, <2>2, WriteDownKeeps
<1>5. QED
  BY <1>3, <1>4

\* A revaluation leaves 3100 with no less than the asset's movements come to:
\* an increase adds to both, a decrease takes only what they cover.
LEMMA RevaluationKeeps ==
  ASSUME Assets!RateAssumption, AssetInv, NEW a \in Asset, NEW x \in AssetAmount,
         NEW d \in Date, Assets!BookRevaluation(a, x, d)
  PROVE  OnlyOn(a) /\ AssetOK(a)'
<1> DEFINE delta == x - Assets!NBV(a)
<1>1. /\ register[a].status = "active"
      /\ register' = [register EXCEPT ![a].cost = @ + delta]
      /\ ledger' = [ledger EXCEPT ![a] =
                      [cost |-> @.cost + delta, accumulated |-> @.accumulated,
                       surplus |-> @.surplus + Assets!ToSurplus(a, delta),
                       byHand |-> @.byHand]]
      /\ surplus' = [surplus EXCEPT ![a] = @ + delta]
      /\ charges' = charges /\ run' = run
  BY DEF Assets!BookRevaluation, Assets!Active
<1>2. x \in Nat /\ delta \in Int /\ delta = x - (register[a].cost - register[a].accumulated)
  <2>1. x \in Nat
    BY DEF Assets!RateAssumption
  <2>2. register[a].cost \in Int /\ register[a].accumulated \in Int
    BY RowTypes
  <2>3. QED
    BY <2>1, <2>2 DEF Assets!NBV
<1>3. /\ Assets!ToSurplus(a, delta) \in Int
      /\ \/ /\ Assets!ToSurplus(a, delta) = delta /\ delta > 0
         \/ /\ Assets!ToSurplus(a, delta) = delta /\ - delta <= surplus[a] /\ delta <= 0
         \/ /\ Assets!ToSurplus(a, delta) = - Assets!AtLeastZero(surplus[a])
            /\ - delta >= Assets!AtLeastZero(surplus[a])
  <2> HIDE DEF delta
  <2>1. surplus[a] \in Int
    BY RowTypes
  <2>2. QED
    <3>1. CASE delta > 0
      BY <1>2, <2>1, <3>1 DEF Assets!ToSurplus
    <3>2. CASE ~ (delta > 0)
      <4>1. Assets!ToSurplus(a, delta) = - Assets!Lesser(- delta, Assets!AtLeastZero(surplus[a]))
        BY <3>2 DEF Assets!ToSurplus
      <4>2. /\ - delta \in Int /\ Assets!AtLeastZero(surplus[a]) \in Int
            /\ Assets!AtLeastZero(surplus[a]) >= 0
            /\ \/ Assets!AtLeastZero(surplus[a]) = surplus[a]
               \/ Assets!AtLeastZero(surplus[a]) = 0
        BY <1>2, <2>1 DEF Assets!AtLeastZero
      <4>3. CASE - delta < Assets!AtLeastZero(surplus[a])
        <5>1. Assets!ToSurplus(a, delta) = delta
          BY <1>2, <4>1, <4>2, <4>3 DEF Assets!Lesser
        <5>2. - delta <= surplus[a]
          BY <1>2, <2>1, <3>2, <4>2, <4>3
        <5>3. QED
          BY <1>2, <3>2, <5>1, <5>2
      <4>4. CASE - delta >= Assets!AtLeastZero(surplus[a])
        <5>1. Assets!ToSurplus(a, delta) = - Assets!AtLeastZero(surplus[a])
          BY <1>2, <4>1, <4>2, <4>4 DEF Assets!Lesser
        <5>2. QED
          BY <1>2, <4>2, <4>4, <5>1
      <4>5. QED
        BY <1>2, <4>2, <4>3, <4>4
    <3>3. QED
      BY <3>1, <3>2
<1>4. /\ register' \in [Asset -> AssetRow]
      /\ ledger' \in [Asset -> AccountsRow]
      /\ surplus' \in [Asset -> Int]
  <2> HIDE DEF delta
  <2>1. ledger' \in [Asset -> AccountsRow]
    BY <1>1, <1>2, <1>3, RowTypes DEF AssetInv, AssetTypeOK, AccountsRow
  <2>2. register' \in [Asset -> AssetRow]
    BY <1>1, <1>2 DEF AssetInv, AssetTypeOK, AssetRow
  <2>3. surplus' \in [Asset -> Int]
    BY <1>1, <1>2 DEF AssetInv, AssetTypeOK
  <2>4. QED
    BY <2>1, <2>2, <2>3
<1>5. \A b \in Asset \ {a} : /\ register'[b] = register[b]
                             /\ ledger'[b] = ledger[b]
                             /\ surplus'[b] = surplus[b]
  BY <1>1 DEF AssetInv, AssetTypeOK
<1>6. /\ register'[a].cost = register[a].cost + delta
      /\ register'[a].accumulated = register[a].accumulated
      /\ register'[a].status = register[a].status
      /\ register'[a].capitalized = register[a].capitalized
  BY <1>1 DEF AssetInv, AssetTypeOK, AssetRow
<1>7. /\ ledger'[a].cost = ledger[a].cost + delta
      /\ ledger'[a].accumulated = ledger[a].accumulated
      /\ ledger'[a].surplus = ledger[a].surplus + Assets!ToSurplus(a, delta)
      /\ ledger'[a].byHand = ledger[a].byHand
      /\ surplus'[a] = surplus[a] + delta
  BY <1>1 DEF AssetInv, AssetTypeOK
<1>8. AssetOK(a)
  BY DEF AssetInv
<1>9. TiesToLedger(a)'
  <2> HIDE DEF delta
  <2>1. register'[a].capitalized => register[a].capitalized
    BY <1>6
  <2>2. register[a].capitalized =>
          /\ ledger[a].cost + ledger[a].byHand = register[a].cost
          /\ ledger[a].accumulated = register[a].accumulated
    BY <1>1, <1>8 DEF AssetOK, TiesToLedger
  <2>3. /\ ledger[a].cost \in Int /\ ledger[a].byHand \in Int
        /\ register[a].cost \in Int
    BY RowTypes
  <2>4. register'[a].status = "active"
    BY <1>1, <1>6
  <2>5. QED
    BY <1>2, <1>6, <1>7, <2>1, <2>2, <2>3, <2>4 DEF TiesToLedger
<1>10. InRange(a)' /\ Unregistered(a)'
  <2>1. 0 <= register[a].accumulated
    BY <1>8 DEF AssetOK, InRange
  <2>2. register'[a].cost = x + register[a].accumulated
    BY <1>2, <1>6, RowTypes
  <2>3. QED
    BY <1>1, <1>2, <1>6, <2>1, <2>2, RowTypes DEF InRange, Unregistered
<1>11. Covers(a)'
  <2> HIDE DEF delta
  <2>1. ledger[a].surplus >= 0 /\ ledger[a].surplus >= surplus[a]
    BY <1>8 DEF AssetOK, Covers
  <2>2. QED
    BY <1>2, <1>3, <1>7, <2>1, RowTypes DEF Covers, Assets!AtLeastZero
<1>12. QED
  BY <1>1, <1>4, <1>5, <1>9, <1>10, <1>11 DEF OnlyOn, AssetOK

LEMMA DisposeKeeps ==
  ASSUME AssetInv, NEW a \in Asset, NEW d \in Date, Assets!Dispose(a, d)
  PROVE  OnlyOn(a) /\ AssetOK(a)'
<1>1. /\ register[a].status = "active"
      /\ register' = [register EXCEPT ![a].status = "disposed"]
      /\ ledger' = [ledger EXCEPT ![a] =
                      [cost |-> @.cost - register[a].cost,
                       accumulated |-> @.accumulated - register[a].accumulated,
                       surplus |-> @.surplus, byHand |-> @.byHand]]
      /\ charges' = charges /\ run' = run /\ surplus' = surplus
  BY DEF Assets!Dispose, Assets!Active
<1>2. /\ register' \in [Asset -> AssetRow] /\ ledger' \in [Asset -> AccountsRow]
      /\ \A b \in Asset \ {a} : register'[b] = register[b] /\ ledger'[b] = ledger[b]
  <2>1. register' \in [Asset -> AssetRow]
    BY <1>1 DEF AssetInv, AssetTypeOK, AssetRow
  <2>2. ledger' \in [Asset -> AccountsRow]
    BY <1>1, RowTypes DEF AssetInv, AssetTypeOK, AccountsRow
  <2>3. QED
    BY <1>1, <2>1, <2>2 DEF AssetInv, AssetTypeOK
<1>3. /\ register'[a].status = "disposed"
      /\ register'[a].cost = register[a].cost
      /\ register'[a].accumulated = register[a].accumulated
      /\ register'[a].capitalized = register[a].capitalized
  BY <1>1 DEF AssetInv, AssetTypeOK, AssetRow
<1>4. /\ ledger'[a].cost = ledger[a].cost - register[a].cost
      /\ ledger'[a].accumulated = ledger[a].accumulated - register[a].accumulated
      /\ ledger'[a].surplus = ledger[a].surplus
      /\ ledger'[a].byHand = ledger[a].byHand
  BY <1>1 DEF AssetInv, AssetTypeOK
<1>5. AssetOK(a)
  BY DEF AssetInv
<1>6. TiesToLedger(a)'
  <2>1. register'[a].capitalized => register[a].capitalized
    BY <1>3
  <2>2. register[a].capitalized =>
          /\ ledger[a].cost + ledger[a].byHand = register[a].cost
          /\ ledger[a].accumulated = register[a].accumulated
    BY <1>1, <1>5 DEF AssetOK, TiesToLedger
  <2>3. QED
    BY <1>3, <1>4, <2>1, <2>2, RowTypes DEF TiesToLedger
<1>7. InRange(a)' /\ Covers(a)' /\ Unregistered(a)'
  BY <1>1, <1>3, <1>4, <1>5 DEF AssetOK, InRange, Covers, Unregistered
<1>8. QED
  BY <1>1, <1>2, <1>6, <1>7 DEF OnlyOn, AssetOK, AssetInv, AssetTypeOK

LEMMA DisposeUnregisteredKeeps ==
  ASSUME Assets!RateAssumption, AssetInv, NEW a \in Asset, NEW x \in AssetAmount,
         NEW d \in Date, Assets!DisposeUnregistered(a, x, d)
  PROVE  OnlyOn(a) /\ AssetOK(a)'
<1>1. /\ register[a].status = "none"
      /\ ledger' = [ledger EXCEPT ![a] =
                      [cost |-> @.cost - x, accumulated |-> @.accumulated,
                       surplus |-> @.surplus, byHand |-> @.byHand + x]]
      /\ UNCHANGED << register, charges, surplus, run >>
  BY DEF Assets!DisposeUnregistered
<1>2. x \in Int
  BY DEF Assets!RateAssumption
<1>3. /\ ledger' \in [Asset -> AccountsRow]
      /\ \A b \in Asset \ {a} : ledger'[b] = ledger[b]
  BY <1>1, <1>2, RowTypes DEF AssetInv, AssetTypeOK, AccountsRow
<1>4. /\ ledger'[a].cost = ledger[a].cost - x
      /\ ledger'[a].byHand = ledger[a].byHand + x
      /\ ledger'[a].accumulated = ledger[a].accumulated
      /\ ledger'[a].surplus = ledger[a].surplus
  BY <1>1 DEF AssetInv, AssetTypeOK
<1>5. AssetOK(a) /\ ~ register[a].capitalized
  BY <1>1 DEF AssetInv, AssetOK, Unregistered
<1>6. TiesToLedger(a)' /\ InRange(a)' /\ Covers(a)'
  BY <1>1, <1>4, <1>5 DEF AssetOK, TiesToLedger, InRange, Covers
<1>7. Unregistered(a)'
  <2>1. /\ ~ register[a].capitalized
        /\ register[a].cost = 0 /\ register[a].accumulated = 0
        /\ ledger[a].cost + ledger[a].byHand = 0 /\ ledger[a].accumulated = 0
    BY <1>1, <1>5 DEF AssetOK, Unregistered
  <2>2. ledger'[a].cost + ledger'[a].byHand = 0
    BY <1>2, <1>4, <2>1, RowTypes
  <2>3. QED
    BY <1>1, <1>4, <2>1, <2>2 DEF Unregistered
<1>8. QED
  BY <1>1, <1>3, <1>6, <1>7 DEF OnlyOn, AssetOK, AssetInv, AssetTypeOK

\* What no asset is touched by.
LEMMA RunsKeep ==
  ASSUME AssetInv, NEW r \in Caller,
         (\E m \in Period : Assets!SelectDue(r, m)) \/ Assets!RollbackRun(r)
  PROVE  AssetTypeOK' /\ (\A a \in Asset : AssetOK(a)') /\ Assets!KeepsSalvage
<1>1. UNCHANGED << register, charges, surplus, ledger >>
  BY DEF Assets!SelectDue, Assets!RollbackRun
<1>2. run' \in [Caller -> [at : {"idle", "lock"}, period : Period \cup {InService},
                        due : SUBSET Asset]]
  BY DEF Assets!SelectDue, Assets!RollbackRun, Assets!Idle, AssetInv, AssetTypeOK
<1>3. AssetTypeOK' /\ \A a \in Asset : AssetOK(a)'
  BY <1>1, <1>2
     DEF AssetInv, AssetTypeOK, AssetOK, TiesToLedger, InRange, Covers, Unregistered
<1>4. QED
  BY <1>1, <1>3 DEF Assets!KeepsSalvage

-----------------------------------------------------------------------------
(* The theorems. *)

LEMMA AssetInvInit == ASSUME Assets!Init PROVE AssetInv
<1>1. /\ register = [a \in Asset |-> [status |-> "none", cost |-> 0,
                                      accumulated |-> 0, capitalized |-> FALSE,
                                      method |-> "straight_line"]]
      /\ surplus = [a \in Asset |-> 0]
      /\ ledger = [a \in Asset |-> [cost |-> 0, accumulated |-> 0,
                                    surplus |-> 0, byHand |-> 0]]
      /\ run = [r \in Caller |-> Assets!Idle]
  BY DEF Assets!Init
<1>2. AssetTypeOK
  BY <1>1 DEF AssetTypeOK, AssetRow, AccountsRow, Assets!Idle
<1>3. \A a \in Asset : AssetOK(a)
  BY <1>1 DEF AssetOK, TiesToLedger, InRange, Covers, Unregistered
<1>4. QED
  BY <1>2, <1>3 DEF AssetInv

LEMMA AssetInvStep ==
  ASSUME Assets!RateAssumption, AssetInv, [Assets!Next]_Assets!vars
  PROVE  AssetInv' /\ [Assets!KeepsSalvage]_Assets!vars
<1>1. ASSUME NEW r \in Caller,
             \/ \E m \in Period : Assets!SelectDue(r, m)
             \/ Assets!CommitRun(r) \/ Assets!RollbackRun(r)
      PROVE  AssetInv' /\ Assets!KeepsSalvage
  BY <1>1, CommitKeeps, RunsKeep DEF AssetInv
<1>2. ASSUME NEW a \in Asset,
             \/ \E capitalize \in BOOLEAN,
                   method \in {"straight_line", "declining_balance"} :
                  Assets!Register(a, capitalize, method)
             \/ \E d \in Date :
                  \/ Assets!Dispose(a, d)
                  \/ \E x \in AssetAmount :
                       \/ Assets!BookImpairment(a, x, d) \/ Assets!ReverseImpairment(a, x, d)
                       \/ Assets!BookRevaluation(a, x, d)
                       \/ Assets!DisposeUnregistered(a, x, d)
      PROVE  AssetInv' /\ Assets!KeepsSalvage
  <2>1. OnlyOn(a) /\ AssetOK(a)'
    BY <1>2, RegisterKeeps, DisposeKeeps, ImpairmentKeeps, RevaluationKeeps,
       DisposeUnregisteredKeeps
  <2>2. QED
    BY <2>1, OnlyOnKeeps DEF AssetInv
<1>3. CASE UNCHANGED Assets!vars
  BY <1>3 DEF Assets!vars, AssetInv, AssetTypeOK, AssetOK, TiesToLedger, InRange,
              Covers, Unregistered
<1>4. QED
  BY <1>1, <1>2, <1>3 DEF Assets!Next

\* In whatever order runs that overlap, impairments, their reversals,
\* revaluations and disposals come, the register ties to accounts 1500 and 1510
\* on every capitalized asset, what is disposed of has left them, accumulated
\* depreciation stays between zero and the cost, and account 3100 is not
\* overdrawn (repository/fixed_assets.go, fixed_assets_ias16.go).
THEOREM RegisterIsSound == ASSUME Assets!RateAssumption
                           PROVE  Assets!Spec => []Assets!RegisterSound
<1>1. Assets!Init => AssetInv
  BY AssetInvInit
<1>2. AssetInv /\ [Assets!Next]_Assets!vars => AssetInv'
  BY AssetInvStep
<1>3. AssetInv => Assets!RegisterSound
  <2> SUFFICES ASSUME AssetInv PROVE Assets!RegisterSound
    OBVIOUS
  <2>1. \A a \in Asset : TiesToLedger(a) /\ InRange(a) /\ Covers(a)
    BY DEF AssetInv, AssetOK
  <2>2. QED
    BY <2>1 DEF Assets!RegisterSound, Assets!RegisterTiesToLedger, Assets!CarryingInRange,
                Assets!SurplusNotOverdrawn, TiesToLedger, InRange, Covers
<1>4. QED
  BY <1>1, <1>2, <1>3, PTL DEF Assets!Spec

\* A depreciation run leaves every asset it charges at or above its salvage
\* value, by either method and whatever happened to the asset between the
\* run's snapshot and its locks (RunDepreciation).
THEOREM ChargesKeepSalvage == ASSUME Assets!RateAssumption
                              PROVE  Assets!Spec => Assets!ChargeKeepsSalvage
<1>1. Assets!Init => AssetInv
  BY AssetInvInit
<1>2. AssetInv /\ [Assets!Next]_Assets!vars => AssetInv' /\ [Assets!KeepsSalvage]_Assets!vars
  BY AssetInvStep
<1>3. QED
  BY <1>1, <1>2, PTL DEF Assets!Spec, Assets!ChargeKeepsSalvage

-----------------------------------------------------------------------------
(* Recurring billing. *)

BillingStep == {"idle", "claim", "create", "read", "book", "item", "mark", "defer"}

BillingRequests ==
  [Caller \cup Clerk -> [at: BillingStep, period: Nat, id: Billed \cup {0}]]

BillingTypeOK ==
  /\ today \in Nat /\ nextRun \in Nat \ {0}
  /\ invoice \in [Billed -> [status: {"none", "draft", "issued"}, period: Nat]]
  /\ entries \in [Billed -> Nat]
  /\ items \subseteq Billed /\ deferred \subseteq Billed
  /\ request \in BillingRequests

\* What a request has behind it at each of its steps.
Serves(r) ==
  /\ request[r].at = "claim" => request[r].period > 0
  /\ request[r].at \in {"read", "book", "item", "mark", "defer"} =>
       request[r].id \in Billed /\ invoice[request[r].id].status # "none"
  /\ request[r].at \in {"item", "mark", "defer"} => entries[request[r].id] > 0
  /\ request[r].at \in {"mark", "defer"} => request[r].id \in items

\* A period that was claimed is no invoice's yet, and no one else's.
Holds(r) ==
  request[r].at = "create" =>
    /\ 0 < request[r].period /\ request[r].period < nextRun
    /\ \A i \in Billed : invoice[i].period # request[r].period
    /\ \A q \in Caller \cup Clerk :
         request[q].at = "create" /\ request[q].period = request[r].period => q = r

BillingInv ==
  /\ BillingTypeOK
  /\ \A i \in Billed : invoice[i].period < nextRun
  /\ \A r \in Caller \cup Clerk : Serves(r) /\ Holds(r)
  /\ Billing!InvoicesTie

LEMMA BillingInitially == Billing!Init => BillingInv
BY DEF Billing!Init, Billing!Idle, BillingInv, BillingTypeOK, BillingRequests, BillingStep, Serves,
       Holds, Billing!InvoicesTie, Billing!BilledOnce, Billing!BilledOncePerPeriod,
       Billing!BookedOnce, Billing!IssuedIsOwed

\* The request that moves, by fields.
LEMMA BillingMoves ==
  ASSUME BillingTypeOK, NEW r \in Caller \cup Clerk, NEW step \in BillingStep,
         Billing!Goto(r, step)
  PROVE  /\ request' \in BillingRequests
         /\ request'[r] = [at |-> step, period |-> request[r].period,
                           id |-> request[r].id]
         /\ \A q \in Caller \cup Clerk : q # r => request'[q] = request[q]
BY DEF BillingTypeOK, BillingRequests, Billing!Goto

LEMMA BillingStops ==
  ASSUME BillingTypeOK, NEW r \in Caller \cup Clerk, Billing!Stop(r)
  PROVE  /\ request' \in BillingRequests
         /\ request'[r] = Billing!Idle
         /\ \A q \in Caller \cup Clerk : q # r => request'[q] = request[q]
BY DEF BillingTypeOK, BillingRequests, BillingStep, Billing!Idle, Billing!Stop

\* A request that gives up disturbs nothing.
LEMMA BillingGivesUp ==
  ASSUME BillingInv, NEW r \in Caller \cup Clerk, Billing!Stop(r),
         UNCHANGED << today, nextRun, invoice, entries, items, deferred >>
  PROVE  BillingInv'
<1>1. /\ request' \in BillingRequests
      /\ request'[r] = Billing!Idle
      /\ \A q \in Caller \cup Clerk : q # r => request'[q] = request[q]
  BY BillingStops DEF BillingInv
<1>2. BillingTypeOK'
  BY <1>1 DEF BillingInv, BillingTypeOK, BillingStep, Billing!Idle
<1>3. \A q \in Caller \cup Clerk : Serves(q)'
  BY <1>1 DEF BillingInv, Serves, Billing!Idle
<1>4. \A q \in Caller \cup Clerk : Holds(q)'
  BY <1>1 DEF BillingInv, Holds, Billing!Idle
<1>5. Billing!InvoicesTie'
  BY DEF BillingInv, Billing!InvoicesTie, Billing!BilledOnce,
         Billing!BilledOncePerPeriod, Billing!BookedOnce, Billing!IssuedIsOwed
<1>6. QED
  BY <1>2, <1>3, <1>4, <1>5 DEF BillingInv

\* A period is claimed by the one worker whose UPDATE finds the date it read.
LEMMA ClaimKeeps ==
  ASSUME BillingInv, NEW w \in Caller, Billing!Claim(w)
  PROVE  BillingInv'
<1>1. CASE ~ Billing!Claimed(w)
  BY <1>1, BillingGivesUp DEF Billing!Claim
<1>2. CASE Billing!Claimed(w)
  <2>1. /\ request[w].at = "claim" /\ nextRun = request[w].period
        /\ nextRun' = nextRun + 1 /\ Billing!Goto(w, "create")
        /\ UNCHANGED << today, invoice, entries, items, deferred >>
    BY <1>2 DEF Billing!Claim, Billing!Claimed, Billing!At
  <2>2. /\ request' \in BillingRequests
        /\ request'[w] = [at |-> "create", period |-> request[w].period,
                          id |-> request[w].id]
        /\ \A q \in Caller \cup Clerk : q # w => request'[q] = request[q]
    BY <2>1, BillingMoves DEF BillingInv, BillingStep
  <2>3. BillingTypeOK'
    BY <2>1, <2>2 DEF BillingInv, BillingTypeOK, BillingStep
  <2>4. \A q \in Caller \cup Clerk : Serves(q)'
    BY <2>1, <2>2 DEF BillingInv, Serves
  <2>5. \A i \in Billed : invoice'[i].period < nextRun /\ nextRun < nextRun'
    BY <2>1 DEF BillingInv, BillingTypeOK
  <2>6. \A q \in Caller \cup Clerk : Holds(q)'
    <3> SUFFICES ASSUME NEW q \in Caller \cup Clerk, request'[q].at = "create"
                 PROVE  Holds(q)'
      BY DEF Holds
    <3>1. nextRun \in Nat /\ nextRun' = nextRun + 1
      BY <2>1 DEF BillingInv, BillingTypeOK
    <3>2. CASE q = w
      <4>1. 0 < nextRun /\ nextRun < nextRun'
        BY <3>1 DEF BillingInv, BillingTypeOK
      <4>2. \A i \in Billed : invoice'[i].period # nextRun
        BY <2>5, <3>1 DEF BillingInv, BillingTypeOK
      <4>3. ASSUME NEW x \in Caller \cup Clerk, request'[x].at = "create",
                   request'[x].period = nextRun, x # w
            PROVE  FALSE
        BY <2>2, <3>1, <4>3 DEF BillingInv, Holds
      <4>4. QED
        BY <2>1, <2>2, <3>2, <4>1, <4>2, <4>3 DEF Holds
    <3>3. CASE q # w
      <4>1. request[q].at = "create" /\ Holds(q) /\ request'[q] = request[q]
        BY <2>2, <3>3 DEF BillingInv
      <4>2. request[q].period \in Nat /\ request[q].period < nextRun
        BY <4>1 DEF BillingInv, BillingTypeOK, BillingRequests, Holds
      <4>3. request[q].period < nextRun' /\ request'[w].period # request[q].period
        BY <2>1, <2>2, <3>1, <4>2
      <4>4. QED
        BY <2>1, <2>2, <3>3, <4>1, <4>2, <4>3 DEF Holds
    <3>4. QED
      BY <3>2, <3>3
  <2>7. Billing!InvoicesTie'
    BY <2>1 DEF BillingInv, Billing!InvoicesTie, Billing!BilledOnce,
           Billing!BilledOncePerPeriod, Billing!BookedOnce, Billing!IssuedIsOwed
  <2>8. \A i \in Billed : invoice'[i].period < nextRun'
    BY <2>1, <2>5 DEF BillingInv, BillingTypeOK
  <2>9. QED
    BY <2>3, <2>4, <2>6, <2>7, <2>8 DEF BillingInv
<1>3. QED
  BY <1>1, <1>2

\* A draft, of a period no invoice has, or of none.
LEMMA DraftKeeps ==
  ASSUME BillingInv, NEW i \in Billed, NEW period \in Nat, Billing!Draft(i, period),
         period < nextRun,
         period > 0 => \A k \in Billed : invoice[k].period # period
  PROVE  /\ invoice' \in [Billed -> [status: {"none", "draft", "issued"}, period: Nat]]
         /\ invoice'[i] = [status |-> "draft", period |-> period]
         /\ \A k \in Billed : k # i => invoice'[k] = invoice[k]
         /\ \A k \in Billed : invoice'[k].period < nextRun
         /\ \A k \in Billed : invoice[k].status # "none" => invoice'[k] = invoice[k]
         /\ Billing!InvoicesTie'
<1>1. /\ invoice[i].status = "none"
      /\ invoice' = [invoice EXCEPT ![i] = [status |-> "draft", period |-> period]]
      /\ UNCHANGED << today, nextRun, entries, items, deferred >>
  BY DEF Billing!Draft
<1>2. /\ invoice' \in [Billed -> [status: {"none", "draft", "issued"}, period: Nat]]
      /\ invoice'[i] = [status |-> "draft", period |-> period]
      /\ \A k \in Billed : k # i => invoice'[k] = invoice[k]
  BY <1>1 DEF BillingInv, BillingTypeOK
<1>3. \A k \in Billed : invoice'[k].period < nextRun
  BY <1>2 DEF BillingInv
<1>4. Billing!BilledOncePerPeriod'
  BY <1>2 DEF BillingInv, Billing!InvoicesTie, Billing!BilledOnce,
              Billing!BilledOncePerPeriod
<1>5. Billing!BookedOnce' /\ Billing!IssuedIsOwed'
  BY <1>1, <1>2 DEF BillingInv, Billing!InvoicesTie, Billing!BilledOnce,
              Billing!BookedOnce, Billing!IssuedIsOwed
<1>6. QED
  BY <1>1, <1>2, <1>3, <1>4, <1>5 DEF Billing!InvoicesTie, Billing!BilledOnce

LEMMA CreateKeeps ==
  ASSUME BillingInv, NEW i \in Billed,
         Billing!CreateByHand(i) \/ \E w \in Caller : Billing!CreateClaimed(w, i)
  PROVE  BillingInv'
<1>1. CASE Billing!CreateByHand(i)
  <2>1. Billing!Draft(i, 0) /\ UNCHANGED request
    BY <1>1 DEF Billing!CreateByHand
  <2>2. UNCHANGED << today, nextRun, entries, items, deferred >>
    BY <2>1 DEF Billing!Draft
  <2>3. 0 < nextRun
    BY DEF BillingInv, BillingTypeOK
  <2>4. /\ invoice' \in [Billed -> [status: {"none", "draft", "issued"}, period: Nat]]
        /\ invoice'[i] = [status |-> "draft", period |-> 0]
        /\ \A k \in Billed : k # i => invoice'[k] = invoice[k]
        /\ \A k \in Billed : invoice'[k].period < nextRun
        /\ \A k \in Billed : invoice[k].status # "none" => invoice'[k] = invoice[k]
        /\ Billing!InvoicesTie'
    BY <2>1, <2>3, DraftKeeps
  <2>5. BillingTypeOK'
    BY <2>1, <2>2, <2>4 DEF BillingInv, BillingTypeOK
  <2>6. \A q \in Caller \cup Clerk : Serves(q)'
    BY <2>1, <2>2, <2>4 DEF BillingInv, Serves
  <2>7. \A q \in Caller \cup Clerk : Holds(q)'
    BY <2>1, <2>2, <2>4 DEF BillingInv, Holds
  <2>8. QED
    BY <2>2, <2>4, <2>5, <2>6, <2>7 DEF BillingInv
<1>2. ASSUME NEW w \in Caller, Billing!CreateClaimed(w, i)
      PROVE  BillingInv'
  <2> DEFINE p == request[w].period
  <2>1. /\ request[w].at = "create" /\ Billing!Draft(i, p)
        /\ request' = [request EXCEPT ![w] = [at |-> "read", period |-> p, id |-> i]]
    BY <1>2 DEF Billing!CreateClaimed, Billing!At
  <2>2. /\ UNCHANGED << today, nextRun, entries, items, deferred >>
        /\ invoice[i].status = "none"
    BY <2>1 DEF Billing!Draft
  <2>3. /\ p \in Nat /\ 0 < p /\ p < nextRun
        /\ \A k \in Billed : invoice[k].period # p
        /\ \A q \in Caller \cup Clerk :
             request[q].at = "create" /\ request[q].period = p => q = w
    BY <2>1 DEF BillingInv, BillingTypeOK, BillingRequests, Holds
  <2> HIDE DEF p
  <2>4. /\ invoice' \in [Billed -> [status: {"none", "draft", "issued"}, period: Nat]]
        /\ invoice'[i] = [status |-> "draft", period |-> p]
        /\ \A k \in Billed : k # i => invoice'[k] = invoice[k]
        /\ \A k \in Billed : invoice'[k].period < nextRun
        /\ \A k \in Billed : invoice[k].status # "none" => invoice'[k] = invoice[k]
        /\ Billing!InvoicesTie'
    BY <2>1, <2>3, DraftKeeps
  <2>5. /\ request' \in BillingRequests
        /\ request'[w] = [at |-> "read", period |-> p, id |-> i]
        /\ \A q \in Caller \cup Clerk : q # w => request'[q] = request[q]
    BY <2>1 DEF BillingInv, BillingTypeOK, BillingRequests, BillingStep, p
  <2>6. BillingTypeOK'
    BY <2>2, <2>3, <2>4, <2>5 DEF BillingInv, BillingTypeOK, BillingStep
  <2>7. \A q \in Caller \cup Clerk : Serves(q)'
    BY <2>2, <2>4, <2>5 DEF BillingInv, Serves
  <2>8. \A q \in Caller \cup Clerk : Holds(q)'
    BY <2>2, <2>3, <2>4, <2>5 DEF BillingInv, BillingTypeOK, Holds
  <2>9. QED
    BY <2>2, <2>4, <2>6, <2>7, <2>8 DEF BillingInv
<1>3. QED
  BY <1>1, <1>2

\* Asking for work: a due schedule, or the issue of an invoice that is there.
LEMMA AskingKeeps ==
  ASSUME BillingInv, NEW r \in Caller \cup Clerk,
         Billing!ListDue(r) \/ \E i \in Billed : Billing!AskToIssue(r, i)
  PROVE  BillingInv'
<1>1. UNCHANGED << today, nextRun, invoice, entries, items, deferred >>
  BY DEF Billing!ListDue, Billing!AskToIssue
<1>2. /\ request' \in BillingRequests
      /\ \A q \in Caller \cup Clerk : q # r => request'[q] = request[q]
      /\ \/ request'[r] = [at |-> "claim", period |-> nextRun, id |-> 0]
         \/ \E i \in Billed : /\ invoice[i].status # "none"
                              /\ request'[r] = [at |-> "read", period |-> 0, id |-> i]
  BY DEF BillingInv, BillingTypeOK, BillingRequests, BillingStep, Billing!ListDue,
         Billing!AskToIssue
<1>3. BillingTypeOK'
  BY <1>1, <1>2 DEF BillingInv, BillingTypeOK, BillingStep
<1>4. \A q \in Caller \cup Clerk : Serves(q)'
  <2>1. Serves(r)'
    <3>1. CASE request'[r] = [at |-> "claim", period |-> nextRun, id |-> 0]
      <4>1. nextRun > 0
        BY DEF BillingInv, BillingTypeOK
      <4>2. request'[r].at = "claim" /\ request'[r].period = nextRun
        BY <3>1
      <4>3. QED
        BY <4>1, <4>2 DEF Serves
    <3>2. ASSUME NEW i \in Billed, invoice[i].status # "none",
                 request'[r] = [at |-> "read", period |-> 0, id |-> i]
          PROVE  Serves(r)'
      BY <1>1, <3>2 DEF Serves
    <3>3. QED
      BY <1>2, <3>1, <3>2
  <2>2. \A q \in Caller \cup Clerk : q # r => Serves(q)'
    BY <1>1, <1>2 DEF BillingInv, Serves
  <2>3. QED
    BY <2>1, <2>2
<1>5. \A q \in Caller \cup Clerk : Holds(q)'
  <2>1. request'[r].at # "create"
    <3>1. CASE request'[r] = [at |-> "claim", period |-> nextRun, id |-> 0]
      BY <3>1
    <3>2. ASSUME NEW i \in Billed,
                 request'[r] = [at |-> "read", period |-> 0, id |-> i]
          PROVE  request'[r].at # "create"
      BY <3>2
    <3>3. QED
      BY <1>2, <3>1, <3>2
  <2>2. ASSUME NEW q \in Caller \cup Clerk, request'[q].at = "create"
        PROVE  q # r /\ request'[q] = request[q]
    <3>1. q # r
      BY <2>1, <2>2
    <3>2. QED
      BY <1>2, <3>1
  <2>3. ASSUME NEW q \in Caller \cup Clerk, request'[q].at = "create"
        PROVE  Holds(q)'
    <3>1. Holds(q) /\ request'[q] = request[q] /\ request[q].at = "create"
      BY <2>2, <2>3 DEF BillingInv
    <3>2. QED
      BY <1>1, <2>2, <3>1 DEF Holds
  <2>4. QED
    BY <2>3 DEF Holds
<1>6. Billing!InvoicesTie'
  BY <1>1 DEF BillingInv, Billing!InvoicesTie, Billing!BilledOnce,
         Billing!BilledOncePerPeriod, Billing!BookedOnce, Billing!IssuedIsOwed
<1>7. QED
  BY <1>1, <1>3, <1>4, <1>5, <1>6 DEF BillingInv

\* The four transactions of an issue.
LEMMA IssueKeeps ==
  ASSUME BillingInv, NEW r \in Caller \cup Clerk, Billing!Issue(r)
  PROVE  BillingInv'
<1> DEFINE i == request[r].id
<1>1. CASE Billing!ReadInvoice(r) /\ invoice[i].status # "draft"
  BY <1>1, BillingGivesUp DEF Billing!ReadInvoice
<1>2. CASE Billing!Defer(r)
  <2>1. /\ request[r].at = "defer" /\ deferred' = deferred \cup {i}
        /\ UNCHANGED << today, nextRun, invoice, entries, items >> /\ Billing!Stop(r)
    BY <1>2 DEF Billing!Defer, Billing!At
  <2>2. i \in Billed /\ entries[i] > 0 /\ i \in items
    BY <2>1 DEF BillingInv, Serves
  <2> HIDE DEF i
  <2>3. /\ request' \in BillingRequests
        /\ request'[r] = Billing!Idle
        /\ \A q \in Caller \cup Clerk : q # r => request'[q] = request[q]
    BY <2>1, BillingStops DEF BillingInv
  <2>4. BillingTypeOK'
    BY <2>1, <2>2, <2>3 DEF BillingInv, BillingTypeOK, BillingStep, Billing!Idle
  <2>5. \A q \in Caller \cup Clerk : Serves(q)'
    BY <2>1, <2>3 DEF BillingInv, Serves, Billing!Idle
  <2>6. \A q \in Caller \cup Clerk : Holds(q)'
    BY <2>1, <2>3 DEF BillingInv, Holds, Billing!Idle
  <2>7. Billing!InvoicesTie'
    BY <2>1, <2>2 DEF BillingInv, Billing!InvoicesTie, Billing!BilledOnce,
           Billing!BilledOncePerPeriod, Billing!BookedOnce, Billing!IssuedIsOwed
  <2>8. QED
    BY <2>1, <2>4, <2>5, <2>6, <2>7 DEF BillingInv
<1>3. ASSUME NEW step \in {"book", "item", "mark", "defer"}, Billing!Goto(r, step),
             i \in Billed, invoice[i].status # "none",
             UNCHANGED << today, nextRun, deferred >>,
             invoice' \in [Billed -> [status: {"none", "draft", "issued"}, period: Nat]],
             \A k \in Billed : /\ invoice'[k].period = invoice[k].period
                               /\ invoice[k].status # "none" => invoice'[k].status # "none"
                               /\ invoice'[k].status = "issued" =>
                                    \/ invoice[k].status = "issued"
                                    \/ entries'[k] > 0 /\ k \in items',
             entries' \in [Billed -> Nat],
             \A k \in Billed : entries[k] > 0 => entries'[k] > 0,
             \A k \in Billed : entries'[k] <= 1,
             items \subseteq items', items' \subseteq Billed,
             step \in {"item", "mark", "defer"} => entries'[i] > 0,
             step \in {"mark", "defer"} => i \in items'
      PROVE  BillingInv'
  <2>1. /\ request' \in BillingRequests
        /\ request'[r] = [at |-> step, period |-> request[r].period, id |-> i]
        /\ \A q \in Caller \cup Clerk : q # r => request'[q] = request[q]
    BY <1>3, BillingMoves DEF BillingInv, BillingStep
  <2> HIDE DEF i
  <2>2. BillingTypeOK'
    BY <1>3, <2>1 DEF BillingInv, BillingTypeOK, BillingStep
  <2>3. \A q \in Caller \cup Clerk : Serves(q)'
    <3> SUFFICES ASSUME NEW q \in Caller \cup Clerk PROVE Serves(q)'
      OBVIOUS
    <3>1. CASE q = r
      BY <1>3, <2>1, <3>1 DEF Serves
    <3>2. CASE q # r
      BY <1>3, <2>1, <3>2 DEF BillingInv, Serves
    <3>3. QED
      BY <3>1, <3>2
  <2>4. \A q \in Caller \cup Clerk : Holds(q)'
    BY <1>3, <2>1 DEF BillingInv, Holds
  <2>5. Billing!BilledOncePerPeriod' /\ Billing!BookedOnce'
    BY <1>3 DEF BillingInv, Billing!InvoicesTie, Billing!BilledOnce,
                Billing!BilledOncePerPeriod, Billing!BookedOnce
  <2>6. Billing!IssuedIsOwed'
    BY <1>3 DEF BillingInv, Billing!InvoicesTie, Billing!IssuedIsOwed
  <2>7. \A k \in Billed : invoice'[k].period < nextRun'
    BY <1>3 DEF BillingInv
  <2>8. QED
    BY <2>2, <2>3, <2>4, <2>5, <2>6, <2>7
       DEF BillingInv, Billing!InvoicesTie, Billing!BilledOnce
<1>4. /\ \A k \in Billed : entries[k] \in Nat /\ entries[k] <= 1
      /\ invoice \in [Billed -> [status: {"none", "draft", "issued"}, period: Nat]]
      /\ entries \in [Billed -> Nat] /\ items \subseteq Billed
  BY DEF BillingInv, BillingTypeOK, Billing!InvoicesTie, Billing!BilledOnce,
         Billing!BookedOnce
<1>5. CASE Billing!ReadInvoice(r) /\ invoice[i].status = "draft"
  <2>1. /\ request[r].at = "read" /\ Billing!Goto(r, "book")
        /\ UNCHANGED << today, nextRun, invoice, entries, items, deferred >>
    BY <1>5 DEF Billing!ReadInvoice, Billing!At
  <2>2. i \in Billed /\ invoice[i].status # "none"
    BY <2>1 DEF BillingInv, Serves
  <2> HIDE DEF i
  <2>3. QED
    BY <1>3, <1>4, <2>1, <2>2
<1>6. CASE Billing!Book(r)
  <2>1. /\ request[r].at = "book" /\ Billing!Goto(r, "item")
        /\ entries' = IF entries[i] > 0 THEN entries ELSE [entries EXCEPT ![i] = @ + 1]
        /\ UNCHANGED << today, nextRun, invoice, items, deferred >>
    BY <1>6 DEF Billing!Book, Billing!At, Billing!IsBooked
  <2>2. i \in Billed /\ invoice[i].status # "none"
    BY <2>1 DEF BillingInv, Serves
  <2> HIDE DEF i
  <2>3. /\ entries' \in [Billed -> Nat] /\ entries'[i] > 0
        /\ \A k \in Billed : entries[k] > 0 => entries'[k] > 0
        /\ \A k \in Billed : entries'[k] <= 1
    BY <1>4, <2>1, <2>2
  <2>4. QED
    BY <1>3, <1>4, <2>1, <2>2, <2>3
<1>7. CASE Billing!OpenItem(r)
  <2>1. /\ request[r].at = "item" /\ Billing!Goto(r, "mark")
        /\ items' = items \cup {i}
        /\ UNCHANGED << today, nextRun, invoice, entries, deferred >>
    BY <1>7 DEF Billing!OpenItem, Billing!At
  <2>2. i \in Billed /\ invoice[i].status # "none" /\ entries[i] > 0
    BY <2>1 DEF BillingInv, Serves
  <2> HIDE DEF i
  <2>3. QED
    BY <1>3, <1>4, <2>1, <2>2
<1>8. CASE Billing!MarkIssued(r)
  <2>1. /\ request[r].at = "mark" /\ Billing!Goto(r, "defer")
        /\ invoice' = [invoice EXCEPT ![i].status = "issued"]
        /\ UNCHANGED << today, nextRun, entries, items, deferred >>
    BY <1>8 DEF Billing!MarkIssued, Billing!At
  <2>2. i \in Billed /\ invoice[i].status # "none" /\ entries[i] > 0 /\ i \in items
    BY <2>1 DEF BillingInv, Serves
  <2> HIDE DEF i
  <2>3. /\ invoice' \in [Billed -> [status: {"none", "draft", "issued"}, period: Nat]]
        /\ \A k \in Billed : /\ invoice'[k].period = invoice[k].period
                             /\ k # i => invoice'[k] = invoice[k]
        /\ invoice'[i].status = "issued"
    BY <1>4, <2>1, <2>2
  <2>4. QED
    BY <1>3, <1>4, <2>1, <2>2, <2>3
<1>9. QED
  BY <1>1, <1>2, <1>5, <1>6, <1>7, <1>8 DEF Billing!Issue

LEMMA BillingKept ==
  ASSUME BillingInv, [Billing!Next]_Billing!vars
  PROVE  BillingInv'
<1>1. CASE Billing!Tick
  BY <1>1 DEF Billing!Tick, BillingInv, BillingTypeOK, Serves, Holds,
     Billing!InvoicesTie, Billing!BilledOnce, Billing!BilledOncePerPeriod,
     Billing!BookedOnce, Billing!IssuedIsOwed
<1>2. ASSUME NEW r \in Caller \cup Clerk, Billing!Fails(r)
      PROVE  BillingInv'
  BY <1>2, BillingGivesUp DEF Billing!Fails
<1>3. CASE UNCHANGED Billing!vars
  BY <1>3 DEF Billing!vars, BillingInv, BillingTypeOK, Serves, Holds,
     Billing!InvoicesTie, Billing!BilledOnce, Billing!BilledOncePerPeriod,
     Billing!BookedOnce, Billing!IssuedIsOwed
<1>4. QED
  BY <1>1, <1>2, <1>3, ClaimKeeps, CreateKeeps, AskingKeeps, IssueKeeps DEF Billing!Next

\* However many replicas find the same period due and however many requests
\* issue the same invoice, a period is billed by one invoice at most, an invoice
\* is booked once, and none is issued or deferred that is not in the ledger and
\* the subledger (ClaimRecurring, IssueInvoice).
THEOREM InvoicesAreSound == Billing!Spec => []Billing!InvoicesTie
<1>1. Billing!Init => BillingInv
  BY BillingInitially
<1>2. BillingInv /\ [Billing!Next]_Billing!vars => BillingInv'
  BY BillingKept
<1>3. BillingInv => Billing!InvoicesTie
  BY DEF BillingInv
<1>4. QED
  BY <1>1, <1>2, <1>3, PTL DEF Billing!Spec

-----------------------------------------------------------------------------
(* Provisions. *)

ProvisionRequests ==
  [Caller -> [at: {"idle", "book"},
              kind: {"none", "unwind", "utilize", "remeasure", "reverse"},
              delta: Int, read: Int]]

ProvisionTypeOK ==
  /\ provision \in [status: {"none", "active", "settled", "reversed"}, carrying: Nat]
  /\ movements \in Int /\ account \in Int
  /\ request \in ProvisionRequests
  /\ stale \in BOOLEAN

\* What was decided leaves no less than nothing of what was read, and nothing of
\* it when it is a reversal; as long as nothing was stale there was something.
DecidedRight(r) ==
  request[r].at = "book" =>
    /\ provision.status # "none"
    /\ request[r].read + request[r].delta >= 0
    /\ request[r].kind = "reverse" => request[r].read + request[r].delta = 0
    /\ ~ stale => request[r].read > 0

ProvisionInv ==
  /\ ProvisionTypeOK
  /\ \A r \in Caller : DecidedRight(r)
  /\ Liab!ProvisionTies

LEMMA ProvisionInitially == Liab!Init => ProvisionInv
<1> SUFFICES ASSUME Liab!Init PROVE ProvisionInv
  OBVIOUS
<1>1. /\ provision.status = "none" /\ provision.carrying = 0
      /\ provision \in [status: {"none", "active", "settled", "reversed"}, carrying: Nat]
      /\ movements = 0 /\ account = 0
  BY DEF Liab!Init
<1>2. request \in ProvisionRequests /\ \A r \in Caller : request[r].at = "idle"
  BY DEF Liab!Init, Liab!Idle, ProvisionRequests
<1>3. stale \in BOOLEAN
  BY DEF Liab!Init
<1>4. ProvisionTypeOK
  BY <1>1, <1>2, <1>3 DEF ProvisionTypeOK
<1>5. \A r \in Caller : DecidedRight(r)
  BY <1>2 DEF DecidedRight
<1>6. Liab!ProvisionTies
  BY <1>1 DEF Liab!ProvisionTies, Liab!CarryingTies, Liab!ClosedIsEmpty
<1>7. QED
  BY <1>4, <1>5, <1>6 DEF ProvisionInv

LEMMA RoundedIsNat ==
  ASSUME NEW n \in Nat, NEW d \in Nat \ {0}
  PROVE  Liab!Rounded(n, d) \in Nat
<1>1. 2 * n + d \in Nat /\ 2 * d \in Nat \ {0}
  OBVIOUS
<1>2. \A a \in Nat, b \in Nat \ {0} : a \div b \in Int /\ a \div b >= 0
  OBVIOUS
<1>3. QED
  BY <1>1, <1>2 DEF Liab!Rounded

LEMMA RecognizeKeeps ==
  ASSUME Liab!ProvisionAssumption, ProvisionInv,
         NEW estimate \in Estimate, NEW years \in Years,
         Liab!Recognize(estimate, years)
  PROVE  ProvisionInv'
<1> DEFINE carrying == Liab!PresentValue(estimate, years)
<1>1. /\ provision.status = "none" /\ carrying > 0
      /\ provision' = [status |-> "active", carrying |-> carrying]
      /\ movements' = carrying /\ account' = carrying
      /\ UNCHANGED << events, request, stale >>
  BY DEF Liab!Recognize
<1>2. carrying \in Int
  <2>1. /\ estimate * DiscountBase^years \in Nat
        /\ (DiscountBase + DiscountRate)^years \in Nat \ {0}
    <3>1. /\ estimate \in Nat /\ DiscountBase^years \in Nat
          /\ (DiscountBase + DiscountRate)^years \in Nat \ {0}
      BY DEF Liab!ProvisionAssumption
    <3> DEFINE b == DiscountBase^years
    <3> HIDE DEF b
    <3>2. estimate * b \in Nat
      BY <3>1 DEF b
    <3>3. QED
      BY <3>1, <3>2 DEF b
  <2>2. QED
    BY <2>1, RoundedIsNat DEF Liab!PresentValue
<1> HIDE DEF carrying
<1>3. ProvisionTypeOK'
  BY <1>1, <1>2 DEF ProvisionInv, ProvisionTypeOK
<1>4. \A r \in Caller : DecidedRight(r)'
  BY <1>1 DEF ProvisionInv, DecidedRight
<1>5. Liab!ProvisionTies'
  BY <1>1, <1>2 DEF Liab!ProvisionTies, Liab!CarryingTies, Liab!ClosedIsEmpty
<1>6. QED
  BY <1>3, <1>4, <1>5 DEF ProvisionInv

LEMMA DecideKeeps ==
  ASSUME ProvisionInv, NEW r \in Caller,
         NEW kind \in {"unwind", "utilize", "remeasure", "reverse"}, NEW delta \in Int,
         provision.carrying + delta >= 0,
         kind = "reverse" => provision.carrying + delta = 0,
         Liab!Decide(r, kind, delta)
  PROVE  ProvisionInv'
<1>1. /\ provision.status = "active"
      /\ request' = [request EXCEPT ![r] = [at |-> "book", kind |-> kind,
                                            delta |-> delta,
                                            read |-> provision.carrying]]
      /\ UNCHANGED << provision, movements, account, events, stale >>
  BY DEF Liab!Decide
<1>2. /\ provision.carrying \in Nat
      /\ ~ stale => provision.carrying > 0
  BY <1>1 DEF ProvisionInv, ProvisionTypeOK, Liab!ProvisionTies, Liab!ClosedIsEmpty
<1>3. /\ request' \in ProvisionRequests
      /\ request'[r] = [at |-> "book", kind |-> kind, delta |-> delta,
                        read |-> provision.carrying]
      /\ \A q \in Caller : q # r => request'[q] = request[q]
  BY <1>1, <1>2 DEF ProvisionInv, ProvisionTypeOK, ProvisionRequests
<1>4. ProvisionTypeOK'
  BY <1>1, <1>3 DEF ProvisionInv, ProvisionTypeOK
<1>5. DecidedRight(r)'
  BY <1>1, <1>2, <1>3 DEF DecidedRight
<1>6. \A q \in Caller : q # r => DecidedRight(q)'
  BY <1>1, <1>3 DEF ProvisionInv, DecidedRight
<1>7. Liab!ProvisionTies'
  BY <1>1 DEF ProvisionInv, Liab!ProvisionTies, Liab!CarryingTies, Liab!ClosedIsEmpty
<1>8. QED
  BY <1>4, <1>5, <1>6, <1>7 DEF ProvisionInv

LEMMA ProvisionBookKeeps ==
  ASSUME ProvisionInv, NEW r \in Caller, NEW ref, Liab!Book(r, ref)
  PROVE  ProvisionInv'
<1> DEFINE x == request[r]
           carrying == provision.carrying + x.delta
           floor == IF carrying < 0 THEN 0 ELSE carrying
           after == Liab!StatusAfter(x.kind, carrying)
<1>1. /\ x.at = "book"
      /\ account' = account + x.delta /\ movements' = movements + x.delta
      /\ provision' = [status |-> after, carrying |-> floor]
      /\ stale' = (stale \/ x.read # provision.carrying)
      /\ request' = [request EXCEPT ![r] = Liab!Idle]
  BY DEF Liab!Book
<1>2. /\ x.delta \in Int /\ x.read \in Int /\ provision.carrying \in Nat
      /\ carrying \in Int /\ floor \in Nat
      /\ account \in Int /\ movements \in Int
  BY DEF ProvisionInv, ProvisionTypeOK, ProvisionRequests
<1>3. /\ provision.status # "none" /\ x.read + x.delta >= 0
      /\ x.kind = "reverse" => x.read + x.delta = 0
      /\ ~ stale => x.read > 0
  BY <1>1 DEF ProvisionInv, DecidedRight
<1>4. after = IF x.kind = "reverse" THEN "reversed"
               ELSE IF carrying <= 0 THEN "settled" ELSE provision.status
  BY DEF Liab!StatusAfter
<1>5. after \in {"active", "settled", "reversed"}
  BY <1>3, <1>4 DEF ProvisionInv, ProvisionTypeOK
<1>6. /\ request' \in ProvisionRequests /\ request'[r].at = "idle"
      /\ \A q \in Caller : q # r => request'[q] = request[q]
  BY <1>1 DEF ProvisionInv, ProvisionTypeOK, ProvisionRequests, Liab!Idle
<1>7. ProvisionTypeOK'
  <2>1. provision' \in [status: {"none", "active", "settled", "reversed"}, carrying: Nat]
    BY <1>1, <1>2, <1>5
  <2>2. movements' \in Int /\ account' \in Int
    BY <1>1, <1>2
  <2>3. stale' \in BOOLEAN
    BY <1>1
  <2>4. QED
    BY <1>6, <2>1, <2>2, <2>3 DEF ProvisionTypeOK
<1>8. \A q \in Caller : DecidedRight(q)'
  <2> SUFFICES ASSUME NEW q \in Caller, request'[q].at = "book"
               PROVE  DecidedRight(q)'
    BY DEF DecidedRight
  <2>1. request'[q] = request[q] /\ DecidedRight(q)
    BY <1>6 DEF ProvisionInv
  <2>2. provision'.status # "none" /\ (~ stale' => ~ stale)
    BY <1>1, <1>5
  <2>3. QED
    BY <2>1, <2>2 DEF DecidedRight
<1>9. ASSUME ~ stale'
      PROVE  /\ provision'.carrying = account' /\ account' = movements'
             /\ provision'.status = "active" <=> provision'.carrying > 0
  <2>1. ~ stale /\ x.read = provision.carrying
    BY <1>1, <1>9
  <2>2. provision.carrying = account /\ account = movements /\ provision.status = "active"
    BY <1>2, <1>3, <2>1 DEF ProvisionInv, Liab!ProvisionTies, Liab!CarryingTies,
                            Liab!ClosedIsEmpty
  <2>3. carrying >= 0 /\ floor = carrying /\ (x.kind = "reverse" => carrying = 0)
    BY <1>2, <1>3, <2>1
  <2>4. provision'.carrying = carrying /\ provision'.status = after
    BY <1>1, <2>3
  <2>5. after = "active" <=> carrying > 0
    BY <1>2, <1>4, <2>2, <2>3
  <2>6. carrying = account' /\ account' = movements'
    BY <1>1, <1>2, <2>2
  <2>7. QED
    BY <2>4, <2>5, <2>6
<1>10. QED
  BY <1>7, <1>8, <1>9 DEF ProvisionInv, Liab!ProvisionTies, Liab!CarryingTies,
                          Liab!ClosedIsEmpty

LEMMA ProvisionKept ==
  ASSUME Liab!ProvisionAssumption, ProvisionInv, [Liab!Next]_Liab!vars
  PROVE  ProvisionInv'
<1>1. /\ provision.carrying \in Nat /\ Estimate \subseteq Nat /\ Use \subseteq Nat
      /\ DiscountRate \in Nat /\ DiscountBase \in Nat \ {0}
  BY DEF ProvisionInv, ProvisionTypeOK, Liab!ProvisionAssumption
<1>2. ASSUME NEW r \in Caller, Liab!Unwind(r)
      PROVE  ProvisionInv'
  <2> DEFINE delta == Liab!Rounded(provision.carrying * DiscountRate, DiscountBase)
  <2>1. provision.carrying * DiscountRate \in Nat
    BY <1>1
  <2>2. delta \in Nat
    BY <1>1, <2>1, RoundedIsNat
  <2>3. Liab!Decide(r, "unwind", delta)
    BY <1>2 DEF Liab!Unwind
  <2> HIDE DEF delta
  <2>4. QED
    BY <1>1, <2>2, <2>3, DecideKeeps
<1>3. ASSUME NEW r \in Caller, Liab!Reverse(r)
      PROVE  ProvisionInv'
  BY <1>1, <1>3, DecideKeeps DEF Liab!Reverse
<1>4. ASSUME NEW r \in Caller, NEW amount \in Use, Liab!Utilize(r, amount)
      PROVE  ProvisionInv'
  <2> DEFINE spent == IF amount > provision.carrying THEN provision.carrying ELSE amount
  <2>1. spent \in Nat /\ spent <= provision.carrying
    BY <1>1
  <2>2. Liab!Decide(r, "utilize", - spent)
    BY <1>4 DEF Liab!Utilize
  <2> HIDE DEF spent
  <2>3. - spent \in Int /\ provision.carrying + (- spent) >= 0
    BY <1>1, <2>1
  <2>4. QED
    BY <2>2, <2>3, DecideKeeps
<1>5. ASSUME NEW r \in Caller, NEW estimate \in Estimate, Liab!Remeasure(r, estimate)
      PROVE  ProvisionInv'
  <2>1. /\ estimate - provision.carrying \in Int
        /\ provision.carrying + (estimate - provision.carrying) >= 0
    BY <1>1
  <2>2. QED
    BY <1>5, <2>1, DecideKeeps DEF Liab!Remeasure
<1>6. ASSUME NEW r \in Caller, Liab!BookNothing(r)
      PROVE  ProvisionInv'
  <2>1. /\ request' = [request EXCEPT ![r] = Liab!Idle]
        /\ UNCHANGED << provision, movements, account, stale >>
    BY <1>6 DEF Liab!BookNothing
  <2>2. /\ request' \in ProvisionRequests /\ request'[r].at = "idle"
        /\ \A q \in Caller : q # r => request'[q] = request[q]
    BY <2>1 DEF ProvisionInv, ProvisionTypeOK, ProvisionRequests, Liab!Idle
  <2>3. \A q \in Caller : DecidedRight(q)'
    BY <2>1, <2>2 DEF ProvisionInv, DecidedRight
  <2>4. QED
    BY <2>1, <2>2, <2>3 DEF ProvisionInv, ProvisionTypeOK, Liab!ProvisionTies,
                            Liab!CarryingTies, Liab!ClosedIsEmpty
<1>7. CASE UNCHANGED Liab!vars
  BY <1>7 DEF Liab!vars, ProvisionInv, ProvisionTypeOK, DecidedRight,
              Liab!ProvisionTies, Liab!CarryingTies, Liab!ClosedIsEmpty
<1>8. QED
  BY <1>2, <1>3, <1>4, <1>5, <1>6, <1>7, RecognizeKeeps, ProvisionBookKeeps
     DEF Liab!Next

\* As long as no movement was decided on an amount that had changed, the carrying
\* amount is what the liability account and the movements come to, and the
\* provision is closed exactly when nothing of it is left, at every rate, estimate
\* and order of operations (bookProvisionOp).
THEOREM ProvisionIsSound ==
  ASSUME Liab!ProvisionAssumption
  PROVE  Liab!Spec => []Liab!ProvisionTies
<1>1. Liab!Init => ProvisionInv
  BY ProvisionInitially
<1>2. ProvisionInv /\ [Liab!Next]_Liab!vars => ProvisionInv'
  BY ProvisionKept
<1>3. ProvisionInv => Liab!ProvisionTies
  BY DEF ProvisionInv
<1>4. QED
  BY <1>1, <1>2, <1>3, PTL DEF Liab!Spec

-----------------------------------------------------------------------------
(* Goods received and invoiced. *)

Receivals == [accrued: Int, cleared: Int, received: Int, invoiced: Int,
              status: {"none", "open", "pending", "matched", "variance"}]

GoodsTypeOK ==
  /\ accrual \in Receivals /\ account \in Int
  /\ exceptions \in [Goods!Type -> {"none", "open", "resolved"}]
  /\ review.at \in {"idle", "raise", "stamp"}
  /\ request \in [Caller -> [at: {"idle", "book"}, residual: Int]]
  /\ stale \in BOOLEAN

\* Between its resolving and its stamp a review that found a match has left no
\* exception open, and only a review opens any.
StampIsTrue ==
  review.at = "stamp" /\ Goods!Verdict(review.row) = "matched" =>
    \A t \in Goods!Type : exceptions[t] # "open"

GoodsInv == GoodsTypeOK /\ StampIsTrue /\ Goods!OrderSettles

LEMMA GoodsInitially == Goods!Init => GoodsInv
<1> SUFFICES ASSUME Goods!Init PROVE GoodsInv
  OBVIOUS
<1>1. /\ accrual = [accrued |-> 0, cleared |-> 0, received |-> 0, invoiced |-> 0,
                   status |-> "none"]
      /\ account = 0 /\ review = [at |-> "idle", row |-> Goods!NoRow]
  BY DEF Goods!Init, Goods!NoRow
<1>2. GoodsTypeOK
  <2>1. accrual \in Receivals
    BY <1>1 DEF Receivals
  <2>2. request \in [Caller -> [at: {"idle", "book"}, residual: Int]]
    BY DEF Goods!Init
  <2>3. exceptions \in [Goods!Type -> {"none", "open", "resolved"}]
    <3> HIDE DEF Goods!Type
    <3>1. QED
      BY DEF Goods!Init
  <2>4. review.at = "idle"
    BY <1>1
  <2>5. stale \in BOOLEAN
    BY DEF Goods!Init
  <2>6. QED
    BY <1>1, <2>1, <2>2, <2>3, <2>4, <2>5 DEF GoodsTypeOK
<1>3. Goods!OrderSettles
  BY <1>1 DEF Goods!OrderSettles, Goods!ClearingTies, Goods!Residual,
              Goods!MatchedIsSettled
<1>4. QED
  BY <1>1, <1>2, <1>3 DEF GoodsInv, StampIsTrue

\* What an event adds to the row, by fields: the row of an order that had none
\* is open.
LEMMA RowAfter ==
  ASSUME NEW x \in Receivals, NEW y, y = Goods!Opened(x)
  PROVE  /\ y \in Receivals /\ y.accrued = x.accrued /\ y.cleared = x.cleared
         /\ y.status = "matched" => x.status = "matched"
BY DEF Goods!Opened, Receivals

LEMMA EventKeeps ==
  ASSUME Goods!ValueAssumption, GoodsInv,
         \/ \E e \in GoodsIn : Goods!BookGRNAccrual(e)
         \/ \E e \in GoodsInvoice : Goods!BookAPInvoice(e)
  PROVE  GoodsInv'
<1>1. PICK x \in Receivals :
        /\ accrual' = Goods!Opened(x) /\ x.status = accrual.status
        /\ account' - account = (x.accrued - x.cleared) - (accrual.accrued - accrual.cleared)
        /\ account' \in Int
        /\ UNCHANGED << exceptions, review, request, stale >>
  <2>1. accrual \in Receivals /\ account \in Int
    BY DEF GoodsInv, GoodsTypeOK
  <2>2. ASSUME NEW e \in GoodsIn, Goods!BookGRNAccrual(e)
        PROVE  \E x \in Receivals :
                 /\ accrual' = Goods!Opened(x) /\ x.status = accrual.status
                 /\ account' - account
                      = (x.accrued - x.cleared) - (accrual.accrued - accrual.cleared)
                 /\ account' \in Int
                 /\ UNCHANGED << exceptions, review, request, stale >>
    <3>1. GoodsValue[e] \in Int /\ Quantity[e] \in Nat
      BY DEF Goods!ValueAssumption
    <3> DEFINE m == accrual.accrued + GoodsValue[e]
               n == accrual.received + Quantity[e]
               x == [accrual EXCEPT !.accrued = m, !.received = n]
    <3>2. /\ accrual' = Goods!Opened(x) /\ account' = account + GoodsValue[e]
          /\ UNCHANGED << exceptions, review, request, stale >>
      BY <2>2 DEF Goods!BookGRNAccrual
    <3>3. m \in Int /\ n \in Int
      BY <2>1, <3>1 DEF Receivals
    <3>4. accrual.accrued \in Int /\ accrual.cleared \in Int
      BY <2>1 DEF Receivals
    <3> HIDE DEF m, n
    <3>5. /\ x \in Receivals /\ x.status = accrual.status
          /\ x.accrued = m /\ x.cleared = accrual.cleared
      BY <2>1, <3>3 DEF Receivals
    <3> HIDE DEF x
    <3>6. QED
      BY <2>1, <3>1, <3>2, <3>4, <3>5 DEF m
  <2>3. ASSUME NEW e \in GoodsInvoice, Goods!BookAPInvoice(e)
        PROVE  \E x \in Receivals :
                 /\ accrual' = Goods!Opened(x) /\ x.status = accrual.status
                 /\ account' - account
                      = (x.accrued - x.cleared) - (accrual.accrued - accrual.cleared)
                 /\ account' \in Int
                 /\ UNCHANGED << exceptions, review, request, stale >>
    <3>1. GoodsValue[e] \in Int /\ Quantity[e] \in Nat
      BY DEF Goods!ValueAssumption
    <3> DEFINE m == accrual.cleared + GoodsValue[e]
               n == accrual.invoiced + Quantity[e]
               x == [accrual EXCEPT !.cleared = m, !.invoiced = n]
    <3>2. /\ accrual' = Goods!Opened(x) /\ account' = account - GoodsValue[e]
          /\ UNCHANGED << exceptions, review, request, stale >>
      BY <2>3 DEF Goods!BookAPInvoice
    <3>3. m \in Int /\ n \in Int
      BY <2>1, <3>1 DEF Receivals
    <3>4. accrual.accrued \in Int /\ accrual.cleared \in Int
      BY <2>1 DEF Receivals
    <3> HIDE DEF m, n
    <3>5. /\ x \in Receivals /\ x.status = accrual.status
          /\ x.cleared = m /\ x.accrued = accrual.accrued
      BY <2>1, <3>3 DEF Receivals
    <3> HIDE DEF x
    <3>6. QED
      BY <2>1, <3>1, <3>2, <3>4, <3>5 DEF m
  <2>4. QED
    BY <2>2, <2>3
<1>2. /\ accrual' \in Receivals /\ accrual'.accrued = x.accrued
      /\ accrual'.cleared = x.cleared
      /\ accrual'.status = "matched" => accrual.status = "matched"
  BY <1>1, RowAfter
<1>3. GoodsTypeOK' /\ StampIsTrue'
  BY <1>1, <1>2 DEF GoodsInv, GoodsTypeOK, StampIsTrue
<1>4. Goods!ClearingTies'
  <2> SUFFICES ASSUME ~ stale' PROVE account' = accrual'.accrued - accrual'.cleared
    BY DEF Goods!ClearingTies, Goods!Residual
  <2>1. account = accrual.accrued - accrual.cleared
    BY <1>1 DEF GoodsInv, Goods!OrderSettles, Goods!ClearingTies, Goods!Residual
  <2>2. /\ accrual.accrued \in Int /\ accrual.cleared \in Int
        /\ x.accrued \in Int /\ x.cleared \in Int /\ account \in Int
    BY DEF GoodsInv, GoodsTypeOK, Receivals
  <2>3. QED
    BY <1>1, <1>2, <2>1, <2>2
<1>5. Goods!MatchedIsSettled'
  BY <1>1, <1>2 DEF GoodsInv, Goods!OrderSettles, Goods!MatchedIsSettled
<1>6. QED
  BY <1>3, <1>4, <1>5 DEF GoodsInv, Goods!OrderSettles

\* The review: what it resolves it has resolved when it stamps.
LEMMA ReviewKeeps ==
  ASSUME GoodsInv, Goods!ReadAccruals \/ Goods!RaiseExceptions \/ Goods!StampStatus
  PROVE  GoodsInv'
<1>1. UNCHANGED << account, request, stale >>
  BY DEF Goods!ReadAccruals, Goods!RaiseExceptions, Goods!StampStatus
<1>2. CASE Goods!ReadAccruals
  <2>1. review'.at = "raise" /\ UNCHANGED << accrual, exceptions >>
    BY <1>2 DEF Goods!ReadAccruals
  <2>2. QED
    BY <1>1, <2>1 DEF GoodsInv, GoodsTypeOK, StampIsTrue, Goods!OrderSettles,
                      Goods!ClearingTies, Goods!Residual, Goods!MatchedIsSettled
<1>3. CASE Goods!RaiseExceptions
  <2>1. /\ exceptions' =
             IF Goods!Verdict(review.row) = "matched" THEN Goods!Resolve(Goods!ResolvedByMatch)
             ELSE [t \in Goods!Type |->
                     IF t \in Goods!Raised(review.row) /\ exceptions[t] = "none"
                     THEN "open" ELSE exceptions[t]]
        /\ review' = [review EXCEPT !.at = "stamp"] /\ review.at = "raise"
        /\ UNCHANGED accrual
    BY <1>3 DEF Goods!RaiseExceptions
  <2>2. exceptions' \in [Goods!Type -> {"none", "open", "resolved"}]
    <3> HIDE DEF Goods!Type
    <3>1. QED
      BY <2>1 DEF GoodsInv, GoodsTypeOK, Goods!Resolve
  <2>3. review'.at = "stamp" /\ review'.row = review.row
    BY <2>1 DEF GoodsInv, GoodsTypeOK
  <2>4. Goods!Verdict(review.row) = "matched" =>
          \A t \in Goods!Type : exceptions'[t] # "open"
    BY <2>1 DEF Goods!Resolve, Goods!ResolvedByMatch
  <2>5. StampIsTrue'
    BY <2>3, <2>4 DEF StampIsTrue
  <2>6. QED
    BY <1>1, <2>1, <2>2, <2>3, <2>5
       DEF GoodsInv, GoodsTypeOK, Goods!OrderSettles, Goods!ClearingTies,
           Goods!Residual, Goods!MatchedIsSettled
<1>4. CASE Goods!StampStatus
  <2>1. /\ review.at = "stamp" /\ review'.at = "idle"
        /\ accrual' = [accrual EXCEPT !.status = Goods!Verdict(review.row)]
        /\ UNCHANGED exceptions
    BY <1>4 DEF Goods!StampStatus
  <2>2. Goods!Verdict(review.row) \in {"pending", "open", "matched", "variance"}
    BY DEF Goods!Verdict
  <2>3. /\ accrual' \in Receivals /\ accrual'.status = Goods!Verdict(review.row)
        /\ accrual'.accrued = accrual.accrued /\ accrual'.cleared = accrual.cleared
    BY <2>1, <2>2 DEF GoodsInv, GoodsTypeOK, Receivals
  <2>4. Goods!MatchedIsSettled'
    BY <2>1, <2>3 DEF GoodsInv, StampIsTrue, Goods!MatchedIsSettled
  <2>5. GoodsTypeOK' /\ StampIsTrue'
    BY <1>1, <2>1, <2>3 DEF GoodsInv, GoodsTypeOK, StampIsTrue
  <2>6. Goods!ClearingTies'
    BY <1>1, <2>3 DEF GoodsInv, Goods!OrderSettles, Goods!ClearingTies, Goods!Residual
  <2>7. QED
    BY <2>4, <2>5, <2>6 DEF GoodsInv, Goods!OrderSettles
<1>5. QED
  BY <1>2, <1>3, <1>4

\* Resolving only takes exceptions away.
LEMMA ResolveTakes ==
  ASSUME NEW types, exceptions \in [Goods!Type -> {"none", "open", "resolved"}]
  PROVE  /\ Goods!Resolve(types) \in [Goods!Type -> {"none", "open", "resolved"}]
         /\ \A t \in Goods!Type : Goods!Resolve(types)[t] = "open" =>
              exceptions[t] = "open" /\ t \notin types
<1> HIDE DEF Goods!Type
<1>1. QED
  BY DEF Goods!Resolve

LEMMA VarianceKeeps ==
  ASSUME GoodsInv, NEW w \in Caller, NEW d, Goods!WriteOffVariance(w, d)
  PROVE  GoodsInv'
<1>1. /\ request[w].at = "book"
      /\ request' = [request EXCEPT ![w] = [at |-> "idle", residual |-> 0]]
      /\ UNCHANGED review
  BY DEF Goods!WriteOffVariance
<1>2. request' \in [Caller -> [at: {"idle", "book"}, residual: Int]]
  BY <1>1 DEF GoodsInv, GoodsTypeOK
<1>3. CASE UNCHANGED << account, accrual, exceptions, processed, stale >>
  BY <1>1, <1>2, <1>3 DEF GoodsInv, GoodsTypeOK, StampIsTrue, Goods!OrderSettles,
       Goods!ClearingTies, Goods!Residual, Goods!MatchedIsSettled
<1>4. CASE ~ UNCHANGED << account, accrual, exceptions, processed, stale >>
  <2> DEFINE matched == [accrual EXCEPT !.cleared = accrual.accrued, !.status = "matched"]
  <2>1. /\ account' = account - request[w].residual /\ accrual' = matched
        /\ exceptions' = Goods!Resolve(Goods!Type)
        /\ stale' = (stale \/ Goods!Residual # request[w].residual)
    BY <1>4 DEF Goods!WriteOffVariance
  <2>2. accrual \in Receivals /\ account \in Int /\ request[w].residual \in Int
    BY DEF GoodsInv, GoodsTypeOK
  <2>3. matched \in Receivals /\ matched.cleared = accrual.accrued /\ matched.accrued = accrual.accrued
    BY <2>2 DEF Receivals
  <2> HIDE DEF matched
  <2>4. /\ exceptions' \in [Goods!Type -> {"none", "open", "resolved"}]
        /\ \A t \in Goods!Type : exceptions'[t] # "open"
    BY <2>1, ResolveTakes DEF GoodsInv, GoodsTypeOK
  <2>5. StampIsTrue' /\ Goods!MatchedIsSettled'
    BY <2>4 DEF StampIsTrue, Goods!MatchedIsSettled
  <2>6. account' \in Int /\ stale' \in BOOLEAN
    BY <2>1, <2>2
  <2>7. GoodsTypeOK'
    BY <1>1, <1>2, <2>1, <2>3, <2>4, <2>6 DEF GoodsInv, GoodsTypeOK
  <2>8. Goods!ClearingTies'
    <3> SUFFICES ASSUME ~ stale' PROVE account' = accrual'.accrued - accrual'.cleared
      BY DEF Goods!ClearingTies, Goods!Residual
    <3>1. ~ stale /\ Goods!Residual = request[w].residual
      BY <2>1
    <3>2. account = request[w].residual
      BY <3>1 DEF GoodsInv, Goods!OrderSettles, Goods!ClearingTies
    <3>3. accrual.accrued \in Int
      BY <2>2 DEF Receivals
    <3>4. QED
      BY <2>1, <2>2, <2>3, <3>2, <3>3
  <2>9. QED
    BY <2>5, <2>7, <2>8 DEF GoodsInv, Goods!OrderSettles
<1>5. QED
  BY <1>3, <1>4

LEMMA GoodsKept ==
  ASSUME Goods!ValueAssumption, GoodsInv, [Goods!Next]_Goods!vars
  PROVE  GoodsInv'
<1>1. ASSUME NEW t \in Goods!Type, Goods!ResolveMatchException(t)
      PROVE  GoodsInv'
  <2>1. /\ exceptions' = [exceptions EXCEPT ![t] = "resolved"]
        /\ UNCHANGED << accrual, account, review, request, stale >>
    BY <1>1 DEF Goods!ResolveMatchException
  <2>2. /\ exceptions' \in [Goods!Type -> {"none", "open", "resolved"}]
        /\ \A u \in Goods!Type : exceptions'[u] = "open" => exceptions[u] = "open"
    <3> HIDE DEF Goods!Type
    <3>1. QED
      BY <2>1 DEF GoodsInv, GoodsTypeOK
  <2>3. QED
    BY <2>1, <2>2 DEF GoodsInv, GoodsTypeOK, StampIsTrue, Goods!OrderSettles,
       Goods!ClearingTies, Goods!Residual, Goods!MatchedIsSettled
<1>2. ASSUME NEW w \in Caller, Goods!ReadResidual(w)
      PROVE  GoodsInv'
  <2>1. /\ request' = [request EXCEPT ![w] = [at |-> "book", residual |-> Goods!Residual]]
        /\ UNCHANGED << accrual, account, exceptions, review, stale >>
    BY <1>2 DEF Goods!ReadResidual
  <2>2. Goods!Residual \in Int
    BY DEF GoodsInv, GoodsTypeOK, Receivals, Goods!Residual
  <2>3. request' \in [Caller -> [at: {"idle", "book"}, residual: Int]]
    BY <2>1, <2>2 DEF GoodsInv, GoodsTypeOK
  <2>4. QED
    BY <2>1, <2>3 DEF GoodsInv, GoodsTypeOK, StampIsTrue, Goods!OrderSettles,
       Goods!ClearingTies, Goods!Residual, Goods!MatchedIsSettled
<1>3. CASE UNCHANGED Goods!vars
  BY <1>3 DEF Goods!vars, GoodsInv, GoodsTypeOK, StampIsTrue, Goods!OrderSettles,
     Goods!ClearingTies, Goods!Residual, Goods!MatchedIsSettled
<1>4. QED
  BY <1>1, <1>2, <1>3, EventKeeps, ReviewKeeps, VarianceKeeps DEF Goods!Next

\* In whatever order receipts, invoices, reviews and write-offs come, the clearing
\* account holds what the order's row says is open, unless a residual was out of
\* date when it was booked, and an order marked matched leaves no exception open
\* (AddGRNIAccrualTx, DetectMatchExceptions, WriteOffGRNIVariance).
THEOREM OrderIsSound ==
  ASSUME Goods!ValueAssumption
  PROVE  Goods!Spec => []Goods!OrderSettles
<1>1. Goods!Init => GoodsInv
  BY GoodsInitially
<1>2. GoodsInv /\ [Goods!Next]_Goods!vars => GoodsInv'
  BY GoodsKept
<1>3. GoodsInv => Goods!OrderSettles
  BY DEF GoodsInv
<1>4. QED
  BY <1>1, <1>2, <1>3, PTL DEF Goods!Spec

-----------------------------------------------------------------------------
(* The loss allowance. *)

LossItems == [LossDoc -> [open: Nat, age: Credit!Age, closed: BOOLEAN]]
LossRuns == [LossPeriod -> [done: BOOLEAN, movement: Int]]
LossWriteOffs == [LossDoc -> [amount: Nat, covered: Int, recovered: Int]]
LossRequest ==
  [at: {"idle", "allowance", "provide", "writeoff"}, period: LossPeriod \cup {0},
   doc: LossDoc \cup {0}, target: Nat, read: Int, open: Nat]

AllowanceTypeOK ==
  /\ item \in LossItems /\ allowance \in Int /\ runs \in LossRuns
  /\ writeoffs \in LossWriteOffs
  /\ request \in [Caller -> LossRequest]
  /\ stale \in BOOLEAN

\* A request in flight is about a period, or a document, there is.
IsAbout(r) ==
  /\ request[r].at \in {"allowance", "provide"} => request[r].period \in LossPeriod
  /\ request[r].at = "writeoff" => request[r].doc \in LossDoc

\* A period with an entry has its row, one without has no movement, and nothing
\* covers a document that was not written off.
RunsInOrder ==
  \A p \in LossPeriod : IF << "ecl", p >> \in events THEN runs[p].done
                        ELSE runs[p].movement = 0
CoversInOrder ==
  \A d \in LossDoc : << "writeoff", d >> \notin events => writeoffs[d].covered = 0

AllowanceInv ==
  /\ AllowanceTypeOK
  /\ \A r \in Caller : IsAbout(r)
  /\ RunsInOrder /\ CoversInOrder
  /\ Credit!AllowanceTies

\* The instance adds up as the library does.
LEMMA CreditSum == ASSUME NEW f PROVE Credit!SumFunction(f) = SumFunction(f)
BY DEF SumFunction, SumFunctionOnSet, FoldFunctionOnSet, MapThenFoldSet,
       Credit!SumFunction, Credit!SumFunctionOnSet, Credit!FoldFunctionOnSet,
       Credit!MapThenFoldSet

MovementOf == [p \in LossPeriod |-> runs[p].movement]
CoverOf == [d \in LossDoc |-> writeoffs[d].covered]

LEMMA CreditSums ==
  ASSUME Credit!AllowanceAssumption, AllowanceTypeOK
  PROVE  /\ MovementOf \in [LossPeriod -> Int] /\ CoverOf \in [LossDoc -> Int]
         /\ IsFiniteSet(LossPeriod) /\ IsFiniteSet(LossDoc)
         /\ Credit!RunMovements = SumFunction(MovementOf)
         /\ Credit!Covers = SumFunction(CoverOf)
         /\ Credit!RunMovements \in Int /\ Credit!Covers \in Int
<1>1. MovementOf \in [LossPeriod -> Int] /\ CoverOf \in [LossDoc -> Int]
  BY DEF AllowanceTypeOK, MovementOf, CoverOf, LossRuns, LossWriteOffs
<1>2. IsFiniteSet(LossPeriod) /\ IsFiniteSet(LossDoc)
  BY DEF Credit!AllowanceAssumption, Credit!IsFiniteSet, IsFiniteSet
<1>3. Credit!RunMovements = SumFunction(MovementOf) /\ Credit!Covers = SumFunction(CoverOf)
  BY CreditSum DEF Credit!RunMovements, Credit!Covers, MovementOf, CoverOf
<1>4. SumFunction(MovementOf) \in Int /\ SumFunction(CoverOf) \in Int
  BY <1>1, <1>2, SumType
<1>5. QED
  BY <1>1, <1>2, <1>3, <1>4

\* The target is no negative amount.
LEMMA TargetIsNat ==
  ASSUME Credit!AllowanceAssumption, AllowanceTypeOK
  PROVE  Credit!Target \in Nat
<1> DEFINE f == [d \in LossDoc |-> IF item[d].closed THEN 0 ELSE Credit!Loss(d)]
<1>1. ASSUME NEW d \in LossDoc PROVE Credit!Loss(d) \in Nat
  <2>1. item[d].open \in Nat /\ item[d].age \in Credit!Age
    BY DEF AllowanceTypeOK, LossItems
  <2>2. LossPercent[item[d].age] \in Nat
    BY <2>1 DEF Credit!AllowanceAssumption
  <2> DEFINE n == item[d].open * LossPercent[item[d].age]
  <2>3. n \in Nat
    BY <2>1, <2>2
  <2> HIDE DEF n
  <2>4. n \div 100 \in Nat
    BY <2>3
  <2>5. QED
    BY <2>4 DEF Credit!Loss, n
<1>2. f \in [LossDoc -> Nat]
  BY <1>1
<1>3. IsFiniteSet(LossDoc)
  BY DEF Credit!AllowanceAssumption, Credit!IsFiniteSet, IsFiniteSet
<1>4. Credit!Target = SumFunction(f)
  BY CreditSum DEF Credit!Target
<1> HIDE DEF f
<1>5. QED
  BY <1>2, <1>3, <1>4, SumNat

LEMMA AllowanceInitially ==
  ASSUME Credit!AllowanceAssumption, Credit!Init
  PROVE  AllowanceInv
<1>1. item \in LossItems
  BY DEF Credit!Init, Credit!AllowanceAssumption, LossItems
<1>2. runs \in LossRuns /\ \A p \in LossPeriod : ~ runs[p].done /\ runs[p].movement = 0
  BY DEF Credit!Init, Credit!NotRun, LossRuns
<1>3. writeoffs \in LossWriteOffs /\ \A d \in LossDoc : writeoffs[d].covered = 0
  BY DEF Credit!Init, LossWriteOffs
<1>4. /\ request \in [Caller -> LossRequest]
      /\ \A r \in Caller : request[r].at = "idle"
  BY DEF Credit!Init, Credit!Idle, LossRequest
<1>5. allowance = 0 /\ events = {}
  BY DEF Credit!Init
<1>6. stale \in BOOLEAN
  BY DEF Credit!Init
<1>7. AllowanceTypeOK
  BY <1>1, <1>2, <1>3, <1>4, <1>5, <1>6 DEF AllowanceTypeOK
<1>8. SumFunction(MovementOf) = 0 /\ SumFunction(CoverOf) = 0
  <2>1. /\ MovementOf \in [LossPeriod -> Int] /\ CoverOf \in [LossDoc -> Int]
        /\ IsFiniteSet(LossPeriod) /\ IsFiniteSet(LossDoc)
    BY <1>7, CreditSums
  <2>2. /\ \A p \in LossPeriod : MovementOf[p] = 0
        /\ \A d \in LossDoc : CoverOf[d] = 0
    BY <1>2, <1>3 DEF MovementOf, CoverOf
  <2>3. QED
    BY <2>1, <2>2, SumZero
<1>9. Credit!AllowanceTies
  <2>1. Credit!RunMovements = 0 /\ Credit!Covers = 0
    BY <1>7, <1>8, CreditSums
  <2>2. QED
    BY <1>5, <2>1 DEF Credit!AllowanceTies, Credit!AllowanceNotOverdrawn,
                      Credit!RecordsTieToAllowance
<1>10. QED
  BY <1>2, <1>3, <1>4, <1>5, <1>7, <1>9
     DEF AllowanceInv, IsAbout, RunsInOrder, CoversInOrder

\* What is not in these five leaves the records and the account alone.
LEMMA RecordsStay ==
  ASSUME Credit!AllowanceAssumption, AllowanceInv,
         allowance' = allowance, runs' = runs, stale' = stale,
         events \subseteq events', \A p \in LossPeriod :
           << "ecl", p >> \in events' => << "ecl", p >> \in events,
         writeoffs' \in LossWriteOffs,
         \A d \in LossDoc : writeoffs'[d].covered = writeoffs[d].covered,
         item' \in LossItems, request' \in [Caller -> LossRequest],
         \A r \in Caller : IsAbout(r)'
  PROVE  AllowanceInv'
<1>1. AllowanceTypeOK /\ AllowanceTypeOK'
  BY DEF AllowanceInv, AllowanceTypeOK
<1>2. RunsInOrder' /\ CoversInOrder'
  BY DEF AllowanceInv, RunsInOrder, CoversInOrder
<1>3. MovementOf' = MovementOf /\ CoverOf' = CoverOf
  BY DEF MovementOf, CoverOf
<1>4. Credit!RunMovements' = Credit!RunMovements /\ Credit!Covers' = Credit!Covers
  <2>1. /\ Credit!RunMovements = SumFunction(MovementOf)
        /\ Credit!Covers = SumFunction(CoverOf)
    BY <1>1, CreditSums
  <2>2. /\ Credit!RunMovements' = SumFunction(MovementOf')
        /\ Credit!Covers' = SumFunction(CoverOf')
    BY CreditSum DEF Credit!RunMovements, Credit!Covers, MovementOf, CoverOf
  <2>3. QED
    BY <1>3, <2>1, <2>2
<1>5. Credit!RunIsRecorded' => Credit!RunIsRecorded
  BY DEF Credit!RunIsRecorded
<1>6. Credit!AllowanceTies'
  BY <1>4, <1>5 DEF AllowanceInv, Credit!AllowanceTies, Credit!AllowanceNotOverdrawn,
                    Credit!RecordsTieToAllowance
<1>7. QED
  BY <1>1, <1>2, <1>6 DEF AllowanceInv

LEMMA LossIdle ==
  ASSUME request \in [Caller -> LossRequest], NEW r \in Caller,
         request' = [request EXCEPT ![r] = Credit!Idle]
  PROVE  /\ request' \in [Caller -> LossRequest] /\ request'[r].at = "idle"
         /\ \A q \in Caller : q # r => request'[q] = request[q]
BY DEF Credit!Idle, LossRequest

\* Receivables change, requests read, a recovery is recorded, or one fails.
LEMMA LossReads ==
  ASSUME Credit!AllowanceAssumption, AllowanceInv, NEW r \in Caller,
         \/ Credit!ReadAllowance(r) \/ Credit!RequestFails(r)
         \/ \E p \in LossPeriod : Credit!ReadTarget(r, p)
         \/ \E d \in LossDoc : Credit!ReadWriteOff(r, d)
  PROVE  AllowanceInv'
<1>1. UNCHANGED << item, allowance, runs, writeoffs, events, stale >>
  BY DEF Credit!ReadAllowance, Credit!RequestFails, Credit!ReadTarget,
         Credit!ReadWriteOff
<1>2. /\ item \in LossItems /\ allowance \in Int /\ writeoffs \in LossWriteOffs
      /\ request \in [Caller -> LossRequest]
  BY DEF AllowanceInv, AllowanceTypeOK
<1>3. /\ request' \in [Caller -> LossRequest]
      /\ \A q \in Caller : q # r => request'[q] = request[q]
      /\ IsAbout(r)'
  <2>1. CASE Credit!RequestFails(r)
    BY <1>2, <2>1, LossIdle DEF Credit!RequestFails, IsAbout
  <2>2. CASE Credit!ReadAllowance(r)
    <3> DEFINE x == [request[r] EXCEPT !.at = "provide", !.read = allowance]
    <3>1. /\ request[r].at = "allowance" /\ request' = [request EXCEPT ![r] = x]
      BY <1>2, <2>2 DEF Credit!ReadAllowance
    <3>2. x \in LossRequest /\ x.at = "provide" /\ x.period = request[r].period
      BY <1>2 DEF LossRequest
    <3> HIDE DEF x
    <3>3. request[r].period \in LossPeriod
      BY <3>1 DEF AllowanceInv, IsAbout
    <3>4. QED
      BY <1>2, <3>1, <3>2, <3>3 DEF IsAbout
  <2>3. ASSUME NEW p \in LossPeriod, Credit!ReadTarget(r, p)
        PROVE  <1>3!1 /\ <1>3!2 /\ <1>3!3
    <3> DEFINE x == [at |-> "allowance", period |-> p, doc |-> 0,
                     target |-> Credit!Target, read |-> 0, open |-> 0]
    <3>1. request' = [request EXCEPT ![r] = x]
      BY <2>3 DEF Credit!ReadTarget, Credit!Idle
    <3>2. Credit!Target \in Nat
      BY TargetIsNat DEF AllowanceInv
    <3>3. x \in LossRequest /\ x.at = "allowance" /\ x.period = p
      BY <3>2 DEF LossRequest
    <3> HIDE DEF x
    <3>4. QED
      BY <1>2, <3>1, <3>3 DEF IsAbout
  <2>4. ASSUME NEW d \in LossDoc, Credit!ReadWriteOff(r, d)
        PROVE  <1>3!1 /\ <1>3!2 /\ <1>3!3
    <3> DEFINE x == [at |-> "writeoff", period |-> 0, doc |-> d, target |-> 0,
                     read |-> allowance, open |-> item[d].open]
    <3>1. request' = [request EXCEPT ![r] = x]
      BY <2>4 DEF Credit!ReadWriteOff, Credit!Idle
    <3>2. item[d].open \in Nat
      BY <1>2 DEF LossItems
    <3>3. x \in LossRequest /\ x.at = "writeoff" /\ x.doc = d
      BY <1>2, <3>2 DEF LossRequest
    <3> HIDE DEF x
    <3>4. QED
      BY <1>2, <3>1, <3>3 DEF IsAbout
  <2>5. QED
    BY <2>1, <2>2, <2>3, <2>4
<1>4. \A q \in Caller : IsAbout(q)'
  BY <1>3 DEF AllowanceInv, IsAbout
<1>5. QED
  BY <1>1, <1>2, <1>3, <1>4, RecordsStay

\* A booking that is not done again only ends the request.
LEMMA LossEnds ==
  ASSUME Credit!AllowanceAssumption, AllowanceInv, NEW r \in Caller,
         request' = [request EXCEPT ![r] = Credit!Idle],
         UNCHANGED << item, allowance, runs, writeoffs, events, stale >>
  PROVE  AllowanceInv'
<1>1. /\ item \in LossItems /\ writeoffs \in LossWriteOffs
      /\ request \in [Caller -> LossRequest]
  BY DEF AllowanceInv, AllowanceTypeOK
<1>2. request' \in [Caller -> LossRequest] /\ \A q \in Caller : IsAbout(q)'
  BY <1>1, LossIdle DEF AllowanceInv, IsAbout
<1>3. QED
  BY <1>1, <1>2, RecordsStay

LEMMA LossItemChanges ==
  ASSUME Credit!AllowanceAssumption, AllowanceInv, NEW d \in LossDoc,
         \/ Credit!GrowOld(d) \/ \E x \in Recovered : Credit!Pay(d, x)
  PROVE  AllowanceInv'
<1>1. /\ item \in LossItems /\ writeoffs \in LossWriteOffs
      /\ request \in [Caller -> LossRequest] /\ Recovered \subseteq Nat
  BY DEF AllowanceInv, AllowanceTypeOK, Credit!AllowanceAssumption
<1>2. UNCHANGED << allowance, runs, writeoffs, events, request, stale >>
  BY DEF Credit!GrowOld, Credit!Pay
<1>3. item' \in LossItems
  <2>1. CASE Credit!GrowOld(d)
    <3>1. item[d].age + 1 \in Credit!Age
      BY <2>1 DEF Credit!GrowOld
    <3>2. item' = [item EXCEPT ![d] = [item[d] EXCEPT !.age = item[d].age + 1]]
      BY <1>1, <2>1 DEF Credit!GrowOld
    <3>3. QED
      BY <1>1, <3>1, <3>2 DEF LossItems
  <2>2. ASSUME NEW x \in Recovered, Credit!Pay(d, x)
        PROVE  item' \in LossItems
    <3> DEFINE n == item[d].open - x
               b == (item[d].open = x)
               i == [item[d] EXCEPT !.open = n, !.closed = b]
    <3>0. item[d].open \in Nat /\ x \in Nat /\ x <= item[d].open
      BY <1>1, <2>2 DEF LossItems, Credit!Pay
    <3>1. n \in Nat
      BY <3>0
    <3>4. b \in BOOLEAN
      OBVIOUS
    <3>2. item' = [item EXCEPT ![d] = i]
      BY <1>1, <2>2 DEF Credit!Pay
    <3> HIDE DEF n, b
    <3>3. i \in [open: Nat, age: Credit!Age, closed: BOOLEAN]
      BY <1>1, <3>1, <3>4 DEF LossItems
    <3> HIDE DEF i
    <3>5. QED
      BY <1>1, <3>2, <3>3 DEF LossItems
  <2>3. QED
    BY <2>1, <2>2
<1>4. QED
  <2>1. \A q \in Caller : IsAbout(q)'
    BY <1>2 DEF AllowanceInv, IsAbout
  <2>2. QED
    BY <1>1, <1>2, <1>3, <2>1, RecordsStay

LEMMA LossRecovered ==
  ASSUME Credit!AllowanceAssumption, AllowanceInv, NEW d \in LossDoc,
         NEW ref \in RecoveryRef, NEW x \in Recovered, Credit!Recover(d, ref, x)
  PROVE  AllowanceInv'
<1>1. /\ item \in LossItems /\ writeoffs \in LossWriteOffs
      /\ request \in [Caller -> LossRequest] /\ x \in Nat
  BY DEF AllowanceInv, AllowanceTypeOK, Credit!AllowanceAssumption
<1>2. /\ UNCHANGED << item, allowance, runs, request, stale >>
      /\ events' = events \cup {<< "recovery", ref >>}
  BY DEF Credit!Recover
<1>3. /\ writeoffs' \in LossWriteOffs
      /\ \A e \in LossDoc : writeoffs'[e].covered = writeoffs[e].covered
  <2> DEFINE n == writeoffs[d].recovered + x
             w == [writeoffs[d] EXCEPT !.recovered = n]
  <2>1. n \in Int
    BY <1>1 DEF LossWriteOffs
  <2>2. writeoffs' = [writeoffs EXCEPT ![d] = w]
    BY <1>1 DEF Credit!Recover
  <2> HIDE DEF n
  <2>3. w \in [amount: Nat, covered: Int, recovered: Int]
        /\ w.covered = writeoffs[d].covered
    BY <1>1, <2>1 DEF LossWriteOffs
  <2> HIDE DEF w
  <2>4. QED
    BY <1>1, <2>2, <2>3 DEF LossWriteOffs
<1>4. \A p \in LossPeriod : << "ecl", p >> \in events' => << "ecl", p >> \in events
  BY <1>2
<1>5. \A q \in Caller : IsAbout(q)'
  BY <1>2 DEF AllowanceInv, IsAbout
<1>6. QED
  BY <1>1, <1>2, <1>3, <1>4, <1>5, RecordsStay

\* RunECLProvision books what brings the allowance to its target.
LEMMA LossProvides ==
  ASSUME Credit!AllowanceAssumption, AllowanceInv, NEW r \in Caller,
         Credit!Provide(r)
  PROVE  AllowanceInv'
<1> DEFINE p == request[r].period
           e == << "ecl", p >>
           m == Credit!Movement(r)
<1>1. /\ request' = [request EXCEPT ![r] = Credit!Idle]
      /\ UNCHANGED << item, writeoffs >>
  BY DEF Credit!Provide
<1>2. /\ request \in [Caller -> LossRequest] /\ p \in LossPeriod /\ m \in Int
      /\ runs \in LossRuns /\ allowance \in Int
      /\ request[r].target \in Nat /\ request[r].read \in Int
      /\ m = request[r].target - request[r].read
  <2>1. /\ request \in [Caller -> LossRequest] /\ runs \in LossRuns
        /\ allowance \in Int
    BY DEF AllowanceInv, AllowanceTypeOK
  <2>2. request[r].target \in Nat /\ request[r].read \in Int
    BY <2>1 DEF LossRequest
  <2>3. p \in LossPeriod
    BY DEF AllowanceInv, IsAbout, Credit!Provide
  <2>4. QED
    BY <2>1, <2>2, <2>3 DEF Credit!Movement
<1>3. request' \in [Caller -> LossRequest] /\ \A q \in Caller : IsAbout(q)'
  BY <1>1, <1>2, LossIdle DEF AllowanceInv, IsAbout
<1> HIDE DEF m
<1>4. CASE m = 0
  <2>1. runs' = Credit!Recorded(p, 0) /\ UNCHANGED << allowance, events, stale >>
    BY <1>4 DEF Credit!Provide, m
  <2>2. AllowanceTypeOK
    BY DEF AllowanceInv
  <2>3. runs' \in LossRuns /\ \A q \in LossPeriod : /\ runs[q].done => runs'[q].done
                                              /\ runs'[q].movement = runs[q].movement
    <3>1. CASE runs[p].done
      BY <1>2, <2>1, <3>1 DEF Credit!Recorded
    <3>2. CASE ~ runs[p].done
      <4>1. e \notin events /\ runs[p].movement = 0
        BY <1>2, <3>2 DEF AllowanceInv, RunsInOrder
      <4>2. runs' = [runs EXCEPT ![p] = [done |-> TRUE, movement |-> 0]]
        BY <2>1, <3>2 DEF Credit!Recorded
      <4> HIDE DEF p
      <4>3. QED
        BY <1>2, <4>1, <4>2 DEF LossRuns
    <3>3. QED
      BY <3>1, <3>2
  <2>4. AllowanceTypeOK'
    BY <1>1, <1>3, <2>1, <2>2, <2>3 DEF AllowanceTypeOK
  <2>5. MovementOf' = MovementOf /\ CoverOf' = CoverOf
    BY <1>1, <2>3 DEF MovementOf, CoverOf
  <2>6. /\ Credit!RunMovements' = Credit!RunMovements
        /\ Credit!Covers' = Credit!Covers
    BY <2>2, <2>5, CreditSum
       DEF Credit!RunMovements, Credit!Covers, MovementOf, CoverOf
  <2>7. Credit!RunIsRecorded' => Credit!RunIsRecorded
    BY <2>1, <2>3 DEF Credit!RunIsRecorded
  <2>8. Credit!AllowanceTies'
    BY <2>1, <2>6, <2>7 DEF AllowanceInv, Credit!AllowanceTies,
       Credit!AllowanceNotOverdrawn, Credit!RecordsTieToAllowance
  <2>9. RunsInOrder' /\ CoversInOrder'
    BY <1>1, <2>1, <2>3 DEF AllowanceInv, RunsInOrder, CoversInOrder
  <2>10. QED
    BY <1>3, <2>4, <2>8, <2>9 DEF AllowanceInv
<1>5. CASE m # 0 /\ e \in events
  <2>1. UNCHANGED << runs, allowance, events, stale >>
    BY <1>5 DEF Credit!Provide, Credit!Processed, m
  <2>2. QED
    BY <1>1, <2>1, LossEnds
<1>6. CASE m # 0 /\ e \notin events
  <2>1. /\ runs' = Credit!Recorded(p, m) /\ allowance' = allowance + m
        /\ events' = events \cup {e}
        /\ stale' = (stale \/ request[r].read # allowance)
    BY <1>6 DEF Credit!Provide, Credit!Processed, m
  <2>2. AllowanceTypeOK
    BY DEF AllowanceInv
  <2>3. runs[p].movement = 0
    BY <1>2, <1>6 DEF AllowanceInv, RunsInOrder
  <2> HIDE DEF p
  <2>4. /\ runs' \in LossRuns /\ runs'[p].done
        /\ \A q \in LossPeriod : q # p => runs'[q] = runs[q]
        /\ runs'[p].movement = IF runs[p].done THEN 0 ELSE m
    <3>1. CASE runs[p].done
      BY <1>2, <2>1, <2>3, <3>1 DEF Credit!Recorded
    <3>2. CASE ~ runs[p].done
      <4>1. runs' = [runs EXCEPT ![p] = [done |-> TRUE, movement |-> m]]
        BY <2>1, <3>2 DEF Credit!Recorded
      <4>2. QED
        BY <1>2, <3>2, <4>1 DEF LossRuns
    <3>3. QED
      BY <3>1, <3>2
  <2>5. stale' \in BOOLEAN
    BY <2>1
  <2>6. allowance' \in Int
    BY <1>2, <2>1
  <2>7. AllowanceTypeOK'
    BY <1>1, <1>3, <2>2, <2>4, <2>5, <2>6 DEF AllowanceTypeOK
  <2>8. \A q \in LossPeriod : q # p => (<< "ecl", q >> \in events'
                                        <=> << "ecl", q >> \in events)
    BY <2>1 DEF e
  <2>9. RunsInOrder'
    <3>1. << "ecl", p >> \in events'
      BY <2>1
    <3>2. QED
      BY <2>4, <2>8, <3>1 DEF AllowanceInv, RunsInOrder
  <2>10. CoversInOrder'
    BY <1>1, <2>1 DEF AllowanceInv, CoversInOrder
  <2>11. Credit!AllowanceNotOverdrawn'
    <3>1. CASE request[r].read = allowance
      <4>1. allowance' = request[r].target
        BY <1>2, <2>1, <3>1
      <4>2. QED
        BY <1>2, <4>1 DEF Credit!AllowanceNotOverdrawn
    <3>2. CASE request[r].read # allowance
      BY <2>1, <3>2 DEF Credit!AllowanceNotOverdrawn
    <3>3. QED
      BY <3>1, <3>2
  <2>12. Credit!RecordsTieToAllowance'
    <3> SUFFICES ASSUME Credit!RunIsRecorded'
                 PROVE  allowance' = Credit!RunMovements' - Credit!Covers'
      BY DEF Credit!RecordsTieToAllowance
    <3>1. runs'[p].movement # 0
      BY <1>2, <2>1 DEF Credit!RunIsRecorded
    <3>2. runs'[p].movement = m
      BY <2>4, <3>1
    <3>3. Credit!RunIsRecorded
      BY <1>6, <2>4, <2>8 DEF Credit!RunIsRecorded
    <3>4. allowance = Credit!RunMovements - Credit!Covers
      BY <3>3 DEF AllowanceInv, Credit!AllowanceTies, Credit!RecordsTieToAllowance
    <3>5. CoverOf' = CoverOf
      BY <1>1 DEF CoverOf
    <3>6. /\ MovementOf' \in [LossPeriod -> Int] /\ MovementOf \in [LossPeriod -> Int]
          /\ MovementOf[p] = 0 /\ MovementOf'[p] = m
          /\ \A q \in LossPeriod \ {p} : MovementOf'[q] = MovementOf[q]
      BY <1>2, <2>3, <2>4, <3>2 DEF MovementOf, LossRuns
    <3>7. /\ Credit!RunMovements = SumFunction(MovementOf)
          /\ Credit!RunMovements \in Int /\ Credit!Covers \in Int
          /\ IsFiniteSet(LossPeriod)
      BY <2>2, CreditSums
    <3>8. /\ Credit!RunMovements' = SumFunction(MovementOf')
          /\ Credit!Covers' = Credit!Covers
      BY <3>5, CreditSum DEF Credit!RunMovements, Credit!Covers, MovementOf, CoverOf
    <3>9. SumFunction(MovementOf') = SumFunction(MovementOf) - 0 + m
      <4> DEFINE a == MovementOf
                 b == MovementOf'
      <4>1. /\ b \in [LossPeriod -> Int] /\ a \in [LossPeriod -> Int]
            /\ a[p] = 0 /\ b[p] = m /\ \A q \in LossPeriod \ {p} : b[q] = a[q]
        BY <3>6
      <4> HIDE DEF a, b
      <4>2. SumFunction(b) = SumFunction(a) - a[p] + b[p]
        BY <1>2, <3>7, <4>1, SumChange
      <4>3. QED
        BY <4>1, <4>2 DEF a, b
    <3>10. QED
      BY <1>2, <2>1, <3>4, <3>7, <3>8, <3>9
  <2>13. QED
    BY <1>3, <2>7, <2>9, <2>10, <2>11, <2>12 DEF AllowanceInv, Credit!AllowanceTies
<1>7. QED
  BY <1>4, <1>5, <1>6

\* WriteOffReceivable takes what the allowance covers.
LEMMA LossCovered ==
  ASSUME NEW o \in Nat, NEW a \in Int
  PROVE  LET c == Credit!Lesser(o, Credit!AtLeastZero(a)) IN
         c \in Int /\ (a >= 0 => a - c >= 0)
BY DEF Credit!Lesser, Credit!AtLeastZero

LEMMA LossWrittenOff ==
  ASSUME Credit!AllowanceAssumption, AllowanceInv, NEW r \in Caller,
         Credit!WriteOff(r)
  PROVE  AllowanceInv'
<1> DEFINE d == request[r].doc
           e == << "writeoff", d >>
           c == Credit!Covered(r)
           o == request[r].open
<1>1. request' = [request EXCEPT ![r] = Credit!Idle] /\ runs' = runs
  BY DEF Credit!WriteOff
<1>2. /\ request \in [Caller -> LossRequest] /\ item \in LossItems
      /\ writeoffs \in LossWriteOffs /\ allowance \in Int
      /\ o \in Nat /\ request[r].read \in Int /\ d \in LossDoc
  <2>1. /\ request \in [Caller -> LossRequest] /\ item \in LossItems
        /\ writeoffs \in LossWriteOffs /\ allowance \in Int
    BY DEF AllowanceInv, AllowanceTypeOK
  <2>2. o \in Nat /\ request[r].read \in Int
    BY <2>1 DEF LossRequest
  <2>3. d \in LossDoc
    BY DEF AllowanceInv, IsAbout, Credit!WriteOff
  <2>4. QED
    BY <2>1, <2>2, <2>3
<1>3. request' \in [Caller -> LossRequest] /\ \A q \in Caller : IsAbout(q)'
  BY <1>1, <1>2, LossIdle DEF AllowanceInv, IsAbout
<1>4. c \in Int /\ (request[r].read >= 0 => request[r].read - c >= 0)
  BY <1>2, LossCovered DEF Credit!Covered
<1>5. CASE e \in events
  <2>1. UNCHANGED << item, allowance, writeoffs, events, stale >>
    BY <1>5 DEF Credit!WriteOff, Credit!Processed
  <2>2. QED
    BY <1>1, <2>1, LossEnds
<1>6. CASE e \notin events
  <2>1. /\ events' = events \cup {e} /\ allowance' = allowance - c
        /\ item' = [item EXCEPT ![d].closed = TRUE]
        /\ writeoffs' = [writeoffs EXCEPT ![d].amount = o, ![d].covered = c]
        /\ stale' = (stale \/ request[r].read # allowance)
    BY <1>6 DEF Credit!WriteOff, Credit!Processed
  <2>2. writeoffs[d].covered = 0
    BY <1>2, <1>6 DEF AllowanceInv, CoversInOrder
  <2>3. AllowanceTypeOK
    BY DEF AllowanceInv
  <2>4. item' \in LossItems
    <3> DEFINE i == [item[d] EXCEPT !.closed = TRUE]
    <3>1. item' = [item EXCEPT ![d] = i]
      BY <1>2, <2>1
    <3>2. i \in [open: Nat, age: Credit!Age, closed: BOOLEAN]
      BY <1>2 DEF LossItems
    <3> HIDE DEF i
    <3>3. QED
      BY <1>2, <3>1, <3>2 DEF LossItems
  <2> HIDE DEF c, o, d
  <2>5. /\ writeoffs' \in LossWriteOffs /\ writeoffs'[d].covered = c
        /\ \A q \in LossDoc : q # d => writeoffs'[q] = writeoffs[q]
    <3> DEFINE w == [writeoffs[d] EXCEPT !.amount = o, !.covered = c]
    <3>1. writeoffs' = [writeoffs EXCEPT ![d] = w]
      BY <1>2, <2>1 DEF LossWriteOffs
    <3>2. w \in [amount: Nat, covered: Int, recovered: Int] /\ w.covered = c
      BY <1>2, <1>4 DEF LossWriteOffs
    <3> HIDE DEF w
    <3>3. QED
      BY <1>2, <3>1, <3>2 DEF LossWriteOffs
  <2>6. stale' \in BOOLEAN
    BY <2>1
  <2>7. allowance' \in Int
    BY <1>2, <1>4, <2>1
  <2>8. AllowanceTypeOK'
    BY <1>1, <1>3, <2>3, <2>4, <2>5, <2>6, <2>7 DEF AllowanceTypeOK
  <2>9. \A p \in LossPeriod : << "ecl", p >> \in events' <=> << "ecl", p >> \in events
    BY <2>1 DEF e
  <2>10. RunsInOrder'
    BY <1>1, <2>9 DEF AllowanceInv, RunsInOrder
  <2>11. CoversInOrder'
    <3>1. << "writeoff", d >> \in events'
      BY <2>1 DEF e
    <3>2. \A q \in LossDoc : << "writeoff", q >> \in events
                            => << "writeoff", q >> \in events'
      BY <2>1
    <3>3. QED
      BY <2>5, <3>1, <3>2 DEF AllowanceInv, CoversInOrder
  <2>12. Credit!AllowanceNotOverdrawn'
    <3>1. CASE stale \/ request[r].read # allowance
      BY <2>1, <3>1 DEF Credit!AllowanceNotOverdrawn
    <3>2. CASE ~ stale /\ request[r].read = allowance
      <4>1. allowance >= 0
        BY <3>2 DEF AllowanceInv, Credit!AllowanceTies, Credit!AllowanceNotOverdrawn
      <4>2. allowance' >= 0
        BY <1>2, <1>4, <2>1, <3>2, <4>1
      <4>3. QED
        BY <4>2 DEF Credit!AllowanceNotOverdrawn
    <3>3. QED
      BY <3>1, <3>2
  <2>13. Credit!RecordsTieToAllowance'
    <3> SUFFICES ASSUME Credit!RunIsRecorded'
                 PROVE  allowance' = Credit!RunMovements' - Credit!Covers'
      BY DEF Credit!RecordsTieToAllowance
    <3>1. Credit!RunIsRecorded
      BY <1>1, <2>9 DEF Credit!RunIsRecorded
    <3>2. allowance = Credit!RunMovements - Credit!Covers
      BY <3>1 DEF AllowanceInv, Credit!AllowanceTies, Credit!RecordsTieToAllowance
    <3>3. MovementOf' = MovementOf
      BY <1>1 DEF MovementOf
    <3>4. /\ CoverOf' \in [LossDoc -> Int] /\ CoverOf \in [LossDoc -> Int]
          /\ CoverOf[d] = 0 /\ CoverOf'[d] = c
          /\ \A q \in LossDoc \ {d} : CoverOf'[q] = CoverOf[q]
      BY <1>2, <2>2, <2>5 DEF CoverOf, LossWriteOffs
    <3>5. /\ Credit!Covers = SumFunction(CoverOf)
          /\ Credit!RunMovements \in Int /\ Credit!Covers \in Int
          /\ IsFiniteSet(LossDoc)
      BY <2>3, CreditSums
    <3>6. /\ Credit!Covers' = SumFunction(CoverOf')
          /\ Credit!RunMovements' = Credit!RunMovements
      BY <3>3, CreditSum DEF Credit!RunMovements, Credit!Covers, MovementOf, CoverOf
    <3>7. SumFunction(CoverOf') = SumFunction(CoverOf) - 0 + c
      <4> DEFINE a == CoverOf
                 b == CoverOf'
      <4>1. /\ b \in [LossDoc -> Int] /\ a \in [LossDoc -> Int]
            /\ a[d] = 0 /\ b[d] = c /\ \A q \in LossDoc \ {d} : b[q] = a[q]
        BY <3>4
      <4> HIDE DEF a, b
      <4>2. SumFunction(b) = SumFunction(a) - a[d] + b[d]
        BY <1>2, <3>5, <4>1, SumChange
      <4>3. QED
        BY <4>1, <4>2 DEF a, b
    <3>8. QED
      BY <1>2, <1>4, <2>1, <3>2, <3>5, <3>6, <3>7
  <2>14. QED
    BY <1>3, <2>8, <2>10, <2>11, <2>12, <2>13 DEF AllowanceInv, Credit!AllowanceTies
<1>7. QED
  BY <1>5, <1>6

LEMMA AllowanceKept ==
  ASSUME Credit!AllowanceAssumption, AllowanceInv, [Credit!Next]_Credit!vars
  PROVE  AllowanceInv'
<1>1. ASSUME NEW d \in LossDoc,
             \/ Credit!GrowOld(d) \/ \E x \in Recovered : Credit!Pay(d, x)
      PROVE  AllowanceInv'
  BY <1>1, LossItemChanges
<1>2. ASSUME NEW d \in LossDoc, NEW x \in Recovered, NEW ref \in RecoveryRef,
             Credit!Recover(d, ref, x)
      PROVE  AllowanceInv'
  BY <1>2, LossRecovered
<1>3. ASSUME NEW r \in Caller,
             \/ Credit!ReadAllowance(r) \/ Credit!RequestFails(r)
             \/ \E p \in LossPeriod : Credit!ReadTarget(r, p)
             \/ \E d \in LossDoc : Credit!ReadWriteOff(r, d)
      PROVE  AllowanceInv'
  BY <1>3, LossReads
<1>4. ASSUME NEW r \in Caller, Credit!Provide(r)
      PROVE  AllowanceInv'
  BY <1>4, LossProvides
<1>5. ASSUME NEW r \in Caller, Credit!WriteOff(r)
      PROVE  AllowanceInv'
  BY <1>5, LossWrittenOff
<1>6. CASE UNCHANGED Credit!vars
  <2>1. UNCHANGED << item, allowance, runs, writeoffs, events, request, stale >>
    BY <1>6 DEF Credit!vars
  <2>2. item' \in LossItems /\ writeoffs' \in LossWriteOffs
        /\ request' \in [Caller -> LossRequest] /\ \A q \in Caller : IsAbout(q)'
    BY <2>1 DEF AllowanceInv, AllowanceTypeOK, IsAbout
  <2>3. QED
    BY <2>1, <2>2, RecordsStay
<1>7. QED
  BY <1>1, <1>2, <1>3, <1>4, <1>5, <1>6 DEF Credit!Next

\* The allowance is what the recorded runs put on it less what the recorded
\* write-offs took, and it is not overdrawn (RunECLProvision,
\* WriteOffReceivable).
THEOREM AllowanceIsSound ==
  ASSUME Credit!AllowanceAssumption
  PROVE  Credit!Spec => []Credit!AllowanceTies
<1>1. Credit!Init => AllowanceInv
  BY AllowanceInitially
<1>2. AllowanceInv /\ [Credit!Next]_Credit!vars => AllowanceInv'
  BY AllowanceKept
<1>3. AllowanceInv => Credit!AllowanceTies
  BY DEF AllowanceInv
<1>4. QED
  BY <1>1, <1>2, <1>3, PTL DEF Credit!Spec
=============================================================================
