------------------------- MODULE NumberedRegisters -------------------------
(***************************************************************************)
(* The small registers that record a document and, in the same             *)
(* transaction, post it: withholding-tax certificates, late fees and       *)
(* intangible assets; conversions and billable time only record.  One      *)
(* without a reference takes the next number: the highest of the committed *)
(* rows under the prefix plus one, which two callers may both draw.        *)
(***************************************************************************)
EXTENDS Integers, FiniteSetsExt, Functions

CONSTANTS
  Caller, Amount,
  Typed,      \* references a caller may give
  MaxNumber   \* bound: the highest number drawn

VARIABLES
  register,  \* which of the five
  rows,      \* amounts recorded and posted, by reference
  balance,   \* what its entries put on the account: 1100, or 1700
  closed,    \* the month of the documents is closed
  call,      \* calls in flight
  unchecked, \* ghost: posted into a month that was closed before the call
  taken      \* ghost: numbers drawn, and refused though nobody took them since

vars == << register, rows, balance, closed, call, unchecked, taken >>

\* A reference: digits under the prefix, padded as the numbering writes them or
\* not, or words under it, or anything else.
Digits == {"padded", "short"}
Ref == {"padded", "short", "words", "other"} \X (0 .. MaxNumber)
AmountAssumption ==
  Amount \subseteq Nat \ {0} /\ Typed \subseteq Ref /\ MaxNumber \in Nat

Unused == [amount |-> 0, posts |-> FALSE]
Asked(at, ref, amount, posts) ==
  [at |-> at, ref |-> ref, amount |-> amount, posts |-> posts,
   drawn |-> FALSE, shut |-> FALSE, lost |-> FALSE]
Idle == Asked("idle", << "other", 0 >>, 0, FALSE)

Recorded == { r \in Ref : rows[r] # Unused }
Malformed == \E r \in Recorded : r[1] = "words"

Init ==
  /\ register \in {"wht", "fee", "intangible", "fx", "time"}
  /\ rows = [r \in Ref |-> Unused]
  /\ balance = 0 /\ closed = FALSE
  /\ call = [c \in Caller |-> Idle]
  /\ unchecked = {} /\ taken = {}

\* ClosePeriod and reopen.
CloseOrReopen ==
  /\ closed' = ~closed
  /\ call' = [c \in Caller |->
                IF call[c].at = "idle" THEN Idle
                ELSE [call[c] EXCEPT !.shut = closed']]
  /\ UNCHANGED << register, rows, balance, unchecked, taken >>

\* An intangible asset is capitalized unless it is recordOnly.
Posting ==
  CASE register \in {"wht", "fee"} -> {TRUE}
    [] register = "intangible" -> BOOLEAN
    [] OTHER -> {FALSE}

\* Variant: the month is not looked at.
AdmittedAnyMonth(c, posts) == call[c].at = "idle" /\ posts \in Posting

\* The month is read before the transaction, and only if something is posted.
Admitted(c, posts) ==
  call[c].at = "idle" /\ posts \in Posting /\ (posts => ~closed)

\* The caller gives the reference; an intangible asset needs one.
AskWith(c, ref, amount, posts) ==
  /\ Admitted(c, posts)
  /\ call' = [call EXCEPT ![c] = Asked("insert", ref, amount, posts)]
  /\ UNCHANGED << register, rows, balance, closed, unchecked, taken >>

AskWithout(c, amount, posts) ==
  /\ register # "intangible"
  /\ Admitted(c, posts)
  /\ call' = [call EXCEPT ![c] = Asked("number", Idle.ref, amount, posts)]
  /\ UNCHANGED << register, rows, balance, closed, unchecked, taken >>

\* Variant: the number of rows, plus one.
NextNumberByCount == 1 + Cardinality({ r \in Recorded : r[1] \in Digits })

\* MAX(CAST(SUBSTRING(ref))): over the committed rows.  One that is not a number
\* fails the query, which is not looked at, and the number is 1.
NextNumber ==
  1 + IF Malformed THEN 0
      ELSE Max({0} \cup { r[2] : r \in { q \in Recorded : q[1] \in Digits } })

Draw(c) ==
  /\ call[c].at = "number" /\ NextNumber <= MaxNumber
  /\ ~(call[c].posts /\ Malformed)
  /\ call' = [call EXCEPT ![c] =
                [at |-> "insert", ref |-> << "padded", NextNumber >>,
                 amount |-> call[c].amount, posts |-> call[c].posts,
                 drawn |-> TRUE, shut |-> call[c].shut, lost |-> call[c].lost]]
  /\ UNCHANGED << register, rows, balance, closed, unchecked, taken >>

\* Inside a transaction the failed query takes the insert with it; or the
\* database fails, the caller hangs up, the process dies: nothing is kept.
Fail(c) ==
  /\ call[c].at # "idle"
  /\ call' = [call EXCEPT ![c] = Idle]
  /\ UNCHANGED << register, rows, balance, closed, unchecked, taken >>

\* A row that another transaction has inserted and not committed: wait for it.
Held(c) ==
  \E d \in Caller \ {c} : call[d].at = "commit" /\ call[d].ref = call[c].ref

\* Variant: the reference is not unique; the later document replaces the first.
RefusesNever(c) == FALSE

\* The unique index on the reference.
Refuses(c) == call[c].ref \in Recorded

Insert(c) ==
  /\ call[c].at = "insert" /\ call[c].posts /\ ~Held(c) /\ ~Refuses(c)
  /\ call' = [call EXCEPT ![c].at = "commit"]
  /\ UNCHANGED << register, rows, balance, closed, unchecked, taken >>

Conflict(c) ==
  /\ call[c].at = "insert" /\ ~Held(c) /\ Refuses(c)
  /\ taken' = IF call[c].drawn /\ ~call[c].lost
              THEN taken \cup {call[c].ref} ELSE taken
  /\ call' = [call EXCEPT ![c] = Idle]
  /\ UNCHANGED << register, rows, balance, closed, unchecked >>

\* Row and entry, or the row alone; whoever drew the same number has lost it.
Side == IF register = "wht" THEN -1 ELSE 1
Commit(c) ==
  LET ref == call[c].ref IN
  /\ \/ call[c].at = "commit"
     \/ call[c].at = "insert" /\ ~call[c].posts /\ ~Held(c) /\ ~Refuses(c)
  /\ rows' = [rows EXCEPT ![ref] = [amount |-> call[c].amount,
                                    posts |-> call[c].posts]]
  /\ balance' = balance + IF call[c].posts THEN Side * call[c].amount ELSE 0
  /\ unchecked' = IF call[c].posts /\ closed /\ ~call[c].shut
                  THEN unchecked \cup {ref} ELSE unchecked
  /\ call' = [d \in Caller |->
                IF d = c THEN Idle
                ELSE IF call[d].at = "insert" /\ call[d].ref = ref
                THEN [call[d] EXCEPT !.lost = TRUE] ELSE call[d]]
  /\ UNCHANGED << register, closed, taken >>

Next ==
  \/ CloseOrReopen
  \/ \E c \in Caller :
       \/ \E amount \in Amount, posts \in BOOLEAN :
            \/ AskWithout(c, amount, posts)
            \/ \E ref \in Typed : AskWith(c, ref, amount, posts)
       \/ Draw(c) \/ Fail(c) \/ Insert(c) \/ Conflict(c) \/ Commit(c)

Spec == Init /\ [][Next]_vars

-----------------------------------------------------------------------------
(* Properties. *)

\* The account carries exactly the posted documents, each once, whatever failed
\* between row and entry; none is in a month that was closed when its call
\* looked (ledger/withholding_tax.go:10, "refusing a closed period").
PostedWithRow ==
  /\ balance = SumFunction(
       [r \in Ref |-> IF rows[r].posts THEN Side * rows[r].amount ELSE 0])
  /\ unchecked = {}

\* The number drawn was free: it is refused only if another call took it since.
\* A conversion or a time entry draws 1 again once a reference has words under
\* the prefix; a certificate or a fee is then refused until it is given one.
NumbersAreFree ==
  taken # {} => Malformed /\ register \in {"fx", "time"}

\* Registers and books agree (CreateWHTReceipt, CreateLateFee and the others).
RegistersTie == PostedWithRow /\ NumbersAreFree
=============================================================================
