----------------------------- MODULE LegacyStore -----------------------------
(***************************************************************************)
(* The store of the legacy backend (backend/internal/models/store.go,      *)
(* store_crud.go, store_auth.go): everything is in memory under one lock   *)
(* and is saved as one snapshot.  Invoices are saved under the lock; the   *)
(* session, the settings and the audit list are saved after it, from a     *)
(* snapshot that shares the invoices' array with the memory, and an        *)
(* invoice is changed and removed in that array.  A process that starts    *)
(* again goes on from the snapshot.                                        *)
(***************************************************************************)
EXTENDS Naturals, Sequences, SequencesExt

CONSTANTS
  Writer,     \* requests that save after the lock
  MaxNumber,  \* bound: the last invoice number
  MaxAudit    \* bound: audit entries

VARIABLES
  memory,   \* the invoices, their next number, the number of audit entries
  saved,    \* the snapshot in the repository
  request,  \* each writer's step and its snapshot
  given,    \* ghost: the numbers given to invoices while nothing is lost
  reused,   \* ghost: one was given twice
  behind,   \* ghost: the last save failed or was of an older state, or the
            \* snapshot could not be read
  lost      \* ghost: a start, or a reset, found another state than memory had

vars == << memory, saved, request, given, reused, behind, lost >>

Invoice(n, open) == [no |-> n, open |-> open]

NewPersistedState ==
  [rows |-> << Invoice(1, TRUE) >>, next |-> 2, audit |-> 0]

Idle == [at |-> "idle", of |-> NewPersistedState, shared |-> FALSE, read |-> 0,
         old |-> FALSE]

Init ==
  /\ memory = NewPersistedState /\ saved = NewPersistedState
  /\ request = [w \in Writer |-> Idle]
  /\ given = {1} /\ reused = FALSE
  /\ behind = FALSE /\ lost = FALSE

-----------------------------------------------------------------------------
(* Invoices: changed and saved under the lock; the error of a save is        *)
(* dropped.                                                                  *)

Persist(state) ==
  \/ saved' = state /\ behind' = FALSE
  \/ saved' = saved /\ behind' = TRUE

\* What a change does to the snapshots taken before it: of those that share the
\* array, the rows that were not read yet change with it.
Older(cells) ==
  [w \in Writer |->
     LET r == request[w] IN
     IF r.at # "marshal" THEN r
     ELSE IF ~ r.shared THEN [r EXCEPT !.old = TRUE]
     ELSE [r EXCEPT !.old = TRUE,
                    !.of.rows = [j \in DOMAIN @ |-> IF j <= r.read THEN @[j]
                                                    ELSE cells[w][j]]]]

Same == [w \in Writer |-> request[w].of.rows]
Apart(requests) ==
  [w \in Writer |-> [requests[w] EXCEPT !.shared = FALSE, !.read = 0]]

\* Variant: the snapshot is saved before the number is counted up.
NumberSavedEarly(state) == [state EXCEPT !.next = memory.next]

Numbered(state) == state

\* The invoice is put before the others, in an array of its own.
CreateInvoice ==
  LET n == memory.next
      state == [memory EXCEPT !.rows = << Invoice(n, TRUE) >> \o @, !.next = n + 1] IN
  /\ n <= MaxNumber
  /\ memory' = state
  /\ given' = IF lost THEN {} ELSE given \cup {n}
  /\ reused' = (reused \/ n \in given)
  /\ request' = Apart(Older(Same))
  /\ Persist(Numbered(state))
  /\ UNCHANGED lost

\* In the row's own cell, here its settlement.
PatchInvoice(i) ==
  LET Patched(cells) == [cells EXCEPT ![i].open = FALSE]
      state == [memory EXCEPT !.rows = Patched(@)] IN
  /\ memory' = state
  /\ request' = Older([w \in Writer |-> Patched(request[w].of.rows)])
  /\ Persist(state)
  /\ UNCHANGED << given, reused, lost >>

\* The rows after it move up; the last cell keeps what it had, and a snapshot
\* taken before still has it.
DeleteInvoice(i) ==
  LET n == Len(memory.rows)
      Moved(cells) == [j \in DOMAIN cells |->
                         IF i <= j /\ j < n THEN cells[j + 1] ELSE cells[j]]
      state == [memory EXCEPT !.rows = SubSeq(Moved(@), 1, n - 1)] IN
  /\ memory' = state
  /\ request' = Older([w \in Writer |-> Moved(request[w].of.rows)])
  /\ Persist(state)
  /\ UNCHANGED << given, reused, lost >>

-----------------------------------------------------------------------------
(* The rest: changed under the lock, saved after it (afterMutation).          *)

\* appendAudit, AppendAuditEntry, and as well PatchSession, Logout and
\* PatchSettings.
Mutate(w) ==
  /\ request[w] = Idle /\ memory.audit < MaxAudit
  /\ memory' = [memory EXCEPT !.audit = @ + 1]
  /\ request' = [Older(Same) EXCEPT ![w].at = "snapshot"]
  /\ UNCHANGED << saved, given, reused, behind, lost >>

\* ResetDemo.  Bound: only while nothing is lost.
Reset(w) ==
  /\ request[w] = Idle /\ ~ lost
  /\ memory' = NewPersistedState /\ lost' = TRUE
  /\ request' = [Apart(Older(Same)) EXCEPT ![w].at = "snapshot"]
  /\ given' = {} /\ reused' = FALSE
  /\ UNCHANGED << saved, behind >>

Snapshot(w) ==
  /\ request[w].at = "snapshot"
  /\ request' = [request EXCEPT ![w] =
       [Idle EXCEPT !.at = "marshal", !.of = memory, !.shared = TRUE]]
  /\ UNCHANGED << memory, saved, given, reused, behind, lost >>

\* The rows are read one after the other, without the lock; once the memory has
\* another array it does not matter when.
Marshal(w) ==
  LET r == request[w] IN
  /\ r.at = "marshal" /\ r.shared /\ r.read < Len(r.of.rows)
  /\ request' = [request EXCEPT ![w].read = @ + 1]
  /\ UNCHANGED << memory, saved, given, reused, behind, lost >>

SaveState(w) ==
  LET r == request[w] IN
  /\ r.at = "marshal" /\ (r.shared => r.read = Len(r.of.rows))
  /\ \/ saved' = r.of /\ behind' = r.old
     \/ saved' = saved /\ behind' = TRUE
  /\ request' = [request EXCEPT ![w] = Idle]
  /\ UNCHANGED << memory, given, reused, lost >>

-----------------------------------------------------------------------------
\* Variant: the next number is not among what is restored.
RestoredFromSeed(state) == [state EXCEPT !.next = NewPersistedState.next]

Restored(state) == state

\* NewStore after a crash or a stop: with the snapshot, or, when it cannot be
\* read twice, with the seed.
Restart(read) ==
  LET state == IF read THEN Restored(saved) ELSE NewPersistedState IN
  /\ memory' = state
  /\ lost' = (lost \/ (IF read THEN saved ELSE state) # memory)
  /\ behind' = ~ read
  /\ request' = [w \in Writer |-> Idle]
  /\ given' = (IF lost' THEN {} ELSE given)
  /\ reused' = (~ lost' /\ reused)
  /\ UNCHANGED saved

Next ==
  \/ CreateInvoice
  \/ \E i \in DOMAIN memory.rows :
       DeleteInvoice(i) \/ PatchInvoice(i)
  \/ \E w \in Writer : Mutate(w) \/ Reset(w) \/ Snapshot(w) \/ Marshal(w) \/ SaveState(w)
  \/ \E read \in BOOLEAN : Restart(read)

Spec == Init /\ [][Next]_vars

-----------------------------------------------------------------------------
(* Properties. *)

Numbers(rows) == { rows[i].no : i \in DOMAIN rows }

\* A number is given to one invoice, and one row has it, until a start or a reset
\* goes back behind what was given (CreateInvoice, store_crud.go:79-80): however
\* late a snapshot is stored and whatever it had become by then.
NumberedOnce ==
  ~ lost => /\ ~ reused
            /\ IsInjective([i \in DOMAIN memory.rows |-> memory.rows[i].no])
            /\ \A n \in Numbers(memory.rows) : n < memory.next

\* With nothing in flight a start would find what memory has, unless the last
\* save failed, or was of an older state than the one before it
\* (persistUnlocked and afterMutation, whose order of saving is no order of
\* changes).
SavedIsCurrent ==
  (~ behind /\ \A w \in Writer : request[w] = Idle) => saved = memory

SnapshotKeeps == NumberedOnce /\ SavedIsCurrent
=============================================================================
