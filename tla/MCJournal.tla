----------------------------- MODULE MCJournal -----------------------------
(* A small instance of Journal: model values for the ids, numbers for months. *)
EXTENDS Journal, TLC

CONSTANT ev1

MCOccurred == [v \in Event |-> IF v = ev1 THEN 1 ELSE 2]

\* Entry ids are interchangeable; nothing here chooses between them.
IdSymmetry == Permutations(Entry) \cup Permutations(Worker)
                \cup Permutations(Caller)
=============================================================================
