-------------------------- MODULE SchemaMigrations --------------------------
(***************************************************************************)
(* Bringing the schema up to date at startup (db/db.go RunMigrations,      *)
(* cmd/server/main.go): every replica walks the files of its own image in  *)
(* name order, looks whether a file is recorded and otherwise runs it and  *)
(* records it in one transaction.  Replicas of different images start side *)
(* by side and take no lock; a replica that fails exits and is started     *)
(* again.  Some files replace what an earlier one defined, as 077 takes    *)
(* back what 069 had made of the balance check of 028, so their order is   *)
(* part of the result.                                                     *)
(***************************************************************************)
EXTENDS Naturals, Sequences, SequencesExt

CONSTANTS
  Replica,
  Image,   \* the last file of each image; files are 1 .. that, in name order
  MaxDeaths  \* bound: replicas that stopped before or while they served

ImageAssumption == Image \subseteq Nat \ {0}

VARIABLES
  ran,       \* the bodies that committed, in that order
  recorded,  \* finance_schema_migrations
  replica,   \* each replica's image, step and file
  deaths

vars == << ran, recorded, replica, deaths >>

Down == [at |-> "down", last |-> 0, file |-> 1, auto |-> FALSE]

Init ==
  /\ ran = << >> /\ recorded = {}
  /\ replica = [r \in Replica |-> Down]
  /\ deaths = 0

-----------------------------------------------------------------------------
\* A process of an image starts, with or without AUTO_MIGRATE.
Start(r, last, auto) ==
  /\ replica[r].at = "down"
  /\ replica' = [replica EXCEPT ![r] =
       [at |-> IF auto THEN "look" ELSE "serve", last |-> last, file |-> 1,
        auto |-> auto]]
  /\ UNCHANGED << ran, recorded, deaths >>

\* Past the last file the service goes on to serve.
Following(step) ==
  IF step.file = step.last THEN [step EXCEPT !.at = "serve"]
  ELSE [at |-> "look", last |-> step.last, file |-> step.file + 1,
        auto |-> step.auto]

\* A recorded file is skipped, whatever it contains by now.
Look(r) ==
  /\ replica[r].at = "look"
  /\ replica' = [replica EXCEPT ![r] =
       IF @.file \in recorded THEN Following(@) ELSE [@ EXCEPT !.at = "run"]]
  /\ UNCHANGED << ran, recorded, deaths >>

\* Variant: the version is not a key.
RunsAgain(file) == TRUE

\* The version is the primary key: a file another replica recorded since rolls
\* the body back with it.
Runs(file) == file \notin recorded

Dies(r) ==
  /\ deaths < MaxDeaths
  /\ deaths' = deaths + 1
  /\ replica' = [replica EXCEPT ![r] = Down]

\* Variant: the failure of one file does not end the walk.
DiesNot(r) ==
  /\ replica' = [replica EXCEPT ![r] = Following(@)]
  /\ UNCHANGED deaths

\* log.Fatal, from the error of any statement.
Fatal(r) == Dies(r)

Run(r) ==
  /\ replica[r].at = "run"
  /\ LET file == replica[r].file IN
     IF Runs(file)
     THEN /\ ran' = Append(ran, file) /\ recorded' = recorded \cup {file}
          /\ replica' = [replica EXCEPT ![r] = Following(@)]
          /\ UNCHANGED deaths
     ELSE Fatal(r) /\ UNCHANGED << ran, recorded >>

RunFails(r) ==
  /\ replica[r].at = "run" /\ Fatal(r)
  /\ UNCHANGED << ran, recorded >>

\* The process is stopped, for the next image or by a crash.
Stop(r) ==
  /\ replica[r].at # "down" /\ Dies(r)
  /\ UNCHANGED << ran, recorded >>

Next ==
  \E r \in Replica :
    \/ \E last \in Image, auto \in BOOLEAN : Start(r, last, auto)
    \/ Look(r) \/ Run(r) \/ RunFails(r) \/ Stop(r)

Spec == Init /\ [][Next]_vars

-----------------------------------------------------------------------------
(* Properties. *)

\* What the readiness probe says of a replica (PendingMigrations).
Pending(r) == (1 .. replica[r].last) \ recorded

\* However replicas of several images overlap, fail and start again, the files
\* that took effect are the first ones, each once and in name order, and they
\* are the recorded ones: the schema is the one a single replica would have
\* made (RunMigrations, db.go:107-146).
RanInOrder ==
  /\ ran = [i \in 1 .. Len(ran) |-> i]
  /\ recorded = ToSet(ran)

\* A replica that migrated and serves has no migration pending, and keeps it
\* so; without AUTO_MIGRATE it serves what there is and the probe names the
\* rest (handlers.go:56-60).
ServesCurrent ==
  \A r \in Replica :
    replica[r].at = "serve" /\ replica[r].auto => Pending(r) = {}

SchemaInOrder == RanInOrder /\ ServesCurrent
=============================================================================
