---------------------------- MODULE PartyMaster ----------------------------
(***************************************************************************)
(* The vendor master and the parties of payables (repository/parties.go,   *)
(* repository/party_sync.go, consumer/vendorsync.go,                       *)
(* consumer/supplychain.go).  Procurement and the supply chain tell of     *)
(* vendors under a shared party id and a code of their own choice; each    *)
(* has its consumer, deliveries repeat and are not ordered across the two, *)
(* and a vendor is updated by one statement and inserted by another.       *)
(***************************************************************************)
EXTENDS Naturals, FiniteSets

CONSTANTS
  Party,     \* shared ids, minted here or elsewhere
  Nobody,    \* the party of a row from before the shared ids
  Code,      \* natural keys: a vendor's code, or what a payable names
  Purchase,  \* coffee purchases of the supply chain
  RefOf,     \* the supplier each names
  Worker     \* handlers of vendor events in flight

VARIABLES
  vendor,    \* by code: whether there is a row, its party, active
  claimed,   \* the parties each code was claimed for by an event or a request
  heard,     \* parties a vendor event of which was handled to its end
  payable,   \* by purchase: the AP item, its party, invoice.posted enqueued
  told,      \* parties announced in party.vendor.upserted
  request    \* each handler's step and what its event says

vars == << vendor, claimed, heard, payable, told, request >>

NoRow == [there |-> FALSE, party |-> Nobody, active |-> FALSE]
Row(p, a) == [there |-> TRUE, party |-> p, active |-> a]
NoItem == [there |-> FALSE, party |-> Nobody, announced |-> 0]
Idle == [at |-> "idle", party |-> Nobody, code |-> Nobody, active |-> FALSE]

Init ==
  /\ vendor \in [Code -> {NoRow, Row(Nobody, TRUE)}]
  /\ claimed = [c \in Code |-> {}]
  /\ heard = {} /\ told = {}
  /\ payable = [i \in Purchase |-> NoItem]
  /\ request = [w \in Worker |-> Idle]

-----------------------------------------------------------------------------
(* CreateVendor. *)

RowsOf(p) == { c \in Code : vendor[c].there /\ vendor[c].party = p }

\* A party id of its own, and the announcement in the same transaction.
CreateVendor(p, c) ==
  /\ \A d \in Code : p \notin claimed[d]
  /\ ~ vendor[c].there
  /\ vendor' = [vendor EXCEPT ![c] = Row(p, TRUE)]
  /\ claimed' = [claimed EXCEPT ![c] = @ \cup {p}]
  /\ told' = told \cup {p}
  /\ UNCHANGED << heard, payable, request >>

-----------------------------------------------------------------------------
(* The vendor events of the other services. *)

\* party.vendor.upserted, unless it is finance's own.
ReceiveUpserted(w, p, c, active) ==
  /\ request[w] = Idle
  /\ request' = [request EXCEPT ![w] =
       [at |-> "update", party |-> p, code |-> c, active |-> active]]
  /\ claimed' = [claimed EXCEPT ![c] = @ \cup {p}]
  /\ UNCHANGED << vendor, heard, payable, told >>

\* Variant: every payable without a party is taken for the supplier's.
NamesAnyone(i, c) == TRUE

Names(i, c) == RefOf[i] = c

\* The payables of that name that have no party get it; only those there are.
SyncAPPartyFromSCM(p, c) ==
  [i \in Purchase |->
     IF payable[i].there /\ payable[i].party = Nobody /\ Names(i, c)
     THEN [payable[i] EXCEPT !.party = p] ELSE payable[i]]

\* scm.party.created and updated: the payables first, and for a vendor its
\* row, always as an active one.
SyncAPParty(w, p, c, isVendor) ==
  /\ request[w] = Idle
  /\ payable' = SyncAPPartyFromSCM(p, c)
  /\ claimed' = [claimed EXCEPT ![c] = @ \cup {p}]
  /\ request' = IF isVendor
                THEN [request EXCEPT ![w] =
                  [at |-> "update", party |-> p, code |-> c, active |-> TRUE]]
                ELSE request
  /\ UNCHANGED << vendor, heard, told >>

\* Variant: a row is looked for by its party only.
MatchedByParty(p, c) == RowsOf(p)

\* WHERE party_id = $2 OR code = $3
Matched(p, c) == { d \in Code : vendor[d].there /\ (vendor[d].party = p \/ d = c) }

\* UpsertVendorByParty, its UPDATE.  Two rows would get one party: the index
\* refuses, and the event ends in the dead-letter queue.
UpdateVendor(w) ==
  LET r == request[w]
      rows == Matched(r.party, r.code) IN
  /\ r.at = "update"
  /\ IF Cardinality(rows) = 1
     THEN /\ vendor' = [d \in Code |-> IF d \in rows THEN Row(r.party, r.active)
                                       ELSE vendor[d]]
          /\ heard' = heard \cup {r.party}
     ELSE UNCHANGED << vendor, heard >>
  /\ request' = [request EXCEPT ![w] = IF rows = {} THEN [r EXCEPT !.at = "insert"]
                                       ELSE Idle]
  /\ UNCHANGED << claimed, payable, told >>

\* Variant: a party gets a row for every code.
FreeByCode(p, c) == ~ vendor[c].there

\* ON CONFLICT DO NOTHING, on the code and on the party.
Free(p, c) == ~ vendor[c].there /\ RowsOf(p) = {}

\* Its INSERT, in a statement of its own.
InsertVendor(w) ==
  LET r == request[w] IN
  /\ r.at = "insert"
  /\ vendor' = IF Free(r.party, r.code)
               THEN [vendor EXCEPT ![r.code] = Row(r.party, r.active)] ELSE vendor
  /\ heard' = heard \cup {r.party}
  /\ request' = [request EXCEPT ![w] = Idle]
  /\ UNCHANGED << claimed, payable, told >>

Fails(w) ==
  /\ request[w] # Idle
  /\ request' = [request EXCEPT ![w] = Idle]
  /\ UNCHANGED << vendor, claimed, heard, payable, told >>

-----------------------------------------------------------------------------
(* scm.farmer_payment.recorded. *)

\* Variant: the document's reference is not unique.
NotRaisedAnyway(i) == TRUE

NotRaised(i) == ~ payable[i].there

\* The payable and its invoice.posted in one transaction; a purchase told
\* again finds its reference taken.
RecordFarmerPayable(i) ==
  /\ payable' = IF NotRaised(i)
                THEN [payable EXCEPT ![i] = [there |-> TRUE, party |-> Nobody,
                                             announced |-> @.announced + 1]]
                ELSE payable
  /\ UNCHANGED << vendor, claimed, heard, told, request >>

Next ==
  \/ \E p \in Party, c \in Code :
       \/ CreateVendor(p, c)
       \/ \E w \in Worker, b \in BOOLEAN : \/ ReceiveUpserted(w, p, c, b)
                                           \/ SyncAPParty(w, p, c, b)
  \/ \E w \in Worker : UpdateVendor(w) \/ InsertVendor(w) \/ Fails(w)
  \/ \E i \in Purchase : RecordFarmerPayable(i)

Spec == Init /\ [][Next]_vars

-----------------------------------------------------------------------------
(* Properties. *)

\* No code stands for two parties.
Uncontested == \A c \in Code : Cardinality(claimed[c]) <= 1

\* "a vendor created in procurement or SCM upserts to the same finance row"
\* (062_vendor_party_id.sql:4), also when events of one party race, repeat or
\* change its code: each party heard of or announced has one row.  It holds for codes that
\* stand for one party; a second party with the code takes the row over.
HeardHasRow == Uncontested => \A p \in heard \cup told : Cardinality(RowsOf(p)) = 1

\* A payable's party and the vendor of the name it carries never differ
\* (SyncAPPartyFromSCM and UpsertVendorByParty, two tables and two statements).
PayablesAgree ==
  Uncontested =>
    \A i \in Purchase : payable[i].party # Nobody =>
      vendor[RefOf[i]].party \in {Nobody, payable[i].party}

\* A purchase raises one payable and enqueues one invoice.posted, however often
\* it is told (recordFarmerPayable).
RaisedOnce == \A i \in Purchase : payable[i].announced = IF payable[i].there THEN 1 ELSE 0

PartiesTie == HeardHasRow /\ PayablesAgree /\ RaisedOnce
=============================================================================
