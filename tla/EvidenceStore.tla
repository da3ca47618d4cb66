---------------------------- MODULE EvidenceStore ----------------------------
(***************************************************************************)
(* Evidence of many customers in one table, and what reconciliation makes  *)
(* of it for a case: the canonical timeline and the flags for duplicate    *)
(* and contradictory evidence (reconciliation/reconciler.py,               *)
(* models/evidence.py, models/canonical.py, routers/ingestion.py).         *)
(*                                                                         *)
(* The lookup of the current row for a delivery has no ORDER BY and leaves *)
(* out neither duplicates nor other customers' rows: any row of the same   *)
(* source record that is not superseded may be found.                      *)
(*                                                                         *)
(* Time is left out: the flags for missing and stale evidence, which       *)
(* compare timestamps with the clock, are an input of CasePipeline.        *)
(***************************************************************************)
EXTENDS Naturals, Sequences, FiniteSets

CONSTANTS
  Customers,
  Cases,
  CustomerOf,  \* the customer a case is opened for
  Keys,        \* records of the source systems: [source, order, ref]
  Says,        \* what the payloads of each source record may say
  MaxRecords   \* bound: rows of evidence_records

ASSUME CasesAssumption == CustomerOf \in [Cases -> Customers]
ASSUME SaysAssumption == \A key \in Keys : "nothing" \notin Says[key]
ASSUME RecordsAssumption == MaxRecords \in Nat

VARIABLES
  records,  \* evidence_records in the order of insertion; the index is the id
  opened,   \* the cases that have been opened
  events,   \* canonical_events, as [case, record]
  flags,    \* uncertainty_flags, none of which is ever resolved
  latest    \* what each source record said last; no column of the program

vars == << records, opened, events, flags, latest >>

Statuses == UNION {Says[key] : key \in Keys}

\* Id 0 stands for a NULL in supersedes_id and is_duplicate_of.
Rows == [customer : Customers, key : Keys, status : Statuses,
         supersedes : Nat, superseded : BOOLEAN, duplicateOf : Nat]

\* Mutant: the customer is not taken over.
NewRowOrphaned(customer, key, status) ==
  [customer |-> "none", key |-> key, status |-> status,
   supersedes |-> 0, superseded |-> FALSE, duplicateOf |-> 0]

NewRow(customer, key, status) ==
  [customer |-> customer, key |-> key, status |-> status,
   supersedes |-> 0, superseded |-> FALSE, duplicateOf |-> 0]

TerminalStatuses == {"delivered", "lost_in_transit", "returned_to_sender", "delivery_failed"}
DisputeDispositions == {"item_not_received", "wrong_item", "disputes_delivery", "unauthorized_charge"}

-----------------------------------------------------------------------------
(* reconcile_case.                                                         *)

\* Mutant: the evidence of every customer is taken.
CurrentForAnyone(rows, case) ==
  {i \in DOMAIN rows : ~rows[i].superseded /\ rows[i].duplicateOf = 0}

\* _current_evidence_for_case
CurrentFor(rows, case) ==
  {i \in DOMAIN rows : /\ rows[i].customer = CustomerOf[case]
                       /\ ~rows[i].superseded
                       /\ rows[i].duplicateOf = 0}

Entries(rows, case) == {[case |-> case, record |-> i] : i \in CurrentFor(rows, case)}

\* Mutant: a corrected record always gets an entry of its own.
OverdueNone(rows, case) == {}

\* Entries of the case whose record has been superseded by one that has no entry yet; only one
\* hop back is looked at.
Overdue(rows, case) ==
  {e \in events : /\ e.case = case
                  /\ \E n \in Entries(rows, case) \ events : rows[n.record].supersedes = e.record}

\* assemble_timeline for the cases in driven: overdue entries are brought up to date in place,
\* current records without an entry get one.
Timelines(rows, driven) ==
  (events \ UNION {Overdue(rows, case) : case \in driven})
    \cup UNION {Entries(rows, case) : case \in driven}

Orders == {k.order : k \in Keys}

\* Current records of the case from one source about one order.
About(rows, case, source, order, statuses) ==
  {i \in CurrentFor(rows, case) : /\ rows[i].key.source = source
                                  /\ rows[i].key.order = order
                                  /\ rows[i].status \in statuses}

Flag(case, kind, order, count) == [case |-> case, kind |-> kind, order |-> order, count |-> count]

\* Mutant: captures are counted for the customer, whatever their orders.
DuplicatesAcrossOrders(rows, case) ==
  LET captured == UNION {About(rows, case, "payment", o, {"captured"}) : o \in Orders}
  IN  {Flag(case, "duplicate", o, Cardinality(captured)) :
         o \in {p \in Orders : Cardinality(captured) > 1}}

Duplicates(rows, case) ==
  LET captures(o) == Cardinality(About(rows, case, "payment", o, {"captured"}))
  IN  {Flag(case, "duplicate", o, captures(o)) : o \in {p \in Orders : captures(p) > 1}}

Contradictions(rows, case) ==
  LET outcomes(o) == {rows[i].status : i \in About(rows, case, "fulfillment_update", o, TerminalStatuses)}
      disputed(o) == /\ About(rows, case, "contact_center_record", o, DisputeDispositions) # {}
                     /\ "delivered" \in outcomes(o)
  IN  {Flag(case, "conflicting outcomes", o, Cardinality(outcomes(o))) :
         o \in {p \in Orders : Cardinality(outcomes(p)) > 1}}
      \cup {Flag(case, "disputed delivery", o, 0) : o \in {p \in Orders : disputed(p)}}

\* detect_uncertainty; a flag that is open already is not raised a second time.
Detected(rows, driven) ==
  flags \cup UNION {Duplicates(rows, case) \cup Contradictions(rows, case) : case \in driven}

Reconcile(rows, driven) ==
  /\ events' = Timelines(rows, driven)
  /\ flags' = Detected(rows, driven)

-----------------------------------------------------------------------------
(* ingest_evidence, from POST /ingestion/evidence or from the executor, and *)
(* the reconciliation of the cases it drives, in one transaction.          *)

Room == Len(records) < MaxRecords

\* What the lookup may find.
Found(key) == {i \in DOMAIN records : records[i].key = key /\ ~records[i].superseded}

\* The cases driven: those of the customer that are open by their status, or any one case that
\* is given by its id.
Driven(customer) ==
  (SUBSET {case \in opened : CustomerOf[case] = customer}) \cup {{case} : case \in opened}

Said(key, status) == latest' = [latest EXCEPT ![key] = status]

\* Mutant: an unknown delivery is stored without looking for the record it repeats.
NewFactUnchecked(customer, key, status) ==
  /\ Room
  /\ records' = Append(records, NewRow(customer, key, status))

NewFact(customer, key, status) ==
  /\ Room
  /\ Found(key) = {}
  /\ records' = Append(records, NewRow(customer, key, status))

\* The same payload again.
DuplicateDelivery(customer, key, status) ==
  /\ Room
  /\ \E old \in Found(key) :
       /\ records[old].status = status
       /\ records' = Append(records, [NewRow(customer, key, status) EXCEPT !.duplicateOf = old])

\* Mutants: the old row is left current; the new payload is not taken over.
CorrectionKeepsOld(customer, key, status) ==
  /\ Room
  /\ \E old \in Found(key) :
       /\ records[old].status # status
       /\ records' = Append(records, [NewRow(customer, key, status) EXCEPT !.supersedes = old])
CorrectionInPlace(customer, key, status) ==
  /\ Room
  /\ \E old \in Found(key) :
       /\ records[old].status # status
       /\ records' = Append([records EXCEPT ![old].superseded = TRUE],
                            [NewRow(customer, key, records[old].status) EXCEPT !.supersedes = old])

\* Another payload for a record that is known.
Correction(customer, key, status) ==
  /\ Room
  /\ \E old \in Found(key) :
       /\ records[old].status # status
       /\ records' = Append([records EXCEPT ![old].superseded = TRUE],
                            [NewRow(customer, key, status) EXCEPT !.supersedes = old])

Ingest ==
  \E customer \in Customers, key \in Keys : \E status \in Says[key] :
    /\ \/ NewFact(customer, key, status)
       \/ DuplicateDelivery(customer, key, status)
       \/ Correction(customer, key, status)
    /\ Said(key, status)
    /\ \E driven \in Driven(customer) : Reconcile(records', driven)
    /\ UNCHANGED opened

\* POST /cases
OpenCase ==
  \E case \in Cases \ opened :
    /\ opened' = opened \cup {case}
    /\ Reconcile(records, {case})
    /\ UNCHANGED << records, latest >>

\* POST /cases/{id}/advance
AdvanceCase ==
  \E case \in opened :
    /\ Reconcile(records, {case})
    /\ UNCHANGED << records, opened, latest >>

Init ==
  /\ records = << >>
  /\ opened = {}
  /\ events = {}
  /\ flags = {}
  /\ latest = [key \in Keys |-> "nothing"]

Next == Ingest \/ OpenCase \/ AdvanceCase

Spec == Init /\ [][Next]_vars

-----------------------------------------------------------------------------
(* Properties.                                                             *)

\* Every column holds what it can hold.
TypeOK ==
  /\ records \in Seq(Rows)
  /\ Len(records) <= MaxRecords
  /\ opened \subseteq Cases
  /\ events \subseteq [case : Cases, record : Nat]
  /\ flags \subseteq [case : Cases, kind : {"duplicate", "conflicting outcomes", "disputed delivery"},
                      order : Orders, count : Nat]
  /\ latest \in [Keys -> Statuses \cup {"nothing"}]

\* models/evidence.py: a corrected record is marked superseded exactly when another row points
\* back at it, no two rows replace the same one, and a correction comes later and concerns the
\* same source record, so that the history of a record is a chain, whoever delivered it.
ChainsAreLinear ==
  /\ \A i \in DOMAIN records :
       records[i].superseded <=> \E j \in DOMAIN records : records[j].supersedes = i
  /\ \A i, j \in DOMAIN records :
       records[i].supersedes # 0 /\ records[i].supersedes = records[j].supersedes => i = j
  /\ \A i \in DOMAIN records :
       records[i].supersedes # 0 =>
         /\ records[i].supersedes < i
         /\ records[records[i].supersedes].key = records[i].key

\* Whatever row the lookup picks, what the source said last is stored in a row that has not been
\* superseded: no correction and no repetition is lost.
LatestIsStored ==
  \A key \in Keys :
    latest[key] # "nothing" =>
      \E i \in DOMAIN records :
        records[i].key = key /\ ~records[i].superseded /\ records[i].status = latest[key]

\* As long as no delivery of a source record has been repeated, its corrections leave one
\* current row.
CorrectionsLeaveOne ==
  \A key \in Keys :
    (\A i \in DOMAIN records : records[i].key = key => records[i].duplicateOf = 0)
      => \A i, j \in Found(key) : i = j

\* The timeline of a case is made of its customer's records, although the chains of corrections
\* run across customers.
TimelineIsOwn ==
  \A e \in events :
    e.record \in DOMAIN records /\ records[e.record].customer = CustomerOf[e.case]

\* reconciler.py: a correction updates the entry of the record it corrects.  A timeline never
\* holds an entry for a record next to one for its direct correction.
EntriesFollowCorrections ==
  \A d, e \in events :
    d.case = e.case => records[e.record].supersedes # d.record

\* A flag for duplicate charges or for conflicting outcomes counts different records of the
\* sources, as long as no delivery has been repeated: corrections alone never look like a second
\* charge or a contradiction.
EvidenceIsCountedOnce ==
  (\A i \in DOMAIN records : records[i].duplicateOf = 0) =>
    \A f \in flags :
      LET of(source) == {k \in Keys : /\ k.source = source /\ k.order = f.order
                                      /\ \E i \in DOMAIN records : records[i].key = k}
      IN  /\ f.kind = "duplicate" => f.count <= Cardinality(of("payment"))
          /\ f.kind = "conflicting outcomes" => f.count <= Cardinality(of("fulfillment_update"))

\* models/evidence.py: the source's own identifier is unique among non-superseded rows (the
\* marked duplicates aside), so that one payment is never taken for two.
OneCurrentFact ==
  \A i, j \in DOMAIN records :
    /\ records[i].key = records[j].key
    /\ ~records[i].superseded /\ records[i].duplicateOf = 0
    /\ ~records[j].superseded /\ records[j].duplicateOf = 0
    => i = j
=============================================================================
