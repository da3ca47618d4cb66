------------------------ MODULE EvidenceStoreProofs ------------------------
(***************************************************************************)
(* The evidence table and the timelines for every number of customers,     *)
(* cases, source records and deliveries.                                   *)
(*                                                                         *)
(* A delivery either appends a row, or appends one and marks the row it    *)
(* corrects.  AppendedRow and CorrectedRow say what that does to a         *)
(* sequence; the conjuncts of SInv follow row by row.  That a timeline     *)
(* never shows a record next to its direct correction rests on the chains: *)
(* a current row is one that nothing points back at.                       *)
(* What a flag counts is mapped, one to one, to the source records that    *)
(* were delivered.                                                         *)
(***************************************************************************)
EXTENDS EvidenceStore, FiniteSetTheorems, TLAPS

SInv ==
  /\ TypeOK
  /\ ChainsAreLinear
  /\ LatestIsStored
  /\ CorrectionsLeaveOne
  /\ TimelineIsOwn
  /\ EntriesFollowCorrections
  /\ EvidenceIsCountedOnce

-----------------------------------------------------------------------------
(* Sequences of rows.                                                      *)

\* The rows kept, and the one added.
Extends(new, old, row) ==
  /\ new \in Seq(Rows)
  /\ Len(new) = Len(old) + 1
  /\ new[Len(old) + 1] = row

LEMMA AppendedRow ==
  ASSUME NEW rows \in Seq(Rows), NEW row \in Rows
  PROVE  /\ Extends(Append(rows, row), rows, row)
         /\ \A i \in 1 .. Len(rows) : Append(rows, row)[i] = rows[i]
BY DEF Extends

LEMMA MarkedRow ==
  ASSUME NEW row \in Rows
  PROVE  LET new == [row EXCEPT !.superseded = TRUE]
         IN  /\ new \in Rows
             /\ new.key = row.key /\ new.customer = row.customer
             /\ new.status = row.status /\ new.supersedes = row.supersedes
             /\ new.duplicateOf = row.duplicateOf
             /\ new.superseded
BY DEF Rows

\* What a row says, whether or not it has been superseded.
SameFact(new, old) ==
  /\ new.key = old.key /\ new.customer = old.customer /\ new.status = old.status
  /\ new.supersedes = old.supersedes /\ new.duplicateOf = old.duplicateOf

LEMMA CorrectedRow ==
  ASSUME NEW rows \in Seq(Rows), NEW old \in 1 .. Len(rows), NEW row \in Rows
  PROVE  LET new == Append([rows EXCEPT ![old].superseded = TRUE], row)
         IN  /\ Extends(new, rows, row)
             /\ \A i \in 1 .. Len(rows) : SameFact(new[i], rows[i])
             /\ \A i \in 1 .. Len(rows) : new[i].superseded <=> rows[i].superseded \/ i = old
<1> DEFINE new == Append([rows EXCEPT ![old].superseded = TRUE], row)
<1> DEFINE mark == [rows[old] EXCEPT !.superseded = TRUE]
           marked == [rows EXCEPT ![old].superseded = TRUE]
<1>1. rows[old] \in Rows  OBVIOUS
<1>2. mark \in Rows /\ SameFact(mark, rows[old]) /\ mark.superseded
  BY <1>1, MarkedRow DEF SameFact
<1>3. marked = [rows EXCEPT ![old] = mark]
  OBVIOUS
<1>4. new = Append(marked, row)
  BY DEF marked
<1> HIDE DEF mark, marked, new
<1>5. marked \in Seq(Rows) /\ Len(marked) = Len(rows)
  BY <1>2, <1>3
<1>6. marked[old] = mark /\ \A i \in 1 .. Len(rows) : i # old => marked[i] = rows[i]
  BY <1>3
<1>7. /\ Extends(Append(marked, row), marked, row)
      /\ \A i \in 1 .. Len(marked) : Append(marked, row)[i] = marked[i]
  BY <1>5, AppendedRow
<1>8. \A i \in 1 .. Len(rows) : new[i] = IF i = old THEN mark ELSE rows[i]
  BY <1>5, <1>6, <1>7, <1>4
<1>9. Extends(new, rows, row)
  BY <1>5, <1>7, <1>4 DEF Extends
<1>10. ASSUME NEW i \in 1 .. Len(rows)
       PROVE  SameFact(new[i], rows[i]) /\ (new[i].superseded <=> rows[i].superseded \/ i = old)
  BY <1>2, <1>8 DEF SameFact
<1> QED  BY <1>9, <1>10 DEF new

-----------------------------------------------------------------------------
(* What a delivery does to the table.                                      *)

\* row is stored, correcting the row old; old is 0 when it corrects none.
Stored(customer, key, status, row, old) ==
  /\ row \in Rows
  /\ row.customer = customer /\ row.key = key /\ row.status = status
  /\ ~row.superseded
  /\ row.supersedes = old
  /\ Extends(records', records, row)
  /\ \A i \in 1 .. Len(records) : SameFact(records'[i], records[i])
  /\ \A i \in 1 .. Len(records) :
       records'[i].superseded <=> records[i].superseded \/ i = old
  /\ old # 0 => /\ old \in 1 .. Len(records)
                /\ ~records[old].superseded /\ records[old].key = key
  /\ old = 0 => Found(key) = {} \/ row.duplicateOf # 0

LEMMA NewRowIsRow ==
  ASSUME NEW customer \in Customers, NEW key \in Keys, NEW status \in Says[key]
  PROVE  /\ NewRow(customer, key, status) \in Rows
         /\ \A old \in Nat :
              /\ [NewRow(customer, key, status) EXCEPT !.duplicateOf = old] \in Rows
              /\ [NewRow(customer, key, status) EXCEPT !.supersedes = old] \in Rows
<1>1. status \in Statuses  BY DEF Statuses
<1> QED  BY <1>1 DEF NewRow, Rows

LEMMA DeliveryStores ==
  ASSUME records \in Seq(Rows),
         NEW customer \in Customers, NEW key \in Keys, NEW status \in Says[key],
         \/ NewFact(customer, key, status)
         \/ DuplicateDelivery(customer, key, status)
         \/ Correction(customer, key, status)
  PROVE  Room /\ \E row \in Rows, old \in Nat : Stored(customer, key, status, row, old)
<1> DEFINE fresh == NewRow(customer, key, status)
<1>1. fresh \in Rows  BY NewRowIsRow
<1>2. /\ fresh.customer = customer /\ fresh.key = key /\ fresh.status = status
      /\ ~fresh.superseded /\ fresh.supersedes = 0
  BY DEF NewRow
<1>3. CASE NewFact(customer, key, status)
  <2>1. records' = Append(records, fresh) /\ Found(key) = {} /\ Room
    BY <1>3 DEF NewFact
  <2>2. /\ Extends(records', records, fresh)
        /\ \A i \in 1 .. Len(records) : records'[i] = records[i]
    BY <1>1, <2>1, AppendedRow
  <2>3. Stored(customer, key, status, fresh, 0)
    BY <1>1, <1>2, <2>1, <2>2 DEF Stored, SameFact
  <2> QED  BY <1>1, <2>1, <2>3
<1>4. CASE DuplicateDelivery(customer, key, status)
  <2>1. PICK old \in Found(key) : records' = Append(records, [fresh EXCEPT !.duplicateOf = old])
    BY <1>4 DEF DuplicateDelivery
  <2>2. old \in Nat /\ old # 0 /\ Room
    BY <1>4 DEF DuplicateDelivery, Found
  <2> DEFINE row == [fresh EXCEPT !.duplicateOf = old]
  <2>3. /\ row \in Rows /\ row.customer = customer /\ row.key = key /\ row.status = status
        /\ ~row.superseded /\ row.supersedes = 0 /\ row.duplicateOf # 0
    BY <2>2, NewRowIsRow DEF NewRow
  <2> HIDE DEF row
  <2>4. /\ Extends(records', records, row)
        /\ \A i \in 1 .. Len(records) : records'[i] = records[i]
    BY <2>1, <2>3, AppendedRow DEF row
  <2>5. Stored(customer, key, status, row, 0)
    BY <2>3, <2>4 DEF Stored, SameFact
  <2> QED  BY <2>2, <2>3, <2>5
<1>5. CASE Correction(customer, key, status)
  <2>1. PICK old \in Found(key) :
          records' = Append([records EXCEPT ![old].superseded = TRUE],
                            [fresh EXCEPT !.supersedes = old])
    BY <1>5 DEF Correction
  <2>2. /\ old \in 1 .. Len(records) /\ old \in Nat /\ old # 0 /\ Room
        /\ ~records[old].superseded /\ records[old].key = key
    BY <1>5 DEF Correction, Found
  <2> DEFINE row == [fresh EXCEPT !.supersedes = old]
  <2>3. /\ row \in Rows /\ row.customer = customer /\ row.key = key /\ row.status = status
        /\ ~row.superseded /\ row.supersedes = old
    BY <2>2, NewRowIsRow DEF NewRow
  <2> HIDE DEF row
  <2>4. records' = Append([records EXCEPT ![old].superseded = TRUE], row)
    BY <2>1 DEF row
  <2>5. /\ Extends(records', records, row)
        /\ \A i \in 1 .. Len(records) : SameFact(records'[i], records[i])
        /\ \A i \in 1 .. Len(records) :
             records'[i].superseded <=> records[i].superseded \/ i = old
    <3>1. LET new == Append([records EXCEPT ![old].superseded = TRUE], row)
          IN  /\ Extends(new, records, row)
              /\ \A i \in 1 .. Len(records) : SameFact(new[i], records[i])
              /\ \A i \in 1 .. Len(records) :
                   new[i].superseded <=> records[i].superseded \/ i = old
      BY <2>2, <2>3, CorrectedRow
    <3> QED  BY <2>4, <3>1
  <2>6. Stored(customer, key, status, row, old)
    BY <2>2, <2>3, <2>5 DEF Stored
  <2> QED  BY <2>2, <2>3, <2>6
<1> QED  BY <1>3, <1>4, <1>5

\* The chains stay linear: what is corrected was current, so nothing pointed back at it.
LEMMA ChainsKept ==
  ASSUME records \in Seq(Rows), ChainsAreLinear,
         NEW customer, NEW key, NEW status, NEW row, NEW old \in Nat,
         Stored(customer, key, status, row, old)
  PROVE  ChainsAreLinear'
<1> DEFINE n == Len(records) + 1
<1>1. /\ Len(records) \in Nat /\ n \in Nat
      /\ DOMAIN records = 1 .. Len(records) /\ DOMAIN records' = 1 .. n
      /\ records'[n] = row
  BY DEF Stored, Extends
<1>2. ASSUME NEW i \in 1 .. Len(records)
      PROVE  /\ records[i].supersedes \in Nat
             /\ records[i].supersedes # 0 =>
                  /\ records[i].supersedes < i
                  /\ records[records[i].supersedes].key = records[i].key
  <2>1. records[i] \in Rows  OBVIOUS
  <2>2. records[i].supersedes \in Nat  BY <2>1 DEF Rows
  <2> QED  BY <1>1, <2>2 DEF ChainsAreLinear
<1>3. /\ row.supersedes = old /\ ~row.superseded /\ row.key = key
      /\ \A i \in 1 .. Len(records) :
           /\ records'[i].supersedes = records[i].supersedes
           /\ records'[i].key = records[i].key
           /\ records'[i].superseded <=> records[i].superseded \/ i = old
      /\ old # 0 => old \in 1 .. Len(records) /\ ~records[old].superseded /\ records[old].key = key
  BY DEF Stored, SameFact
<1> HIDE DEF n
<1>n. n = Len(records) + 1  BY DEF n
<1>4. \A i \in 1 .. n : i # n => i \in 1 .. Len(records)
  BY <1>1, <1>n
<1>5. \A i \in 1 .. Len(records) :
        records[i].superseded <=> \E j \in 1 .. Len(records) : records[j].supersedes = i
  BY <1>1 DEF ChainsAreLinear
<1>6. \A i, j \in 1 .. Len(records) :
        records[i].supersedes # 0 /\ records[i].supersedes = records[j].supersedes => i = j
  BY <1>1 DEF ChainsAreLinear
<1>7. ASSUME NEW i \in 1 .. n
      PROVE  records'[i].superseded <=> \E j \in 1 .. n : records'[j].supersedes = i
  <2>1. CASE i = n
    <3>1. \A j \in 1 .. Len(records) : records'[j].supersedes # n
      BY <1>1, <1>n, <1>2, <1>3
    <3>2. old # n
      BY <1>1, <1>n, <1>3
    <3> QED  BY <2>1, <1>1, <1>3, <1>4, <3>1, <3>2
  <2>2. CASE i # n
    <3>1. i \in 1 .. Len(records)  BY <2>2, <1>4
    <3>2. n \in 1 .. n /\ \A j \in 1 .. Len(records) : j \in 1 .. n
      BY <1>1, <1>n
    <3>3. CASE i = old
      BY <3>1, <3>2, <3>3, <1>1, <1>3
    <3>4. CASE i # old
      BY <3>1, <3>2, <3>4, <1>1, <1>3, <1>4, <1>5
    <3> QED  BY <3>3, <3>4
  <2> QED  BY <2>1, <2>2
<1>8. ASSUME NEW i \in 1 .. n, NEW j \in 1 .. n,
             records'[i].supersedes # 0, records'[i].supersedes = records'[j].supersedes
      PROVE  i = j
  <2>1. \A k \in 1 .. Len(records) : old # 0 => records[k].supersedes # old
    BY <1>3, <1>5
  <2> QED  BY <1>1, <1>3, <1>4, <1>6, <1>8, <2>1
<1>9. ASSUME NEW i \in 1 .. n, records'[i].supersedes # 0
      PROVE  /\ records'[i].supersedes < i
             /\ records'[records'[i].supersedes].key = records'[i].key
  <2>1. CASE i = n
    BY <2>1, <1>1, <1>n, <1>3, <1>9
  <2>2. CASE i # n
    <3>1. i \in 1 .. Len(records)  BY <2>2, <1>4
    <3>2. /\ records[i].supersedes # 0 /\ records[i].supersedes < i
          /\ records[i].supersedes \in Nat
          /\ records[records[i].supersedes].key = records[i].key
      BY <3>1, <1>2, <1>3, <1>9
    <3>3. records[i].supersedes \in 1 .. Len(records)
      BY <1>1, <3>1, <3>2
    <3> QED  BY <3>1, <3>2, <3>3, <1>3
  <2> QED  BY <2>1, <2>2
<1> QED  BY <1>1, <1>7, <1>8, <1>9 DEF ChainsAreLinear

\* What was said last of another source record is still stored; of this one, row says it.
LEMMA LatestKept ==
  ASSUME records \in Seq(Rows), latest \in [Keys -> Statuses \cup {"nothing"}], LatestIsStored,
         NEW customer, NEW key \in Keys, NEW status, NEW row, NEW old \in Nat,
         Stored(customer, key, status, row, old), Said(key, status)
  PROVE  LatestIsStored'
<1>1. /\ DOMAIN records = 1 .. Len(records) /\ DOMAIN records' = 1 .. Len(records) + 1
      /\ records'[Len(records) + 1] = row
  BY DEF Stored, Extends
<1>2. SUFFICES ASSUME NEW k \in Keys, latest'[k] # "nothing"
               PROVE  \E i \in DOMAIN records' :
                        records'[i].key = k /\ ~records'[i].superseded /\ records'[i].status = latest'[k]
  BY DEF LatestIsStored
<1>3. CASE k = key
  <2>1. latest'[k] = status  BY <1>3 DEF Said
  <2> QED  BY <1>1, <1>3, <2>1 DEF Stored
<1>4. CASE k # key
  <2>1. latest'[k] = latest[k]  BY <1>4 DEF Said
  <2>2. PICK i \in 1 .. Len(records) :
          records[i].key = k /\ ~records[i].superseded /\ records[i].status = latest[k]
    BY <1>1, <1>2, <2>1 DEF LatestIsStored
  <2>3. i # old  BY <1>4, <2>2 DEF Stored
  <2>4. /\ records'[i].key = k /\ records'[i].status = latest[k] /\ ~records'[i].superseded
    BY <2>2, <2>3 DEF Stored, SameFact
  <2>5. i \in DOMAIN records'  BY <1>1
  <2> QED  BY <2>1, <2>4, <2>5
<1> QED  BY <1>3, <1>4

\* A correction takes the place of the one current row, a new fact finds none.
LEMMA OneKept ==
  ASSUME records \in Seq(Rows), CorrectionsLeaveOne,
         NEW customer, NEW key, NEW status, NEW row, NEW old \in Nat,
         Stored(customer, key, status, row, old)
  PROVE  CorrectionsLeaveOne'
<1>1. /\ DOMAIN records = 1 .. Len(records) /\ DOMAIN records' = 1 .. Len(records) + 1
      /\ records'[Len(records) + 1] = row
  BY DEF Stored, Extends
<1>2. SUFFICES ASSUME NEW k \in Keys,
                      \A i \in DOMAIN records' : records'[i].key = k => records'[i].duplicateOf = 0,
                      NEW i \in Found(k)', NEW j \in Found(k)'
               PROVE  i = j
  BY DEF CorrectionsLeaveOne
<1>3. /\ i \in DOMAIN records' /\ records'[i].key = k /\ ~records'[i].superseded
      /\ j \in DOMAIN records' /\ records'[j].key = k /\ ~records'[j].superseded
  BY DEF Found
<1>4. \A m \in 1 .. Len(records) : records[m].key = k => records[m].duplicateOf = 0
  BY <1>1, <1>2 DEF Stored, SameFact
<1>5. \A l, m \in 1 .. Len(records) :
        /\ records[l].key = k /\ ~records[l].superseded
        /\ records[m].key = k /\ ~records[m].superseded
        => l = m
  BY <1>1, <1>4 DEF CorrectionsLeaveOne, Found
<1>6. \A m \in DOMAIN records' :
        m # Len(records) + 1 /\ records'[m].key = k /\ ~records'[m].superseded =>
          m \in 1 .. Len(records) /\ records[m].key = k /\ ~records[m].superseded /\ m # old
  BY <1>1 DEF Stored, SameFact
<1>7. ASSUME NEW m \in DOMAIN records', m # Len(records) + 1,
             records'[m].key = k, ~records'[m].superseded
      PROVE  row.key # k
  <2>1. m \in 1 .. Len(records) /\ records[m].key = k /\ ~records[m].superseded /\ m # old
    BY <1>6, <1>7
  <2>2. SUFFICES ASSUME row.key = k PROVE FALSE
    OBVIOUS
  <2>3. key = k /\ row.duplicateOf = 0
    BY <1>1, <1>2, <2>2 DEF Stored
  <2>4. CASE old = 0
    <3>1. Found(key) = {}  BY <2>3, <2>4 DEF Stored
    <3> QED  BY <1>1, <2>1, <2>3, <3>1 DEF Found
  <2>5. CASE old # 0
    <3>1. old \in 1 .. Len(records) /\ ~records[old].superseded /\ records[old].key = k
      BY <2>3, <2>5 DEF Stored
    <3> QED  BY <1>5, <2>1, <3>1
  <2> QED  BY <2>4, <2>5
<1>8. CASE i = Len(records) + 1 \/ j = Len(records) + 1
  BY <1>1, <1>3, <1>7, <1>8
<1>9. CASE i # Len(records) + 1 /\ j # Len(records) + 1
  BY <1>3, <1>5, <1>6, <1>9
<1> QED  BY <1>8, <1>9

-----------------------------------------------------------------------------
(* What reconciliation makes of the table.                                 *)

\* The rows only grow, and a row keeps what it says.
Grown ==
  /\ records' \in Seq(Rows)
  /\ Len(records) <= Len(records')
  /\ \A i \in 1 .. Len(records) : SameFact(records'[i], records[i])

LEMMA OwnTimeline ==
  ASSUME records \in Seq(Rows), opened \subseteq Cases, TimelineIsOwn, Grown,
         NEW driven \in SUBSET Cases, events' = Timelines(records', driven)
  PROVE  TimelineIsOwn'
<1>1. DOMAIN records = 1 .. Len(records) /\ DOMAIN records' = 1 .. Len(records')
      /\ Len(records) \in Nat /\ Len(records') \in Nat
  BY DEF Grown
<1>2. ASSUME NEW e \in events'
      PROVE  e.record \in DOMAIN records' /\ records'[e.record].customer = CustomerOf[e.case]
  <2>1. CASE e \in events
    <3>1. e.record \in DOMAIN records /\ records[e.record].customer = CustomerOf[e.case]
      BY <2>1 DEF TimelineIsOwn
    <3> QED  BY <1>1, <3>1 DEF Grown, SameFact
  <2>2. CASE e \notin events
    <3>1. PICK case \in driven : e \in Entries(records', case)
      BY <1>2, <2>2 DEF Timelines
    <3>2. PICK i \in CurrentFor(records', case) : e = [case |-> case, record |-> i]
      BY <3>1 DEF Entries
    <3> QED  BY <3>2 DEF CurrentFor
  <2> QED  BY <2>1, <2>2
<1> QED  BY <1>2 DEF TimelineIsOwn

\* An entry that reconciliation leaves or adds is not the predecessor of another of its case.
LEMMA EntriesFollow ==
  ASSUME records \in Seq(Rows), TimelineIsOwn, EntriesFollowCorrections, Grown, ChainsAreLinear',
         NEW driven \in SUBSET Cases, events' = Timelines(records', driven)
  PROVE  EntriesFollowCorrections'
<1>1. DOMAIN records = 1 .. Len(records) /\ DOMAIN records' = 1 .. Len(records')
      /\ Len(records) \in Nat /\ Len(records') \in Nat
  BY DEF Grown
<1>2. SUFFICES ASSUME NEW d \in events', NEW e \in events', d.case = e.case,
                      records'[e.record].supersedes = d.record
               PROVE  FALSE
  BY DEF EntriesFollowCorrections
<1>3. ASSUME NEW f \in events'
      PROVE  \/ f \in events
             \/ \E case \in driven :
                  f \in Entries(records', case) /\ f.case = case
                    /\ f.record \in DOMAIN records' /\ ~records'[f.record].superseded
  <2>1. CASE f \in events  BY <2>1
  <2>2. CASE f \notin events
    <3>1. PICK case \in driven : f \in Entries(records', case)
      BY <1>3, <2>2 DEF Timelines
    <3>2. PICK i \in CurrentFor(records', case) : f = [case |-> case, record |-> i]
      BY <3>1 DEF Entries
    <3> QED  BY <3>1, <3>2 DEF CurrentFor
  <2> QED  BY <2>1, <2>2
<1>4. \A f \in events : f.record \in DOMAIN records /\ f.record \in DOMAIN records'
  BY <1>1 DEF TimelineIsOwn, Grown
<1>5. e.record \in DOMAIN records'  BY <1>3, <1>4
\* What is superseded is no entry that was just made.
<1>6. ~\E case \in driven : d \in Entries(records', case)
  <2>1. SUFFICES ASSUME NEW case \in driven, d \in Entries(records', case) PROVE FALSE
    OBVIOUS
  <2>2. PICK i \in CurrentFor(records', case) : d = [case |-> case, record |-> i]
    BY <2>1 DEF Entries
  <2>3. d.record \in DOMAIN records' /\ ~records'[d.record].superseded
    BY <2>2 DEF CurrentFor
  <2> QED  BY <1>2, <1>5, <2>3 DEF ChainsAreLinear
<1>7. d \in events /\ d.record \in DOMAIN records
  BY <1>3, <1>4, <1>6
<1>8. CASE e \in events
  <2>1. records'[e.record].supersedes = records[e.record].supersedes
    BY <1>1, <1>4, <1>8 DEF Grown, SameFact
  <2> QED  BY <1>2, <1>7, <1>8, <2>1 DEF EntriesFollowCorrections
<1>9. CASE e \notin events
  <2>1. PICK case \in driven : e \in Entries(records', case) /\ e.case = case
    BY <1>3, <1>9
  <2>2. d \in Overdue(records', case)
    BY <1>2, <1>7, <1>9, <2>1 DEF Overdue
  <2>3. d \notin events \ UNION {Overdue(records', c) : c \in driven}
    BY <2>1, <2>2
  <2>4. d \in UNION {Entries(records', c) : c \in driven}
    BY <2>3 DEF Timelines
  <2> QED  BY <1>6, <2>4
<1> QED  BY <1>8, <1>9

LEMMA CountIsNat ==
  ASSUME NEW rows \in Seq(Rows), NEW T \in SUBSET DOMAIN rows
  PROVE  IsFiniteSet(T) /\ Cardinality(T) \in Nat
<1>1. DOMAIN rows = 1 .. Len(rows) /\ Len(rows) \in Nat  OBVIOUS
<1>2. IsFiniteSet(1 .. Len(rows))  BY <1>1, FS_Interval
<1>3. IsFiniteSet(T)  BY <1>1, <1>2, FS_Subset
<1> QED  BY <1>3, FS_CardinalityType

Kinds == {"duplicate", "conflicting outcomes", "disputed delivery"}

FlagRows == [case : Cases, kind : Kinds, order : Orders, count : Nat]

\* Counts are numbers, because the table is finite.
LEMMA FlagsTyped ==
  ASSUME NEW rows \in Seq(Rows), NEW case \in Cases
  PROVE  Duplicates(rows, case) \cup Contradictions(rows, case) \subseteq FlagRows
<1>1. \A source, order, statuses : About(rows, case, source, order, statuses) \in SUBSET DOMAIN rows
  BY DEF About, CurrentFor
<1>2. \A order \in Orders, count \in Nat, kind \in Kinds : Flag(case, kind, order, count) \in FlagRows
  BY DEF Flag, FlagRows
<1>3. Duplicates(rows, case) \subseteq FlagRows
  <2> DEFINE captures(o) == Cardinality(About(rows, case, "payment", o, {"captured"}))
  <2>1. \A o : captures(o) \in Nat  BY <1>1, CountIsNat
  <2>2. "duplicate" \in Kinds  BY DEF Kinds
  <2> HIDE DEF captures
  <2>3. \A o \in Orders : Flag(case, "duplicate", o, captures(o)) \in FlagRows
    BY <1>2, <2>1, <2>2
  <2>4. {Flag(case, "duplicate", o, captures(o)) : o \in {p \in Orders : captures(p) > 1}}
          \subseteq FlagRows
    BY <2>3
  <2> QED  BY <2>4 DEF Duplicates, captures
<1>4. Contradictions(rows, case) \subseteq FlagRows
  <2> DEFINE rowsOf(o) == About(rows, case, "fulfillment_update", o, TerminalStatuses)
             outcomes(o) == {rows[i].status : i \in rowsOf(o)}
             disputed(o) ==
               /\ About(rows, case, "contact_center_record", o, DisputeDispositions) # {}
               /\ "delivered" \in outcomes(o)
  <2>1. ASSUME NEW o PROVE Cardinality(outcomes(o)) \in Nat
    <3> DEFINE T == rowsOf(o)
               statusOf == [i \in T |-> rows[i].status]
    <3>1. IsFiniteSet(T)  BY <1>1, CountIsNat
    <3>2. statusOf \in Surjection(T, outcomes(o))
      BY DEF Surjection
    <3> HIDE DEF statusOf, T, outcomes
    <3>3. IsFiniteSet(outcomes(o))
      BY <3>1, <3>2, FS_Surjection
    <3> QED  BY <3>3, FS_CardinalityType
  <2>2. "conflicting outcomes" \in Kinds /\ "disputed delivery" \in Kinds /\ 0 \in Nat
    BY DEF Kinds
  <2> HIDE DEF outcomes, disputed
  <2>3. /\ \A o \in Orders : Flag(case, "conflicting outcomes", o, Cardinality(outcomes(o))) \in FlagRows
        /\ \A o \in Orders : Flag(case, "disputed delivery", o, 0) \in FlagRows
    BY <1>2, <2>1, <2>2
  <2>4. {Flag(case, "conflicting outcomes", o, Cardinality(outcomes(o))) :
           o \in {p \in Orders : Cardinality(outcomes(p)) > 1}}
        \cup {Flag(case, "disputed delivery", o, 0) : o \in {p \in Orders : disputed(p)}}
          \subseteq FlagRows
    BY <2>3
  <2> QED  BY <2>4 DEF Contradictions, outcomes, disputed, rowsOf
<1> QED  BY <1>3, <1>4

\* Entries and flags after reconciliation are of the right type.
LEMMA ReconcileTyped ==
  ASSUME TypeOK, records' \in Seq(Rows), NEW driven \in SUBSET Cases, Reconcile(records', driven)
  PROVE  /\ events' \subseteq [case : Cases, record : Nat]
         /\ flags' \subseteq FlagRows
<1>1. \A case \in Cases : Entries(records', case) \subseteq [case : Cases, record : Nat]
  BY DEF Entries, CurrentFor
<1>2. events' \subseteq [case : Cases, record : Nat]
  BY <1>1 DEF Reconcile, Timelines, TypeOK
<1>3. \A case \in driven : Duplicates(records', case) \cup Contradictions(records', case) \subseteq FlagRows
  BY FlagsTyped
<1>4. flags \subseteq FlagRows  BY DEF TypeOK, FlagRows, Kinds
<1>5. flags' \subseteq FlagRows
  BY <1>3, <1>4 DEF Reconcile, Detected
<1> QED  BY <1>2, <1>5

-----------------------------------------------------------------------------
(* What the flags count.                                                   *)

\* The records of one source about one order that have been delivered.
Delivered(rows, source, order) ==
  {k \in Keys : /\ k.source = source /\ k.order = order
                /\ \E i \in DOMAIN rows : rows[i].key = k}

\* A flag counts no more than what has been delivered.
Counts(rows, f) ==
  /\ f.kind = "duplicate" => f.count <= Cardinality(Delivered(rows, "payment", f.order))
  /\ f.kind = "conflicting outcomes" =>
       f.count <= Cardinality(Delivered(rows, "fulfillment_update", f.order))

NoRepetition(rows) == \A i \in DOMAIN rows : rows[i].duplicateOf = 0

\* The columns of a table whose rows are typed.
LEMMA RowKeys ==
  ASSUME NEW rows \in Seq(Rows)
  PROVE  \A i \in DOMAIN rows : rows[i].key \in Keys
<1>1. \A i \in DOMAIN rows : rows[i] \in Rows  OBVIOUS
<1>2. \A row \in Rows : row.key \in Keys  BY DEF Rows
<1> QED  BY <1>1, <1>2

\* Each record that was delivered has a row, of which there are finitely many.
LEMMA DeliveredIsFinite ==
  ASSUME NEW rows \in Seq(Rows), NEW source, NEW order
  PROVE  /\ IsFiniteSet(Delivered(rows, source, order))
         /\ Cardinality(Delivered(rows, source, order)) \in Nat
<1> DEFINE T == {i \in DOMAIN rows : rows[i].key \in Delivered(rows, source, order)}
           keyOf == [i \in T |-> rows[i].key]
<1>1. T \in SUBSET DOMAIN rows  OBVIOUS
<1>2. IsFiniteSet(T)  BY <1>1, CountIsNat
<1>3. keyOf \in Surjection(T, Delivered(rows, source, order))
  BY DEF Surjection, Delivered
<1> HIDE DEF keyOf, T
<1>4. IsFiniteSet(Delivered(rows, source, order))
  BY <1>2, <1>3, FS_Surjection
<1> QED  BY <1>4, FS_CardinalityType

\* A later table has delivered what an earlier one has.
LEMMA CountsStay ==
  ASSUME records \in Seq(Rows), Grown, NEW f, f.count \in Nat, Counts(records, f)
  PROVE  Counts(records', f)
<1>1. DOMAIN records = 1 .. Len(records) /\ DOMAIN records' = 1 .. Len(records')
      /\ Len(records) \in Nat /\ Len(records') \in Nat /\ records' \in Seq(Rows)
  BY DEF Grown
<1>2. ASSUME NEW source
      PROVE  /\ Cardinality(Delivered(records, source, f.order)) \in Nat
             /\ Cardinality(Delivered(records', source, f.order)) \in Nat
             /\ Cardinality(Delivered(records, source, f.order))
                  <= Cardinality(Delivered(records', source, f.order))
  <2>1. Delivered(records, source, f.order) \in SUBSET Delivered(records', source, f.order)
    BY <1>1 DEF Grown, SameFact, Delivered
  <2>2. /\ IsFiniteSet(Delivered(records', source, f.order))
        /\ Cardinality(Delivered(records', source, f.order)) \in Nat
        /\ Cardinality(Delivered(records, source, f.order)) \in Nat
    BY <1>1, DeliveredIsFinite
  <2> QED  BY <2>1, <2>2, FS_Subset
<1>3. ASSUME NEW source, f.count <= Cardinality(Delivered(records, source, f.order))
      PROVE  f.count <= Cardinality(Delivered(records', source, f.order))
  <2>1. \A k, m, n \in Nat : k <= m /\ m <= n => k <= n  OBVIOUS
  <2> QED  BY <1>2, <1>3, <2>1
<1> QED  BY <1>3 DEF Counts

\* Rows a flag looks at are of different records, since corrections leave one row for each.
LEMMA AboutIsInjective ==
  ASSUME NEW rows \in Seq(Rows), NEW case, NEW source, NEW order, NEW statuses,
         \A i, j \in DOMAIN rows :
           rows[i].key = rows[j].key /\ ~rows[i].superseded /\ ~rows[j].superseded => i = j
  PROVE  /\ IsFiniteSet(About(rows, case, source, order, statuses))
         /\ Cardinality(About(rows, case, source, order, statuses)) \in Nat
         /\ Cardinality(About(rows, case, source, order, statuses))
              <= Cardinality(Delivered(rows, source, order))
<1> DEFINE T == About(rows, case, source, order, statuses)
           keyOf == [i \in T |-> rows[i].key]
<1>1. T \in SUBSET DOMAIN rows  BY DEF About, CurrentFor
<1>2. \A i \in T : ~rows[i].superseded /\ rows[i].key.source = source /\ rows[i].key.order = order
  BY DEF About, CurrentFor
<1>3. IsFiniteSet(T) /\ Cardinality(T) \in Nat  BY <1>1, CountIsNat
<1>4. \A i \in T : rows[i].key \in Delivered(rows, source, order)
  BY <1>1, <1>2, RowKeys DEF Delivered
<1>5. keyOf \in [T -> Delivered(rows, source, order)]
  BY <1>4
<1>6. \A i, j \in T : keyOf[i] = keyOf[j] => i = j
  BY <1>1, <1>2
<1>7. DOMAIN keyOf = T  OBVIOUS
<1>8. IsFiniteSet(Delivered(rows, source, order))  BY DeliveredIsFinite
<1> HIDE DEF keyOf, T
<1>9. keyOf \in Injection(T, Delivered(rows, source, order))
  BY <1>5, <1>6, <1>7 DEF Injection, IsInjective
<1>10. Cardinality(T) <= Cardinality(Delivered(rows, source, order))
  BY <1>8, <1>9, FS_Injection
<1> QED  BY <1>3, <1>10 DEF T

\* A flag that is raised counts what it should.
LEMMA RaisedCounts ==
  ASSUME NEW rows \in Seq(Rows), NEW case,
         \A i, j \in DOMAIN rows :
           rows[i].key = rows[j].key /\ ~rows[i].superseded /\ ~rows[j].superseded => i = j,
         NEW f \in Duplicates(rows, case) \cup Contradictions(rows, case)
  PROVE  Counts(rows, f)
<1>1. CASE f \in Duplicates(rows, case)
  <2>1. PICK o \in Orders :
          f = Flag(case, "duplicate", o, Cardinality(About(rows, case, "payment", o, {"captured"})))
    BY <1>1 DEF Duplicates
  <2>2. /\ f.kind = "duplicate" /\ f.order = o
        /\ f.count = Cardinality(About(rows, case, "payment", o, {"captured"}))
    BY <2>1 DEF Flag
  <2>3. f.count <= Cardinality(Delivered(rows, "payment", f.order))
    BY <2>2, AboutIsInjective
  <2> QED  BY <2>2, <2>3 DEF Counts
<1>2. CASE f \in Contradictions(rows, case)
  <2> DEFINE rowsOf(o) == About(rows, case, "fulfillment_update", o, TerminalStatuses)
             outcomes(o) == {rows[i].status : i \in rowsOf(o)}
  <2>1. \/ \E o \in Orders : f = Flag(case, "conflicting outcomes", o, Cardinality(outcomes(o)))
        \/ \E o \in Orders : f = Flag(case, "disputed delivery", o, 0)
    BY <1>2 DEF Contradictions
  <2>2. CASE \E o \in Orders : f = Flag(case, "conflicting outcomes", o, Cardinality(outcomes(o)))
    <3>1. PICK o \in Orders : f = Flag(case, "conflicting outcomes", o, Cardinality(outcomes(o)))
      BY <2>2
    <3>2. f.kind = "conflicting outcomes" /\ f.order = o /\ f.count = Cardinality(outcomes(o))
      BY <3>1 DEF Flag
    <3> DEFINE T == rowsOf(o)
               S == outcomes(o)
               statusOf == [i \in T |-> rows[i].status]
    <3>3. /\ IsFiniteSet(T) /\ Cardinality(T) \in Nat
          /\ Cardinality(T) <= Cardinality(Delivered(rows, "fulfillment_update", o))
      BY AboutIsInjective
    <3>4. statusOf \in Surjection(T, S)  BY DEF Surjection
    <3>5. Cardinality(Delivered(rows, "fulfillment_update", o)) \in Nat
      BY DeliveredIsFinite
    <3>6. f.count = Cardinality(S)  BY <3>2
    <3> HIDE DEF T, S, statusOf
    <3>7. IsFiniteSet(S) /\ Cardinality(S) <= Cardinality(T)
      BY <3>3, <3>4, FS_Surjection
    <3>8. Cardinality(S) \in Nat  BY <3>7, FS_CardinalityType
    <3>9. f.count <= Cardinality(Delivered(rows, "fulfillment_update", f.order))
      <4>1. \A k, m, n \in Nat : k <= m /\ m <= n => k <= n  OBVIOUS
      <4>2. Cardinality(S) <= Cardinality(Delivered(rows, "fulfillment_update", o))
        BY <3>3, <3>5, <3>7, <3>8, <4>1
      <4> QED  BY <3>2, <3>6, <4>2
    <3> QED  BY <3>2, <3>9 DEF Counts
  <2>3. CASE \E o \in Orders : f = Flag(case, "disputed delivery", o, 0)
    <3>1. PICK o \in Orders : f = Flag(case, "disputed delivery", o, 0)  BY <2>3
    <3>2. f.kind = "disputed delivery"  BY <3>1 DEF Flag
    <3> QED  BY <3>2 DEF Counts
  <2> QED  BY <2>1, <2>2, <2>3
<1> QED  BY <1>1, <1>2

\* What is flagged after reconciliation: earlier flags stay true, those that are raised count the
\* rows that corrections have left.
LEMMA CountsKept ==
  ASSUME TypeOK, EvidenceIsCountedOnce, Grown, CorrectionsLeaveOne',
         NEW driven \in SUBSET Cases, Reconcile(records', driven)
  PROVE  EvidenceIsCountedOnce'
<1>1. SUFFICES ASSUME NoRepetition(records'), NEW f \in flags'
               PROVE  Counts(records', f)
  BY DEF EvidenceIsCountedOnce, NoRepetition, Counts, Delivered
<1>2. records \in Seq(Rows) /\ records' \in Seq(Rows)
      /\ DOMAIN records = 1 .. Len(records) /\ DOMAIN records' = 1 .. Len(records')
      /\ Len(records) \in Nat /\ Len(records') \in Nat
  <2>1. records \in Seq(Rows)  BY DEF TypeOK
  <2>2. records' \in Seq(Rows)  BY DEF Grown
  <2> QED  BY <2>1, <2>2
<1>3. NoRepetition(records)
  BY <1>1, <1>2 DEF Grown, SameFact, NoRepetition
<1>4. \A i, j \in DOMAIN records' :
        records'[i].key = records'[j].key /\ ~records'[i].superseded /\ ~records'[j].superseded
          => i = j
  BY <1>1, <1>2, RowKeys DEF CorrectionsLeaveOne, Found, NoRepetition
<1>5. CASE f \in flags
  <2>1. Counts(records, f)
    BY <1>3, <1>5 DEF EvidenceIsCountedOnce, NoRepetition, Counts, Delivered
  <2>2. f.count \in Nat  BY <1>5 DEF TypeOK
  <2> QED  BY <1>2, <2>1, <2>2, CountsStay
<1>6. CASE f \notin flags
  <2>1. PICK case \in driven : f \in Duplicates(records', case) \cup Contradictions(records', case)
    BY <1>1, <1>6 DEF Reconcile, Detected
  <2> QED  BY <1>2, <1>4, <2>1, RaisedCounts
<1> QED  BY <1>5, <1>6

-----------------------------------------------------------------------------
(* The steps.                                                              *)

\* Reconciliation on its own, of a case just opened or advanced.
LEMMA ReconcileKeeps ==
  ASSUME SInv, UNCHANGED << records, latest >>, opened' \subseteq Cases,
         NEW driven \in SUBSET Cases, Reconcile(records, driven)
  PROVE  SInv'
<1>1. records' = records /\ latest' = latest /\ Reconcile(records', driven)
  OBVIOUS
<1>2. records \in Seq(Rows) /\ opened \subseteq Cases
  BY DEF SInv, TypeOK
<1>3. Grown  BY <1>1, <1>2 DEF Grown, SameFact
<1>4. TypeOK'
  BY <1>1, ReconcileTyped DEF SInv, TypeOK, FlagRows, Kinds
<1>5. ChainsAreLinear' /\ LatestIsStored' /\ CorrectionsLeaveOne'
  BY <1>1 DEF SInv, ChainsAreLinear, LatestIsStored, CorrectionsLeaveOne, Found
<1>6. events' = Timelines(records', driven)
  BY <1>1 DEF Reconcile
<1>7. TimelineIsOwn'
  BY <1>2, <1>3, <1>6, OwnTimeline DEF SInv
<1>8. EntriesFollowCorrections'
  BY <1>2, <1>3, <1>5, <1>6, EntriesFollow DEF SInv
<1>9. EvidenceIsCountedOnce'
  BY <1>1, <1>3, <1>5, CountsKept DEF SInv
<1> QED  BY <1>4, <1>5, <1>7, <1>8, <1>9 DEF SInv

\* A delivery, and the reconciliation of the cases it drives.
LEMMA IngestKeeps ==
  ASSUME SInv, Ingest
  PROVE  SInv'
<1>1. PICK customer \in Customers, key \in Keys : \E status \in Says[key] :
        /\ \/ NewFact(customer, key, status)
           \/ DuplicateDelivery(customer, key, status)
           \/ Correction(customer, key, status)
        /\ Said(key, status)
        /\ \E driven \in Driven(customer) : Reconcile(records', driven)
        /\ UNCHANGED opened
  BY DEF Ingest
<1>2. PICK status \in Says[key] :
        /\ \/ NewFact(customer, key, status)
           \/ DuplicateDelivery(customer, key, status)
           \/ Correction(customer, key, status)
        /\ Said(key, status)
        /\ \E driven \in Driven(customer) : Reconcile(records', driven)
        /\ UNCHANGED opened
  BY <1>1
<1>3. PICK driven \in Driven(customer) : Reconcile(records', driven)
  BY <1>2
<1>4. /\ records \in Seq(Rows) /\ Len(records) <= MaxRecords /\ opened \subseteq Cases
      /\ latest \in [Keys -> Statuses \cup {"nothing"}]
  BY DEF SInv, TypeOK
<1>5. driven \in SUBSET Cases  BY <1>4 DEF Driven
<1>6. Room /\ \E row \in Rows, old \in Nat : Stored(customer, key, status, row, old)
  BY <1>2, <1>4, DeliveryStores
<1>7. PICK row \in Rows, old \in Nat : Stored(customer, key, status, row, old)
  BY <1>6
<1>8. records' \in Seq(Rows) /\ Len(records') = Len(records) + 1
  BY <1>7 DEF Stored, Extends
<1>9. Grown  BY <1>4, <1>7, <1>8 DEF Grown, Stored
<1>10. TypeOK'
  <2>1. Len(records') <= MaxRecords
    BY <1>4, <1>6, <1>8, RecordsAssumption DEF Room
  <2>2. latest' \in [Keys -> Statuses \cup {"nothing"}]
    BY <1>2, <1>4 DEF Said, Statuses
  <2>3. /\ events' \subseteq [case : Cases, record : Nat]
        /\ flags' \subseteq FlagRows
    BY <1>3, <1>5, <1>8, ReconcileTyped DEF SInv
  <2> QED  BY <1>2, <1>4, <1>8, <2>1, <2>2, <2>3 DEF TypeOK, FlagRows, Kinds
<1>11. ChainsAreLinear'
  BY <1>4, <1>7, ChainsKept DEF SInv
<1>12. LatestIsStored'
  BY <1>2, <1>4, <1>7, LatestKept DEF SInv
<1>13. CorrectionsLeaveOne'
  BY <1>4, <1>7, OneKept DEF SInv
<1>14. events' = Timelines(records', driven)
  BY <1>3 DEF Reconcile
<1>15. TimelineIsOwn'
  BY <1>4, <1>5, <1>9, <1>14, OwnTimeline DEF SInv
<1>16. EntriesFollowCorrections'
  BY <1>4, <1>5, <1>9, <1>11, <1>14, EntriesFollow DEF SInv
<1>17. EvidenceIsCountedOnce'
  BY <1>3, <1>5, <1>9, <1>13, CountsKept DEF SInv
<1> QED  BY <1>10, <1>11, <1>12, <1>13, <1>15, <1>16, <1>17 DEF SInv

LEMMA SInvInit == Init => SInv
<1> SUFFICES ASSUME Init PROVE SInv
  OBVIOUS
<1>1. /\ records = << >> /\ opened = {} /\ events = {} /\ flags = {}
      /\ latest = [key \in Keys |-> "nothing"]
  BY DEF Init
<1>2. TypeOK
  BY <1>1, RecordsAssumption DEF TypeOK
<1>3. ChainsAreLinear /\ LatestIsStored /\ TimelineIsOwn /\ EntriesFollowCorrections
  BY <1>1 DEF ChainsAreLinear, LatestIsStored, TimelineIsOwn, EntriesFollowCorrections
<1>4. CorrectionsLeaveOne
  BY <1>1 DEF CorrectionsLeaveOne, Found
<1>5. EvidenceIsCountedOnce
  BY <1>1 DEF EvidenceIsCountedOnce
<1> QED  BY <1>2, <1>3, <1>4, <1>5 DEF SInv

LEMMA SInvNext == SInv /\ [Next]_vars => SInv'
<1> SUFFICES ASSUME SInv, [Next]_vars PROVE SInv'
  OBVIOUS
<1>1. CASE Ingest  BY <1>1, IngestKeeps
<1>2. CASE OpenCase
  <2>1. PICK case \in Cases \ opened :
          /\ opened' = opened \cup {case}
          /\ Reconcile(records, {case})
          /\ UNCHANGED << records, latest >>
    BY <1>2 DEF OpenCase
  <2>2. opened' \subseteq Cases /\ {case} \in SUBSET Cases
    BY <2>1 DEF SInv, TypeOK
  <2> QED  BY <2>1, <2>2, ReconcileKeeps
<1>3. CASE AdvanceCase
  <2>1. PICK case \in opened :
          /\ Reconcile(records, {case})
          /\ UNCHANGED << records, opened, latest >>
    BY <1>3 DEF AdvanceCase
  <2>2. opened' \subseteq Cases /\ {case} \in SUBSET Cases
    BY <2>1 DEF SInv, TypeOK
  <2> QED  BY <2>1, <2>2, ReconcileKeeps
<1>4. CASE UNCHANGED vars
  <2>1. /\ records' = records /\ opened' = opened /\ events' = events
        /\ flags' = flags /\ latest' = latest
    BY <1>4 DEF vars
  <2>2. TypeOK'
    BY <2>1 DEF SInv, TypeOK
  <2>3. ChainsAreLinear'
    BY <2>1 DEF SInv, ChainsAreLinear
  <2>4. LatestIsStored'
    BY <2>1 DEF SInv, LatestIsStored
  <2>5. CorrectionsLeaveOne'
    BY <2>1 DEF SInv, CorrectionsLeaveOne, Found
  <2>6. TimelineIsOwn' /\ EntriesFollowCorrections'
    BY <2>1 DEF SInv, TimelineIsOwn, EntriesFollowCorrections
  <2>7. EvidenceIsCountedOnce'
    <3>1. NoRepetition(records) => \A f \in flags : Counts(records, f)
      BY DEF SInv, EvidenceIsCountedOnce, NoRepetition, Counts, Delivered
    <3>2. NoRepetition(records') => \A f \in flags' : Counts(records', f)
      BY <2>1, <3>1
    <3> QED  BY <3>2 DEF EvidenceIsCountedOnce, NoRepetition, Counts, Delivered
  <2> QED  BY <2>2, <2>3, <2>4, <2>5, <2>6, <2>7 DEF SInv
<1> QED  BY <1>1, <1>2, <1>3, <1>4 DEF Next

-----------------------------------------------------------------------------
(* The theorems.                                                           *)

\* The inductive invariant of the evidence table and the timelines.
THEOREM EvidenceInvariant == Spec => []SInv
<1>1. Init => SInv  BY SInvInit
<1>2. SInv /\ [Next]_vars => SInv'  BY SInvNext
<1> QED  BY <1>1, <1>2, PTL DEF Spec

\* Every row, entry and flag keeps to its type, and the table to its bound.
THEOREM EvidenceTypes == Spec => []TypeOK
<1>1. SInv => TypeOK  BY DEF SInv
<1> QED  BY <1>1, EvidenceInvariant, PTL

\* models/evidence.py: whichever row a lookup without an order finds, the corrections of a source
\* record form one chain.
THEOREM HistoryIsAChain == Spec => []ChainsAreLinear
<1>1. SInv => ChainsAreLinear  BY DEF SInv
<1> QED  BY <1>1, EvidenceInvariant, PTL

\* ingest_evidence: what a source said last is never lost, and is stored in a row that has not been
\* superseded.
THEOREM NothingIsLost == Spec => []LatestIsStored
<1>1. SInv => LatestIsStored  BY DEF SInv
<1> QED  BY <1>1, EvidenceInvariant, PTL

\* ingest_evidence: without repeated deliveries, corrections leave one current row for each source
\* record.
THEOREM OneRowIsLeft == Spec => []CorrectionsLeaveOne
<1>1. SInv => CorrectionsLeaveOne  BY DEF SInv
<1> QED  BY <1>1, EvidenceInvariant, PTL

\* assemble_timeline: no case ever shows the evidence of another customer.
THEOREM TimelinesAreOwn == Spec => []TimelineIsOwn
<1>1. SInv => TimelineIsOwn  BY DEF SInv
<1> QED  BY <1>1, EvidenceInvariant, PTL

\* assemble_timeline: an entry is brought up to date with the correction of its record and never
\* stands next to it.
THEOREM TimelinesFollowCorrections == Spec => []EntriesFollowCorrections
<1>1. SInv => EntriesFollowCorrections  BY DEF SInv
<1> QED  BY <1>1, EvidenceInvariant, PTL

\* detect_uncertainty: as long as nothing is delivered twice, corrections are never taken for a
\* second charge or for a contradiction.
THEOREM CorrectionsAreNotCounted == Spec => []EvidenceIsCountedOnce
<1>1. SInv => EvidenceIsCountedOnce  BY DEF SInv
<1> QED  BY <1>1, EvidenceInvariant, PTL

-----------------------------------------------------------------------------
(* What a step may never do to the evidence.                               *)

\* Every row stays with what it says, and is superseded only by a row that is new; an entry leaves
\* a timeline only when the entry of the direct correction of its record comes in.
Appended ==
  /\ \A i \in DOMAIN records :
       /\ i \in DOMAIN records' /\ SameFact(records'[i], records[i])
       /\ records[i].superseded => records'[i].superseded
       /\ ~records[i].superseded /\ records'[i].superseded =>
            \E j \in DOMAIN records' \ DOMAIN records : records'[j].supersedes = i
  /\ \A e \in events \ events' :
       \E n \in events' \ events : n.case = e.case /\ records'[n.record].supersedes = e.record

LEMMA EntriesGiveWay ==
  ASSUME NEW rows, NEW driven, events' = Timelines(rows, driven), NEW e \in events \ events'
  PROVE  \E n \in events' \ events : n.case = e.case /\ rows[n.record].supersedes = e.record
<1>1. PICK case \in driven : e \in Overdue(rows, case)
  BY DEF Timelines
<1>2. PICK n \in Entries(rows, case) \ events : rows[n.record].supersedes = e.record
  BY <1>1 DEF Overdue
<1>3. n \in events'
  BY <1>2 DEF Timelines
<1>4. n.case = case /\ e.case = case
  BY <1>1, <1>2 DEF Entries, Overdue
<1> QED  BY <1>2, <1>3, <1>4

LEMMA ReconcileAppends ==
  ASSUME UNCHANGED records, NEW driven, Reconcile(records, driven)
  PROVE  Appended
<1>1. events' = Timelines(records', driven)
  BY DEF Reconcile
<1> QED  BY <1>1, EntriesGiveWay DEF Appended, SameFact

LEMMA IngestAppends ==
  ASSUME SInv, Ingest
  PROVE  Appended
<1>1. PICK customer \in Customers, key \in Keys : \E status \in Says[key] :
        /\ \/ NewFact(customer, key, status)
           \/ DuplicateDelivery(customer, key, status)
           \/ Correction(customer, key, status)
        /\ \E driven \in Driven(customer) : Reconcile(records', driven)
  BY DEF Ingest
<1>2. PICK status \in Says[key] :
        /\ \/ NewFact(customer, key, status)
           \/ DuplicateDelivery(customer, key, status)
           \/ Correction(customer, key, status)
        /\ \E driven \in Driven(customer) : Reconcile(records', driven)
  BY <1>1
<1>3. PICK driven \in Driven(customer) : Reconcile(records', driven)
  BY <1>2
<1>4. records \in Seq(Rows)
  BY DEF SInv, TypeOK
<1>5. PICK row \in Rows, old \in Nat : Stored(customer, key, status, row, old)
  BY <1>2, <1>4, DeliveryStores
<1>6. /\ records' \in Seq(Rows) /\ Len(records') = Len(records) + 1
      /\ records'[Len(records) + 1] = row /\ row.supersedes = old
  BY <1>5 DEF Stored, Extends
<1>7. /\ DOMAIN records = 1 .. Len(records) /\ Len(records) \in Nat
      /\ DOMAIN records' = 1 .. Len(records')
  BY <1>4, <1>6
<1>8. Len(records) + 1 \in DOMAIN records' \ DOMAIN records
  BY <1>6, <1>7
<1>9. ASSUME NEW i \in DOMAIN records
      PROVE  /\ i \in DOMAIN records' /\ SameFact(records'[i], records[i])
             /\ records[i].superseded => records'[i].superseded
             /\ ~records[i].superseded /\ records'[i].superseded => i = old
  BY <1>5, <1>6, <1>7 DEF Stored
<1>10. events' = Timelines(records', driven)
  BY <1>3 DEF Reconcile
<1>11. \A e \in events \ events' :
         \E n \in events' \ events : n.case = e.case /\ records'[n.record].supersedes = e.record
  BY <1>10, EntriesGiveWay
<1> QED  BY <1>6, <1>8, <1>9, <1>11 DEF Appended

\* "Corrections never overwrite" (models/evidence.py:20): no delivery, correction or reconciliation
\* changes what a stored row says, revives one that has been superseded, or takes a fact off a
\* timeline without its correction in its place.
THEOREM EvidenceIsAppended == Spec => [][Appended]_vars
<1>1. ASSUME SInv, [Next]_vars
      PROVE  [Appended]_vars
  <2>1. CASE Ingest
    BY <1>1, <2>1, IngestAppends
  <2>2. CASE OpenCase \/ AdvanceCase
    BY <2>2, ReconcileAppends DEF OpenCase, AdvanceCase
  <2> QED  BY <1>1, <2>1, <2>2 DEF Next
<1>2. SInv /\ [Next]_vars => [Appended]_vars
  BY <1>1
<1> QED  BY <1>2, EvidenceInvariant, PTL DEF Spec
=============================================================================
